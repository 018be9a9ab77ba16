-------------------------- MODULE RateLimiterProofs --------------------------
(***************************************************************************)
(* Wait keeps to the limit and the delay, for any number of callers and    *)
(* endpoints and for every window, limit and delay.                        *)
(***************************************************************************)
EXTENDS RateLimiter, FiniteSetTheorems, WellFoundedInduction, TLAPS

\* The abstract limiter counts with the same Cardinality.
LEMMA SameCardinality == \A S : SW!Cardinality(S) = Cardinality(S)
  BY DEF SW!Cardinality, Cardinality

\* Of some requests, one is the oldest.
LEMMA OldestExists ==
    ASSUME NEW S \in SUBSET Request, S # {}
    PROVE  \E o \in S : \A r \in S : o.at <= r.at
<1> DEFINE Instants == {r.at : r \in S}
<1>1. Instants \subseteq Nat /\ Instants # {}
  BY DEF Request
<1>2. PICK x \in Instants : \A y \in Instants : ~(<<y, x>> \in OpToRel(<, Nat))
  BY <1>1, NatLessThanWellFounded, WFMin
<1>3. ASSUME NEW y \in Instants PROVE x <= y
  <2>1. x \in Nat /\ y \in Nat
    BY <1>1
  <2>2. <<y, x>> \in Nat \X Nat /\ <<y, x>>[1] = y /\ <<y, x>>[2] = x
    BY <2>1
  <2>3. ~(y < x)
    BY <1>2, <2>2 DEF OpToRel
  <2> QED BY <2>1, <2>3
<1>4. PICK o \in S : x = o.at
  OBVIOUS
<1> QED BY <1>3, <1>4

\* OldestTime is the time of the oldest request that Wait counted.
LEMMA OldestTimeIs ==
    ASSUME TypeOk, NEW e, SameRequests(e) # {}
    PROVE  \E o \in SameRequests(e) :
              /\ o.at = OldestTime(e)
              /\ \A r \in SameRequests(e) : o.at <= r.at
<1> DEFINE S == SameRequests(e)
           T == {r.at : r \in S}
<1>1. S \in SUBSET Request
  BY DEF TypeOk, SameRequests, Recent
<1>2. PICK o \in S : \A r \in S : o.at <= r.at
  BY <1>1, OldestExists
<1>3. \E t \in T : \A r \in S : t <= r.at
  BY <1>2
<1>4. OldestTime(e) \in T /\ \A r \in S : OldestTime(e) <= r.at
  BY <1>3 DEF OldestTime
<1>5. PICK p \in S : p.at = OldestTime(e)
  BY <1>4
<1> QED BY <1>4, <1>5

\* The requests since an instant are finitely many, and fewer as it goes on.
LEMMA SinceShrinks ==
    ASSUME TypeOk, NEW e, NEW t \in Int, NEW u \in Int, t <= u
    PROVE  /\ IsFiniteSet(Since(e, t)) /\ IsFiniteSet(Since(e, u))
           /\ Cardinality(Since(e, t)) \in Nat
           /\ Cardinality(Since(e, u)) \in Nat
           /\ Cardinality(Since(e, u)) <= Cardinality(Since(e, t))
<1>1. IsFiniteSet(granted) /\ Since(e, t) \in SUBSET granted
  BY DEF TypeOk, Since
<1>2. IsFiniteSet(Since(e, t))
  BY <1>1, FS_Subset
<1>3. Since(e, u) \in SUBSET Since(e, t)
  BY ConstantsAssumption DEF TypeOk, Since, Request
<1>4. /\ IsFiniteSet(Since(e, u))
      /\ Cardinality(Since(e, u)) <= Cardinality(Since(e, t))
  BY <1>2, <1>3, FS_Subset
<1> QED BY <1>2, <1>4, FS_CardinalityType

LEMMA WindowIsFinite ==
    ASSUME TypeOk, NEW e, NEW t
    PROVE  /\ IsFiniteSet(SW!InWindow(e, t))
           /\ Cardinality(SW!InWindow(e, t)) \in Nat
<1>1. IsFiniteSet(granted) /\ SW!InWindow(e, t) \in SUBSET granted
  BY DEF TypeOk, SW!InWindow
<1> QED BY <1>1, FS_Subset, FS_CardinalityType

\* A wait that makes up for the delay as of s is long enough at n.
LEMMA LateEnough ==
    \A last, d, s, n, w \in Nat : \A x \in Int :
       x >= d - (s - last) /\ w >= x /\ s <= n => n + w >= last + d
  OBVIOUS

\* The throttle covers both waits.
LEMMA ThrottleCovers ==
    ASSUME TypeOk, Admission, NEW c \in Callers, Throttle(c)
    PROVE  /\ throttle' \in Nat
           /\ LimitWait(endpoint[c]) \in Nat /\ DelayWait \in Nat
           /\ throttle' >= LimitWait(endpoint[c]) /\ throttle' >= DelayWait
<1> DEFINE e == endpoint[c]
<1>1. LimitWait(e) \in Nat
  <2>1. CASE ~(LimitReached(e) /\ OldestTime(e) + Window > now)
    BY <2>1 DEF LimitWait
  <2>2. CASE LimitReached(e) /\ OldestTime(e) + Window > now
    <3>1. SameRequests(e) # {}
      <4>1. SUFFICES ASSUME SameRequests(e) = {} PROVE FALSE
        OBVIOUS
      <4>2. Cardinality(SameRequests(e)) = 0
        BY <4>1, FS_EmptySet
      <4> QED BY <2>2, <4>2 DEF LimitReached, TypeOk
    <3>2. PICK o \in SameRequests(e) : o.at = OldestTime(e)
      BY <3>1, OldestTimeIs
    <3>3. OldestTime(e) \in Nat
      BY <3>2 DEF SameRequests, Recent, TypeOk, Request
    <3> QED BY <2>2, <3>3, ConstantsAssumption DEF LimitWait, TypeOk
  <2> QED BY <2>1, <2>2
<1>2. DelayWait \in Nat
  BY ConstantsAssumption DEF DelayWait, TypeOk
<1>3. throttle' = IF DelayWait > LimitWait(e) THEN DelayWait ELSE LimitWait(e)
  BY DEF Throttle
<1> QED BY <1>1, <1>2, <1>3

\* When the sleep that Throttle asks for is over, the endpoint has room.
LEMMA ThrottleWaitsForRoom ==
    ASSUME TypeOk, Admission, NEW c \in Callers, Throttle(c)
    PROVE  RoomAt(endpoint[c], now + throttle')
<1> DEFINE e == endpoint[c]
           S == SameRequests(e)
           wake == now + throttle'
<1>1. /\ mu = c /\ mu # NoOne
      /\ seen <= now /\ seen \in Nat /\ now \in Nat
      /\ lastRequestTime # Never => lastRequestTime <= seen
  BY ConstantsAssumption DEF Admission, Mutex, HoldsMutex, Throttle, TypeOk
<1>2. wake \in Nat /\ wake >= now /\ wake >= now + LimitWait(e)
      /\ LimitWait(e) \in Nat
  BY <1>1, ThrottleCovers
<1>3. Since(e, wake) \subseteq S
  <2>1. SUFFICES ASSUME NEW r \in Since(e, wake) PROVE r \in S
    OBVIOUS
  <2>2. r \in granted /\ r.endpoint = e /\ r.at > wake - Window /\ r.at \in Nat
    BY <2>1 DEF Since, TypeOk, Request
  <2>3. r.at > seen - Window
    BY <2>2, <1>1, <1>2, ConstantsAssumption
  <2>4. r \in requests
    BY <2>2, <2>3, <1>1 DEF Admission, Kept
  <2> QED BY <2>2, <2>3, <2>4 DEF SameRequests, Recent
<1>4. S \in SUBSET SW!InWindow(e, seen)
  <2>1. SUFFICES ASSUME NEW r \in S PROVE r \in SW!InWindow(e, seen)
    OBVIOUS
  <2>2. r \in granted /\ r.endpoint = e /\ r.at > seen - Window /\ r.at \in Nat
    BY DEF SameRequests, Recent, Admission, Kept, TypeOk, Request
  <2>3. r.at <= seen
    BY <2>2, <1>1 DEF Admission, Latest, TypeOk
  <2> QED BY <2>2, <2>3, <1>1, ConstantsAssumption DEF SW!InWindow
<1>5. IsFiniteSet(S) /\ Cardinality(S) <= Cardinality(SW!InWindow(e, seen))
      /\ Cardinality(S) \in Nat /\ Cardinality(SW!InWindow(e, seen)) \in Nat
  BY <1>4, WindowIsFinite, FS_Subset, FS_CardinalityType
<1>6. SUFFICES ASSUME endpointLimit > 0
               PROVE  Cardinality(Since(e, wake)) < endpointLimit
  BY DEF RoomAt
<1>7. endpointLimit \in Nat /\ e \in Endpoints
  BY DEF TypeOk
<1>8. CASE ~LimitReached(e)
  <2>1. Cardinality(S) < endpointLimit
    BY <1>5, <1>6, <1>7, <1>8 DEF LimitReached
  <2>2. /\ Cardinality(Since(e, wake)) <= Cardinality(S)
        /\ Cardinality(Since(e, wake)) \in Nat
    BY <1>3, <1>5, FS_Subset, FS_CardinalityType
  <2> QED BY <2>1, <2>2, <1>5, <1>7
<1>9. CASE LimitReached(e)
  <2>1. Cardinality(S) <= endpointLimit
    <3>1. seen \in 0..now
      BY <1>1
    <3>2. Cardinality(SW!InWindow(e, seen)) <= endpointLimit
      BY <1>6, <1>7, <3>1 DEF Admission, Full
    <3> QED BY <3>2, <1>5, <1>7
  <2>2. S # {}
    <3>1. SUFFICES ASSUME S = {} PROVE FALSE
      OBVIOUS
    <3>2. Cardinality(S) = 0
      BY <3>1, FS_EmptySet
    <3> QED BY <1>6, <1>7, <1>9, <3>2 DEF LimitReached
  <2>3. PICK o \in S : o.at = OldestTime(e)
    BY <2>2, OldestTimeIs
  <2>4. o.at \in Nat
    BY <2>3 DEF SameRequests, Recent, TypeOk, Request
  <2>5. wake >= o.at + Window
    BY <1>1, <1>2, <1>9, <2>3, <2>4, ConstantsAssumption DEF LimitWait
  <2>6. o \notin Since(e, wake)
    BY <1>2, <2>4, <2>5, ConstantsAssumption DEF Since
  <2>7. Since(e, wake) \in SUBSET (S \ {o})
    BY <1>3, <2>6
  <2>8. IsFiniteSet(S \ {o}) /\ Cardinality(S \ {o}) = Cardinality(S) - 1
    BY <1>5, <2>3, FS_RemoveElement
  <2>9. /\ Cardinality(Since(e, wake)) <= Cardinality(S \ {o})
        /\ Cardinality(Since(e, wake)) \in Nat
    BY <2>7, <2>8, FS_Subset, FS_CardinalityType
  <2> QED BY <2>1, <2>8, <2>9, <1>5, <1>7
<1> QED BY <1>8, <1>9
------------------------------------------------------------------------------
LEMMA TypeInit == Init => TypeOk
  BY FS_EmptySet, ConstantsAssumption DEF Init, TypeOk

\* The record that Record adds is new.
LEMMA NextRequest ==
    ASSUME TypeOk, Admission, NEW c \in Callers, Record(c)
    PROVE  \E r \in Request \ granted :
              /\ r.id = Cardinality(granted)
              /\ r.endpoint = endpoint[c] /\ r.at = now
              /\ granted' = granted \cup {r} /\ requests' = requests \cup {r}
              /\ IsFiniteSet(granted')
              /\ Cardinality(granted') = Cardinality(granted) + 1
<1> DEFINE r == [id |-> Cardinality(granted), endpoint |-> endpoint[c],
                 at |-> now]
<1>1. Cardinality(granted) \in Nat /\ IsFiniteSet(granted)
  BY FS_CardinalityType DEF TypeOk
<1>2. r \in Request
  BY <1>1 DEF TypeOk, Request
<1>3. r \notin granted
  <2>1. \A q \in granted : q.id < Cardinality(granted)
    BY DEF Admission, Numbered
  <2> QED BY <1>1, <2>1
<1>4. granted' = granted \cup {r} /\ requests' = requests \cup {r}
  BY DEF Record
<1>5. IsFiniteSet(granted') /\ Cardinality(granted') = Cardinality(granted) + 1
  BY <1>1, <1>3, <1>4, FS_AddElement
<1> QED BY <1>2, <1>3, <1>4, <1>5

LEMMA TypeStep ==
    ASSUME TypeOk, Admission, [Next]_vars
    PROVE  TypeOk'
<1> USE ConstantsAssumption DEF TypeOk
<1>1. ASSUME NEW limit \in EndpointLimits, NEW delay \in RequestDelays,
             Configure(limit, delay)
      PROVE  TypeOk'
  BY <1>1 DEF Configure, localVars
<1>2. ASSUME NEW c \in Callers, NEW e \in Endpoints, Call(c, e) PROVE TypeOk'
  BY <1>2 DEF Call, limiterVars, localVars
<1>3. ASSUME NEW c \in Callers, Lock(c) PROVE TypeOk'
  BY <1>3 DEF Lock, Recent, limiterVars
<1>4. ASSUME NEW c \in Callers, Throttle(c) PROVE TypeOk'
  <2>1. throttle' \in Nat
    BY <1>4, ThrottleCovers
  <2> QED BY <1>4, <2>1 DEF Throttle, limiterVars
<1>5. ASSUME NEW c \in Callers, Record(c) PROVE TypeOk'
  <2>1. requests' \subseteq Request /\ granted' \subseteq Request
        /\ IsFiniteSet(granted')
    BY <1>5, NextRequest
  <2> QED BY <1>5, <2>1 DEF Record, limiterVars, localVars
<1>6. CASE Tick
  BY <1>6 DEF Tick, limiterVars, localVars
<1>7. CASE UNCHANGED vars
  BY <1>7 DEF vars, limiterVars, localVars
<1> QED BY <1>1, <1>2, <1>3, <1>4, <1>5, <1>6, <1>7 DEF Next, Wait
------------------------------------------------------------------------------
LEMMA AdmissionInit == Init => Admission
<1> SUFFICES ASSUME Init PROVE Admission
  OBVIOUS
<1>1. granted = {} /\ requests = {} /\ now = 0
  BY DEF Init
<1>2. Full
  <2>1. SUFFICES ASSUME endpointLimit > 0, NEW e \in Endpoints, NEW t \in 0..now
                 PROVE  Cardinality(SW!InWindow(e, t)) <= endpointLimit
    BY DEF Full
  <2>2. SW!InWindow(e, t) = {}
    BY <1>1 DEF SW!InWindow
  <2> QED BY <2>1, <2>2, FS_EmptySet, ConstantsAssumption DEF Init
<1> QED BY <1>1, <1>2, ConstantsAssumption
        DEF Init, Admission, Kept, Numbered, Latest, Mutex, HoldsMutex, Slept

\* Steps that leave the requests, the clock and the limits alone keep what is
\* said of them.
LEMMA FullFrame ==
    ASSUME Full, UNCHANGED <<granted, now, endpointLimit>>
    PROVE  Full'
  BY DEF Full, SW!InWindow

LEMMA ConfigureStep ==
    ASSUME TypeOk, Admission, NEW limit \in EndpointLimits,
           NEW delay \in RequestDelays, Configure(limit, delay), TypeOk'
    PROVE  Admission'
<1> USE ConstantsAssumption DEF Admission
<1>1. /\ granted = {} /\ \A c \in Callers : pc[c] = "idle"
      /\ UNCHANGED <<requests, lastRequestTime, mu, pc, endpoint, seen, asked,
                     throttle, now, granted>>
      /\ configured' \in Int
  BY DEF Configure, localVars, Mutex
<1>2. Kept' /\ Numbered' /\ Latest'
  BY <1>1 DEF Kept, Numbered, Latest
<1>3. Mutex'
  BY <1>1 DEF Mutex, HoldsMutex
<1>4. Full'
  <2>1. SUFFICES ASSUME NEW e \in Endpoints, NEW t \in 0..now'
                 PROVE  Cardinality(SW!InWindow(e, t)') <= endpointLimit'
    BY DEF Full
  <2>2. SW!InWindow(e, t)' = {}
    BY <1>1 DEF SW!InWindow
  <2> QED BY <2>2, FS_EmptySet DEF TypeOk
<1>5. Slept'
  BY <1>1 DEF Slept
<1> QED BY <1>2, <1>3, <1>4, <1>5

LEMMA CallStep ==
    ASSUME TypeOk, Admission, NEW c \in Callers, NEW e \in Endpoints, Call(c, e)
    PROVE  Admission'
<1> USE ConstantsAssumption DEF Admission
<1>1. /\ configured # Unset /\ pc[c] = "idle"
      /\ pc' = [pc EXCEPT ![c] = "lock"]
      /\ endpoint' = [endpoint EXCEPT ![c] = e]
      /\ UNCHANGED <<endpointLimit, requestDelay, configured, requests,
                     lastRequestTime, mu, seen, asked, throttle, now, granted>>
  BY DEF Call, limiterVars, localVars
<1>2. Kept' /\ Numbered' /\ Latest' /\ Full'
  BY <1>1, FullFrame DEF Kept, Numbered, Latest
<1>3. Mutex'
  BY <1>1 DEF Mutex, HoldsMutex, TypeOk
<1>4. Slept'
  BY <1>1 DEF Slept, RoomAt, Since, WakeAt, TypeOk
<1> QED BY <1>2, <1>3, <1>4

LEMMA LockStep ==
    ASSUME TypeOk, Admission, NEW c \in Callers, Lock(c)
    PROVE  Admission'
<1> USE ConstantsAssumption DEF Admission
<1>1. /\ mu = NoOne /\ mu' = c /\ pc[c] = "lock" /\ seen' = now
      /\ pc' = [pc EXCEPT ![c] = "count"]
      /\ requests' = {r \in requests : r.at > now - Window}
      /\ UNCHANGED <<endpointLimit, requestDelay, configured, lastRequestTime,
                     endpoint, asked, throttle, now, granted>>
  BY DEF Lock, Recent, limiterVars
<1>2. Kept'
  BY <1>1 DEF Kept
<1>3. Numbered' /\ Latest' /\ Full'
  BY <1>1, FullFrame DEF Numbered, Latest
<1>4. Mutex'
  BY <1>1 DEF Mutex, HoldsMutex, Latest, TypeOk
<1>5. Slept'
  BY <1>1 DEF Slept, RoomAt, Since, WakeAt, TypeOk
<1> QED BY <1>2, <1>3, <1>4, <1>5

LEMMA ThrottleStep ==
    ASSUME TypeOk, Admission, NEW c \in Callers, Throttle(c)
    PROVE  Admission'
<1> USE ConstantsAssumption DEF Admission
<1>1. /\ pc[c] = "count" /\ asked' = now
      /\ pc' = [pc EXCEPT ![c] = "sleep"]
      /\ UNCHANGED <<endpointLimit, requestDelay, configured, requests,
                     lastRequestTime, mu, endpoint, seen, now, granted>>
  BY DEF Throttle, limiterVars
<1>2. Kept' /\ Numbered' /\ Latest' /\ Full'
  BY <1>1, FullFrame DEF Kept, Numbered, Latest
<1>3. Mutex'
  BY <1>1 DEF Mutex, HoldsMutex, TypeOk
<1>4. Slept'
  <2>1. SUFFICES ASSUME NEW d \in Callers, pc'[d] = "sleep"
                 PROVE  /\ RoomAt(endpoint[d], WakeAt)'
                        /\ lastRequestTime' # Never =>
                              WakeAt' >= lastRequestTime' + requestDelay'
                        /\ asked' <= now'
    BY DEF Slept
  <2>2. d = c
    BY <1>1, <1>3, <2>1 DEF Mutex, HoldsMutex, TypeOk
  <2>3. WakeAt' = now + throttle'
    BY <1>1 DEF WakeAt
  <2>4. RoomAt(endpoint[d], WakeAt)'
    <3>1. RoomAt(endpoint[c], now + throttle')
      BY ThrottleWaitsForRoom
    <3> QED BY <1>1, <2>2, <2>3, <3>1 DEF RoomAt, Since
  <2>5. ASSUME lastRequestTime # Never
        PROVE  now + throttle' >= lastRequestTime + requestDelay
    <3>1. throttle' >= DelayWait /\ throttle' \in Nat /\ DelayWait \in Nat
      BY ThrottleCovers
    <3>2. seen <= now
      BY <1>1 DEF Mutex, HoldsMutex
    <3>3. lastRequestTime \in Nat /\ requestDelay \in Nat /\ seen \in Nat
          /\ now \in Nat
      BY <2>5 DEF TypeOk
    <3>4. DelayWait >= requestDelay - (seen - lastRequestTime)
      BY <2>5, <3>3 DEF DelayWait
    <3>5. throttle' \in Nat /\ DelayWait \in Int /\ throttle' >= DelayWait
      BY <3>1
    <3>6. now + throttle' >= lastRequestTime + requestDelay
      BY ONLY <3>2, <3>3, <3>4, <3>5, LateEnough
    <3> QED BY <3>6
  <2> QED BY <1>1, <2>3, <2>4, <2>5 DEF TypeOk
<1> QED BY <1>2, <1>3, <1>4

\* A caller whose sleep is over finds room at its endpoint and the delay over.
LEMMA RoomOnWaking ==
    ASSUME TypeOk, Admission, NEW c \in Callers, pc[c] = "sleep", now >= WakeAt
    PROVE  /\ RoomAt(endpoint[c], now)
           /\ \A r \in granted : now - r.at >= requestDelay
<1>1. /\ RoomAt(endpoint[c], WakeAt) /\ WakeAt \in Nat /\ now \in Nat
      /\ lastRequestTime # Never => WakeAt >= lastRequestTime + requestDelay
  BY DEF Admission, Slept, WakeAt, TypeOk
<1>2. RoomAt(endpoint[c], now)
  BY <1>1, SinceShrinks DEF RoomAt, TypeOk
<1>3. ASSUME NEW r \in granted PROVE now - r.at >= requestDelay
  BY <1>1 DEF Admission, Latest, TypeOk, Request
<1> QED BY <1>2, <1>3

LEMMA RecordStep ==
    ASSUME TypeOk, Admission, NEW c \in Callers, Record(c)
    PROVE  Admission'
<1> USE ConstantsAssumption
<1>1. PICK r \in Request \ granted :
         /\ r.id = Cardinality(granted)
         /\ r.endpoint = endpoint[c] /\ r.at = now
         /\ granted' = granted \cup {r} /\ requests' = requests \cup {r}
         /\ IsFiniteSet(granted')
         /\ Cardinality(granted') = Cardinality(granted) + 1
  BY NextRequest
<1>2. /\ pc[c] = "sleep" /\ now >= WakeAt
      /\ lastRequestTime' = now /\ mu' = NoOne
      /\ pc' = [pc EXCEPT ![c] = "idle"]
      /\ UNCHANGED <<endpointLimit, requestDelay, configured, endpoint, seen,
                     asked, throttle, now>>
  BY DEF Record, limiterVars, localVars
<1>3. /\ mu = c /\ mu # NoOne /\ seen <= now
      /\ \A d \in Callers : d # c => ~HoldsMutex(d)
  BY <1>2 DEF Admission, Mutex, HoldsMutex
<1>4. Kept'
  BY <1>1, <1>2, <1>3 DEF Admission, Kept, TypeOk, Request
<1>5. Numbered'
  BY <1>1, FS_CardinalityType DEF Admission, Numbered, TypeOk, Request
<1>6. Latest'
  BY <1>1, <1>2 DEF Admission, Latest, TypeOk, Request
<1>7. Mutex'
  BY <1>2, <1>3 DEF Admission, Mutex, HoldsMutex, TypeOk
<1>8. Full'
  <2>1. SUFFICES ASSUME endpointLimit > 0, NEW e \in Endpoints, NEW t \in 0..now
                 PROVE  Cardinality(SW!InWindow(e, t)') <= endpointLimit
    BY <1>2 DEF Full
  <2>2. CASE e # endpoint[c] \/ t # now
    <3>1. SW!InWindow(e, t)' = SW!InWindow(e, t)
      BY <1>1, <2>2 DEF SW!InWindow, TypeOk
    <3> QED BY <2>1, <3>1 DEF Admission, Full
  <2>3. CASE e = endpoint[c] /\ t = now
    <3>1. SW!InWindow(e, t)' \in SUBSET (Since(e, now) \cup {r})
      BY <1>1, <2>3 DEF SW!InWindow, Since, TypeOk, Request
    <3>2. /\ IsFiniteSet(Since(e, now)) /\ Cardinality(Since(e, now)) \in Nat
          /\ Cardinality(Since(e, now)) < endpointLimit
      BY <1>2, <2>1, <2>3, RoomOnWaking, SinceShrinks DEF RoomAt, TypeOk
    <3>3. /\ IsFiniteSet(Since(e, now) \cup {r})
          /\ Cardinality(Since(e, now) \cup {r}) <= Cardinality(Since(e, now)) + 1
          /\ Cardinality(Since(e, now) \cup {r}) \in Nat
      <4>1. r \notin Since(e, now)
        BY DEF Since
      <4>2. /\ IsFiniteSet(Since(e, now) \cup {r})
            /\ Cardinality(Since(e, now) \cup {r}) = Cardinality(Since(e, now)) + 1
        BY <3>2, <4>1, FS_AddElement
      <4> QED BY <3>2, <4>2
    <3>4. /\ Cardinality(SW!InWindow(e, t)')
                <= Cardinality(Since(e, now) \cup {r})
          /\ Cardinality(SW!InWindow(e, t)') \in Nat
      BY <3>1, <3>3, FS_Subset, FS_CardinalityType
    <3> QED BY <3>2, <3>3, <3>4 DEF TypeOk
  <2> QED BY <2>2, <2>3
<1>9. Slept'
  BY <1>2, <1>3 DEF Slept, HoldsMutex, TypeOk
<1> QED BY <1>4, <1>5, <1>6, <1>7, <1>8, <1>9 DEF Admission

LEMMA TickStep ==
    ASSUME TypeOk, Admission, Tick
    PROVE  Admission'
<1> USE ConstantsAssumption
<1>1. /\ now' = now + 1 /\ now \in Nat
      /\ UNCHANGED <<endpointLimit, requestDelay, configured, requests,
                     lastRequestTime, mu, pc, endpoint, seen, asked, throttle,
                     granted>>
  BY DEF Tick, limiterVars, localVars, TypeOk
<1>2. Kept' /\ Numbered'
  BY <1>1 DEF Admission, Kept, Numbered, TypeOk, Request
<1>3. Latest'
  BY <1>1 DEF Admission, Latest, TypeOk, Request
<1>4. Mutex'
  BY <1>1 DEF Admission, Mutex, HoldsMutex, TypeOk
<1>5. Full'
  <2>1. SUFFICES ASSUME endpointLimit > 0, NEW e \in Endpoints, NEW t \in 0..now'
                 PROVE  Cardinality(SW!InWindow(e, t)') <= endpointLimit
    BY <1>1 DEF Full
  <2>2. SW!InWindow(e, t)' = SW!InWindow(e, t)
    BY <1>1 DEF SW!InWindow
  <2>3. CASE t \in 0..now
    BY <2>1, <2>2, <2>3 DEF Admission, Full
  <2>4. CASE t = now + 1
    <3>1. SW!InWindow(e, t) \in SUBSET SW!InWindow(e, now)
      BY <1>1, <2>4 DEF SW!InWindow, Admission, Latest, TypeOk, Request
    <3>2. /\ Cardinality(SW!InWindow(e, t)) <= Cardinality(SW!InWindow(e, now))
          /\ Cardinality(SW!InWindow(e, t)) \in Nat
          /\ Cardinality(SW!InWindow(e, now)) \in Nat
      BY <3>1, WindowIsFinite, FS_Subset
    <3>3. Cardinality(SW!InWindow(e, now)) <= endpointLimit
      BY <1>1, <2>1 DEF Admission, Full
    <3> QED BY <2>2, <3>2, <3>3 DEF TypeOk
  <2> QED BY <1>1, <2>3, <2>4
<1>6. Slept'
  BY <1>1 DEF Admission, Slept, RoomAt, Since, WakeAt, TypeOk
<1> QED BY <1>2, <1>3, <1>4, <1>5, <1>6 DEF Admission

LEMMA AdmissionStep ==
    ASSUME TypeOk, Admission, [Next]_vars
    PROVE  Admission'
<1>1. ASSUME NEW limit \in EndpointLimits, NEW delay \in RequestDelays,
             Configure(limit, delay)
      PROVE  Admission'
  BY <1>1, TypeStep, ConfigureStep
<1>2. ASSUME NEW c \in Callers, NEW e \in Endpoints, Call(c, e)
      PROVE  Admission'
  BY <1>2, CallStep
<1>3. ASSUME NEW c \in Callers, Wait(c) PROVE Admission'
  BY <1>3, LockStep, ThrottleStep, RecordStep DEF Wait
<1>4. CASE Tick
  BY <1>4, TickStep
<1>5. CASE UNCHANGED vars
  BY <1>5 DEF vars, limiterVars, localVars, Admission, Kept, Numbered, Latest,
              Mutex, HoldsMutex, Full, SW!InWindow, Slept, RoomAt, Since, WakeAt
<1> QED BY <1>1, <1>2, <1>3, <1>4, <1>5 DEF Next
------------------------------------------------------------------------------
\* The types of the limiter, and the inductive invariant that says why a
\* request is let through only when it may (ratelimit.go:63-163).
THEOREM Admitted == Spec => [](TypeOk /\ Admission)
<1>1. Init => TypeOk /\ Admission
  BY TypeInit, AdmissionInit
<1>2. TypeOk /\ Admission /\ [Next]_vars => (TypeOk /\ Admission)'
  BY TypeStep, AdmissionStep
<1> QED BY <1>1, <1>2, PTL DEF Spec

\* The types of the limiter, for any number of callers.
THEOREM TypeCorrect == Spec => []TypeOk
<1> QED BY Admitted, PTL

\* No endpoint gets more requests than the limit in any window of time, for
\* every window and limit, any number of callers and any delay.
THEOREM LimitKept == Spec => []WindowRespected
<1>1. TypeOk /\ Admission => WindowRespected
  <2>1. SUFFICES ASSUME TypeOk, Admission, endpointLimit > 0,
                        NEW last \in granted
                 PROVE  Cardinality(SW!InWindow(last.endpoint, last.at))
                           <= endpointLimit
    BY SameCardinality DEF WindowRespected, SW!WindowRespected
  <2>2. last.endpoint \in Endpoints /\ last.at \in 0..now
    BY <2>1, ConstantsAssumption DEF Admission, Latest, TypeOk, Request
  <2> QED BY <2>1, <2>2 DEF Admission, Full
<1> QED BY <1>1, Admitted, PTL

\* The limiter, which forgets old requests and reads the clock three times,
\* implements one that remembers every request and decides at an instant.
THEOREM Implementation == Spec => ImplementsSlidingWindow
<1>1. Init => SW!Init
  BY ConstantsAssumption DEF Init, SW!Init
<1>2. ASSUME TypeOk, Admission, TypeOk', [Next]_vars
      PROVE  [SW!Next]_(SW!vars)
  <2> DEFINE Goal == [SW!Next]_(SW!vars)
  <2>1. ASSUME NEW limit \in EndpointLimits, NEW delay \in RequestDelays,
               Configure(limit, delay)
        PROVE  SW!Configure
    BY <1>2, <2>1 DEF Configure, SW!Configure, Admission, Mutex, TypeOk, localVars
  <2>2. ASSUME NEW c \in Callers, Record(c) PROVE SW!Grant(endpoint[c])
    <3> DEFINE e == endpoint[c]
    <3>1. pc[c] = "sleep" /\ now >= WakeAt
      BY <2>2 DEF Record
    <3>2. RoomAt(e, now) /\ \A r \in granted : now - r.at >= requestDelay
      BY <1>2, <3>1, RoomOnWaking
    <3>3. ASSUME endpointLimit > 0
          PROVE  Cardinality(SW!InWindow(e, now)) < endpointLimit
      <4>1. IsFiniteSet(Since(e, now)) /\ Cardinality(Since(e, now)) \in Nat
        BY <1>2, SinceShrinks DEF TypeOk
      <4>2. SW!InWindow(e, now) \in SUBSET Since(e, now)
        BY <1>2, ConstantsAssumption DEF SW!InWindow, Since, TypeOk, Request
      <4>3. /\ Cardinality(SW!InWindow(e, now)) <= Cardinality(Since(e, now))
            /\ Cardinality(SW!InWindow(e, now)) \in Nat
        BY <4>1, <4>2, FS_Subset, FS_CardinalityType
      <4> QED BY <1>2, <3>2, <3>3, <4>1, <4>3 DEF RoomAt, TypeOk
    <3>4. SW!Admits(e)
      BY <3>2, <3>3, SameCardinality DEF SW!Admits
    <3> QED BY <2>2, <3>4, SameCardinality DEF Record, SW!Grant, limiterVars
  <2>3. ASSUME Tick PROVE SW!Tick
    BY <2>3 DEF Tick, SW!Tick, limiterVars
  <2>4. ASSUME NEW c \in Callers, NEW e \in Endpoints, Call(c, e)
        PROVE  UNCHANGED SW!vars
    BY <2>4 DEF Call, SW!vars, limiterVars
  <2>5. ASSUME NEW c \in Callers, Lock(c) \/ Throttle(c)
        PROVE  UNCHANGED SW!vars
    BY <2>5 DEF Lock, Throttle, SW!vars, limiterVars
  <2>6. CASE UNCHANGED vars
    BY <2>6 DEF vars, SW!vars, limiterVars
  <2>7. \A c \in Callers : endpoint[c] \in Endpoints
    BY <1>2 DEF TypeOk
  <2> QED BY <1>2, <2>1, <2>2, <2>3, <2>4, <2>5, <2>6, <2>7
          DEF Next, Wait, SW!Next
<1> QED BY <1>1, <1>2, Admitted, PTL DEF Spec, ImplementsSlidingWindow, SW!Spec
------------------------------------------------------------------------------
(* The length of the history *)

\* While Wait holds the mutex the history is clean; after it, one longer.
Of(e) == {r \in requests : r.endpoint = e}
Short == endpointLimit > 0 =>
            \A e \in Endpoints :
               Cardinality(Of(e)) <= IF mu = NoOne THEN endpointLimit + 1
                                                   ELSE endpointLimit

LEMMA OfIsFinite ==
    ASSUME TypeOk, Admission, NEW e
    PROVE  IsFiniteSet(Of(e)) /\ Cardinality(Of(e)) \in Nat
<1>1. IsFiniteSet(granted) /\ Of(e) \in SUBSET granted
  BY DEF TypeOk, Admission, Kept, Of
<1> QED BY <1>1, FS_Subset, FS_CardinalityType

LEMMA ShortStep ==
    ASSUME TypeOk, Admission, Short, [Next]_vars
    PROVE  Short'
<1>1. ASSUME UNCHANGED <<requests, mu, endpointLimit>> PROVE Short'
  BY <1>1 DEF Short, Of
<1>2. ASSUME NEW limit \in EndpointLimits, NEW delay \in RequestDelays,
             Configure(limit, delay)
      PROVE  Short'
  <2>1. granted = {} /\ requests' = requests /\ TypeOk'
    BY <1>2, TypeStep DEF Configure, Admission, Mutex, Next
  <2>2. \A e \in Endpoints : Of(e)' = {}
    BY <2>1 DEF Of, Admission, Kept
  <2>3. \A e \in Endpoints : Cardinality(Of(e)') = 0
    BY <2>2, FS_EmptySet
  <2> QED BY <2>1, <2>3 DEF Short, TypeOk
<1>3. ASSUME NEW c \in Callers, Lock(c) PROVE Short'
  <2>1. /\ mu' = c /\ requests' = Recent(now)
        /\ UNCHANGED <<endpointLimit, granted, now>>
    BY <1>3 DEF Lock, limiterVars
  <2>2. ASSUME endpointLimit > 0, NEW e \in Endpoints
        PROVE  Cardinality(Of(e)') <= endpointLimit
    <3>1. Of(e)' \in SUBSET SW!InWindow(e, now)
      <4>1. SUFFICES ASSUME NEW r \in Of(e)' PROVE r \in SW!InWindow(e, now)
        OBVIOUS
      <4>2. r \in granted /\ r.at > now - Window /\ r.endpoint = e
        BY <2>1 DEF Of, Recent, Admission, Kept
      <4>3. r.at \in Nat /\ r.at <= now
        BY <4>2, ConstantsAssumption DEF TypeOk, Request, Admission, Latest
      <4> QED BY <4>2, <4>3, ConstantsAssumption DEF SW!InWindow, TypeOk
    <3>2. /\ Cardinality(Of(e)') <= Cardinality(SW!InWindow(e, now))
          /\ Cardinality(Of(e)') \in Nat /\ Cardinality(SW!InWindow(e, now)) \in Nat
      BY <3>1, WindowIsFinite, FS_Subset, FS_CardinalityType
    <3>3. Cardinality(SW!InWindow(e, now)) <= endpointLimit
      BY <2>2 DEF Admission, Full, TypeOk
    <3> QED BY <3>2, <3>3 DEF TypeOk
  <2>3. mu' # NoOne
    BY <2>1, ConstantsAssumption
  <2> QED BY <2>1, <2>2, <2>3 DEF Short
<1>4. ASSUME NEW c \in Callers, Record(c) PROVE Short'
  <2>1. /\ mu = c /\ mu # NoOne /\ mu' = NoOne
        /\ endpointLimit' = endpointLimit
    BY <1>4, ConstantsAssumption DEF Record, limiterVars, Admission, Mutex,
       HoldsMutex
  <2>2. PICK r \in Request \ granted : requests' = requests \cup {r}
    BY <1>4, NextRequest
  <2>3. ASSUME endpointLimit > 0, NEW e \in Endpoints
        PROVE  Cardinality(Of(e)') <= endpointLimit + 1
    <3>1. /\ IsFiniteSet(Of(e)) /\ Cardinality(Of(e)) \in Nat
          /\ Cardinality(Of(e)) <= endpointLimit
      BY <2>1, <2>3, OfIsFinite DEF Short
    <3>2. Of(e)' = Of(e) \/ Of(e)' = Of(e) \cup {r}
      BY <2>2 DEF Of
    <3>3. Cardinality(Of(e) \cup {r}) <= Cardinality(Of(e)) + 1
          /\ Cardinality(Of(e) \cup {r}) \in Nat
      <4>1. r \notin Of(e)
        BY DEF Of, Admission, Kept
      <4>2. Cardinality(Of(e) \cup {r}) = Cardinality(Of(e)) + 1
        BY <3>1, <4>1, FS_AddElement
      <4> QED BY <3>1, <4>2
    <3>4. endpointLimit \in Nat
      BY DEF TypeOk
    <3>5. CASE Of(e)' = Of(e)
      BY <3>1, <3>4, <3>5
    <3>6. CASE Of(e)' = Of(e) \cup {r}
      <4>1. Cardinality(Of(e)') = Cardinality(Of(e) \cup {r})
        BY <3>6
      <4> QED BY <3>1, <3>3, <3>4, <4>1
    <3> QED BY <3>2, <3>5, <3>6
  <2> QED BY <2>1, <2>3 DEF Short
<1>5. ASSUME NEW c \in Callers, NEW e \in Endpoints, Call(c, e) PROVE Short'
  BY <1>1, <1>5 DEF Call, limiterVars
<1>6. ASSUME NEW c \in Callers, Throttle(c) PROVE Short'
  BY <1>1, <1>6 DEF Throttle, limiterVars
<1>7. CASE Tick
  BY <1>1, <1>7 DEF Tick, limiterVars
<1>8. CASE UNCHANGED vars
  BY <1>1, <1>8 DEF vars, limiterVars
<1> QED BY <1>2, <1>3, <1>4, <1>5, <1>6, <1>7, <1>8 DEF Next, Wait

\* The history of an endpoint is at most one longer than the limit, for every
\* window, limit and number of callers (ratelimit.go:115-126).
THEOREM HistoryIsShort == Spec => []HistoryBounded
<1>1. Init => Short
  <2> SUFFICES ASSUME Init, NEW e \in Endpoints
               PROVE  Cardinality(Of(e)) <= endpointLimit + 1
    BY DEF Init, Short
  <2>1. Cardinality(Of(e)) = 0
    <3>1. Of(e) = {}
      BY DEF Init, Of
    <3> QED BY <3>1, FS_EmptySet
  <2> QED BY <2>1, ConstantsAssumption DEF Init
<1>2. TypeOk /\ Admission /\ Short /\ [Next]_vars => Short'
  BY ShortStep
<1>3. TypeOk /\ Admission /\ Short => HistoryBounded
  <2> SUFFICES ASSUME TypeOk, Admission, Short, endpointLimit > 0,
                      NEW e \in Endpoints
               PROVE  Cardinality(Of(e)) <= endpointLimit + 1
    BY DEF HistoryBounded, Of
  <2>1. Cardinality(Of(e)) \in Nat /\ endpointLimit \in Nat
    BY OfIsFinite DEF TypeOk
  <2>2. \/ Cardinality(Of(e)) <= endpointLimit + 1
        \/ Cardinality(Of(e)) <= endpointLimit
    BY DEF Short
  <2> QED BY <2>1, <2>2
<1> QED BY <1>1, <1>2, <1>3, Admitted, PTL DEF Spec
------------------------------------------------------------------------------
(* The length of the sleep *)

\* What NoNeedlessWait says of one caller.
Needed(c) == \A t \in now..(WakeAt - 1 - (asked - seen)) :
                \/ ~RoomAt(endpoint[c], t)
                \/ t - lastRequestTime < requestDelay

\* Before the oldest request that was counted leaves the window the endpoint
\* has no room.
LEMMA FullBefore ==
    ASSUME TypeOk, Admission, NEW c \in Callers, Throttle(c),
           LimitReached(endpoint[c]), NEW t \in Int,
           t < OldestTime(endpoint[c]) + Window
    PROVE  ~RoomAt(endpoint[c], t)
<1> DEFINE e == endpoint[c]
           S == SameRequests(e)
<1>1. S \in SUBSET granted
  BY DEF SameRequests, Recent, Admission, Kept
<1>2. endpointLimit > 0 /\ Cardinality(S) >= endpointLimit /\ endpointLimit \in Nat
  BY DEF LimitReached, TypeOk
<1>3. S # {}
  <2>1. SUFFICES ASSUME S = {} PROVE FALSE
    OBVIOUS
  <2>2. Cardinality(S) = 0
    BY <2>1, FS_EmptySet
  <2> QED BY <1>2, <2>2
<1>4. PICK o \in S : o.at = OldestTime(e) /\ \A r \in S : o.at <= r.at
  BY <1>3, OldestTimeIs
<1>5. S \in SUBSET Since(e, t)
  <2>1. SUFFICES ASSUME NEW r \in S PROVE r \in Since(e, t)
    OBVIOUS
  <2>2. r \in granted /\ r.endpoint = e /\ r.at \in Nat /\ o.at \in Nat
    BY <1>1 DEF SameRequests, TypeOk, Request
  <2>3. r.at > t - Window
    BY <1>4, <2>2, ConstantsAssumption
  <2> QED BY <2>2, <2>3 DEF Since
<1>6. /\ Cardinality(S) <= Cardinality(Since(e, t))
      /\ Cardinality(S) \in Nat /\ Cardinality(Since(e, t)) \in Nat
  BY <1>5, SinceShrinks, FS_Subset, FS_CardinalityType
<1> QED BY <1>2, <1>6 DEF RoomAt

LEMMA NeededOnThrottle ==
    ASSUME TypeOk, Admission, NEW c \in Callers, Throttle(c)
    PROVE  Needed(c)'
<1> DEFINE e == endpoint[c]
<1>1. /\ asked' = now /\ now' = now /\ seen' = seen /\ endpoint' = endpoint
      /\ lastRequestTime' = lastRequestTime /\ granted' = granted
      /\ endpointLimit' = endpointLimit /\ requestDelay' = requestDelay
      /\ throttle' = IF DelayWait > LimitWait(e) THEN DelayWait ELSE LimitWait(e)
  BY DEF Throttle, limiterVars
<1>2. /\ seen <= now /\ seen \in Nat /\ now \in Nat /\ requestDelay \in Nat
      /\ throttle' \in Nat /\ LimitWait(e) \in Nat /\ DelayWait \in Nat
  BY ThrottleCovers, ConstantsAssumption
     DEF Admission, Mutex, HoldsMutex, Throttle, TypeOk
<1> SUFFICES ASSUME NEW t \in Int, now <= t, t <= seen + throttle' - 1
             PROVE  ~RoomAt(e, t) \/ t - lastRequestTime < requestDelay
  BY <1>1, <1>2 DEF Needed, WakeAt, RoomAt, Since
<1>3. CASE DelayWait > LimitWait(e)
  <2>1. lastRequestTime # Never /\ lastRequestTime \in Nat
        /\ DelayWait = requestDelay - (seen - lastRequestTime)
    BY <1>2, <1>3 DEF DelayWait, TypeOk
  <2> QED BY <1>1, <1>2, <1>3, <2>1
<1>4. CASE ~(DelayWait > LimitWait(e))
  <2>1. throttle' = LimitWait(e) /\ LimitWait(e) > 0
    BY <1>1, <1>2, <1>4
  <2>2. LimitReached(e) /\ LimitWait(e) = OldestTime(e) + Window - now
        /\ OldestTime(e) + Window > now
    BY <2>1 DEF LimitWait
  <2>3. OldestTime(e) \in Int
    <3>1. SameRequests(e) # {}
      <4>1. SUFFICES ASSUME SameRequests(e) = {} PROVE FALSE
        OBVIOUS
      <4>2. Cardinality(SameRequests(e)) = 0
        BY <4>1, FS_EmptySet
      <4> QED BY <2>2, <4>2 DEF LimitReached, TypeOk
    <3>2. PICK o \in SameRequests(e) : o.at = OldestTime(e)
      BY <3>1, OldestTimeIs
    <3> QED BY <3>2 DEF SameRequests, Recent, TypeOk, Request
  <2>4. t < OldestTime(e) + Window
    BY <1>2, <2>1, <2>2, <2>3, ConstantsAssumption
  <2> QED BY <2>2, <2>4, FullBefore
<1> QED BY <1>3, <1>4

LEMMA NeededStep ==
    ASSUME TypeOk, Admission, NoNeedlessWait, [Next]_vars
    PROVE  NoNeedlessWait'
<1> SUFFICES ASSUME NEW d \in Callers, pc'[d] = "sleep" PROVE Needed(d)'
  BY DEF NoNeedlessWait, Needed
<1>1. ASSUME pc[d] = "sleep", endpoint'[d] = endpoint[d], now' \in Nat, now <= now',
             UNCHANGED <<endpointLimit, requestDelay, lastRequestTime, granted,
                         asked, seen, throttle>>
      PROVE  Needed(d)'
  <2>1. Needed(d)
    BY <1>1 DEF NoNeedlessWait, Needed
  <2>2. WakeAt \in Int /\ asked \in Int /\ seen \in Int /\ now \in Nat
    BY DEF TypeOk, WakeAt
  <2> QED BY <1>1, <2>1, <2>2 DEF Needed, RoomAt, Since, WakeAt
<1>2. ASSUME NEW limit \in EndpointLimits, NEW delay \in RequestDelays,
             Configure(limit, delay)
      PROVE  FALSE
  BY <1>2 DEF Configure, Admission, Mutex
<1>3. ASSUME NEW c \in Callers, NEW e \in Endpoints, Call(c, e)
      PROVE  Needed(d)'
  <2>1. c # d /\ pc[d] = "sleep" /\ endpoint'[d] = endpoint[d]
    BY <1>3 DEF Call, TypeOk
  <2> QED BY <1>1, <1>3, <2>1 DEF Call, limiterVars, localVars, TypeOk
<1>4. ASSUME NEW c \in Callers, Lock(c) \/ Record(c) PROVE FALSE
  <2>1. \A b \in Callers \ {c} : pc[b] # "sleep"
    BY <1>4, ConstantsAssumption DEF Lock, Record, Admission, Mutex, HoldsMutex
  <2>2. pc'[c] # "sleep" /\ \A b \in Callers \ {c} : pc'[b] = pc[b]
    BY <1>4 DEF Lock, Record, TypeOk
  <2> QED BY <2>1, <2>2
<1>5. ASSUME NEW c \in Callers, Throttle(c) PROVE Needed(d)'
  <2>1. \A b \in Callers \ {c} : pc[b] # "sleep" /\ pc'[b] = pc[b]
    BY <1>5, ConstantsAssumption DEF Throttle, Admission, Mutex, HoldsMutex, TypeOk
  <2>2. d = c
    BY <2>1
  <2> QED BY <1>5, <2>2, NeededOnThrottle
<1>6. CASE Tick
  BY <1>1, <1>6 DEF Tick, limiterVars, localVars, TypeOk
<1>7. CASE UNCHANGED vars
  BY <1>1, <1>7 DEF vars, limiterVars, localVars, TypeOk
<1> QED BY <1>2, <1>3, <1>4, <1>5, <1>6, <1>7 DEF Next, Wait

\* No caller sleeps longer than the limit or the delay asks for, for every
\* window, limit and delay (ratelimit.go:74-99).
THEOREM SleepIsNeeded == Spec => []NoNeedlessWait
<1>1. Init => NoNeedlessWait
  BY DEF Init, NoNeedlessWait
<1>2. TypeOk /\ Admission /\ NoNeedlessWait /\ [Next]_vars => NoNeedlessWait'
  BY NeededStep
<1> QED BY <1>1, <1>2, Admitted, PTL DEF Spec
==============================================================================
