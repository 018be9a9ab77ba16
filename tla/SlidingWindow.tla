---------------------------- MODULE SlidingWindow ----------------------------
(***************************************************************************)
(* What a rate limiter promises: it grants a request only if its endpoint  *)
(* has had fewer than `limit` requests in the last `Window`, and no request *)
(* at all has been granted in the last `delay`.  It remembers every request *)
(* it has ever granted.                                                    *)
(***************************************************************************)
EXTENDS Integers, FiniteSets

CONSTANTS Endpoints, Window

VARIABLES limit,     \* requests per endpoint in a window; 0 is no limit
          delay,     \* the least time between two requests
          granted,   \* the requests granted, numbered
          now

vars == <<limit, delay, granted, now>>

Request == [id : Nat, endpoint : Endpoints, at : Nat]

\* The requests to e in the window of time that ends at t.
InWindow(e, t) == {r \in granted : /\ r.endpoint = e
                                   /\ t - Window < r.at /\ r.at <= t}

Admits(e) == /\ limit > 0 => Cardinality(InWindow(e, now)) < limit
             /\ \A r \in granted : now - r.at >= delay

Init == limit \in Nat /\ delay \in Nat /\ granted = {} /\ now = 0

Configure == /\ granted = {}
             /\ limit' \in Nat /\ delay' \in Nat
             /\ UNCHANGED <<granted, now>>

Grant(e) ==
    /\ Admits(e)
    /\ granted' = granted \cup
                     {[id |-> Cardinality(granted), endpoint |-> e, at |-> now]}
    /\ UNCHANGED <<limit, delay, now>>

Tick == now' = now + 1 /\ UNCHANGED <<limit, delay, granted>>

Next == Configure \/ (\E e \in Endpoints : Grant(e)) \/ Tick

Spec == Init /\ [][Next]_vars
------------------------------------------------------------------------------
\* No endpoint gets more than `limit` requests in any window of time.
WindowRespected ==
    limit > 0 => \A last \in granted :
                    Cardinality(InWindow(last.endpoint, last.at)) <= limit
==============================================================================
