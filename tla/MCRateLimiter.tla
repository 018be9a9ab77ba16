---------------------------- MODULE MCRateLimiter ----------------------------
(***************************************************************************)
(* Instances of RateLimiter for TLC, and what the repository says of a     *)
(* limit of 0.                                                             *)
(***************************************************************************)
EXTENDS RateLimiter

MCEndpointLimits == {0, 1}
MCRequestDelays == {-1, 2}

\* config.yaml.example: "Maximum number of requests per endpoint per minute
\* (0 to disable)".  main applies the value only if it is positive, so that 0
\* leaves the default in force (main.go:92).
ZeroDisables ==
    configured = 0 => \A c \in Callers : pc[c] = "sleep" => throttle <= requestDelay
==============================================================================
