----------------------------- MODULE AtomicWrites -----------------------------
(***************************************************************************)
(* What WriteMeasurements promises its callers: a call stores all rows of  *)
(* its batch in one step or none of them.  A call that reports success has *)
(* stored them.  One that reports failure has, as a rule, stored nothing,  *)
(* but the answer to a commit can be lost.  A failed call may be repeated. *)
(***************************************************************************)
EXTENDS Naturals, Sequences, FiniteSets

CONSTANTS Callers, DeviceSNs, Batches

VARIABLES status,  \* per caller: "idle", "called", "ok" or "failed"
          batch,   \* per caller: the measurements of its latest call
          rows     \* committed measurements of each device

vars == <<status, batch, rows>>

\* The measurements of a batch that belong to a device.
Count(b, d) == Cardinality({i \in DOMAIN b : b[i].sn = d})

Stored(b) == rows' = [d \in DeviceSNs |-> rows[d] + Count(b, d)]

Init == /\ status = [c \in Callers |-> "idle"]
        /\ batch = [c \in Callers |-> << >>]
        /\ rows = [d \in DeviceSNs |-> 0]

\* A call with nothing to write returns at once.
Call(c, b) == /\ status[c] \in {"idle", "ok"}
              /\ status' = [status EXCEPT ![c] = IF b = << >> THEN "ok"
                                                              ELSE "called"]
              /\ batch' = [batch EXCEPT ![c] = b]
              /\ UNCHANGED rows

Retry(c) == /\ status[c] = "failed"
            /\ status' = [status EXCEPT ![c] = "called"]
            /\ UNCHANGED <<batch, rows>>

Return(c, answer) == /\ status[c] = "called"
                     /\ status' = [status EXCEPT ![c] = answer]
                     /\ UNCHANGED batch

Commit(c) == Return(c, "ok") /\ Stored(batch[c])
CommitUnseen(c) == Return(c, "failed") /\ Stored(batch[c])
Refuse(c) == Return(c, "failed") /\ UNCHANGED rows

Next == \E c \in Callers :
           \/ \E b \in Batches : Call(c, b)
           \/ Retry(c) \/ Commit(c) \/ CommitUnseen(c) \/ Refuse(c)

Spec == Init /\ [][Next]_vars
==============================================================================
