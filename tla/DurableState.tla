----------------------------- MODULE DurableState -----------------------------
(***************************************************************************)
(* What a resume state promises its user: a map that changes one key at a  *)
(* time while the process is up, a checkpoint that replaces the saved map  *)
(* as a whole or not at all, and a start from the last checkpoint, or from *)
(* nothing when the saved map cannot be read.  A host that loses power may *)
(* go back to the checkpoint it had kept, or to nothing, and never to a    *)
(* mixture of checkpoints.                                                 *)
(***************************************************************************)
CONSTANTS Keys, Values, NoValue, PowerLoss

VARIABLES live,    \* the map in use
          saved,   \* the map a restart finds
          kept,    \* a map that a power loss cannot take away
          up

vars == <<live, saved, kept, up>>

Nothing == [k \in Keys |-> NoValue]

Init == live = Nothing /\ saved = Nothing /\ kept = Nothing /\ up = FALSE

Set(k, value) == /\ up
                 /\ live' = [live EXCEPT ![k] = value]
                 /\ UNCHANGED <<saved, kept, up>>

Checkpoint == up /\ saved' = live /\ UNCHANGED <<live, kept, up>>

Start == /\ ~up /\ up' = TRUE
         /\ live' \in {saved, Nothing}
         /\ UNCHANGED <<saved, kept>>

Stop == up /\ up' = FALSE /\ live' = Nothing /\ UNCHANGED <<saved, kept>>

Keep == PowerLoss /\ kept' = saved /\ UNCHANGED <<live, saved, up>>

LosePower == /\ PowerLoss
             /\ saved' \in {saved, kept, Nothing}
             /\ kept' = saved'
             /\ up' = FALSE /\ live' = Nothing

Next == \/ \E k \in Keys, value \in Values : Set(k, value)
        \/ Checkpoint
        \/ Start
        \/ Stop
        \/ Keep
        \/ LosePower

Spec == Init /\ [][Next]_vars
==============================================================================
