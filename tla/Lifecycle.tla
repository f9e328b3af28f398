------------------------------ MODULE Lifecycle ------------------------------
(***************************************************************************)
(* What a lane promises about operations, without how they are driven: at  *)
(* most one is open, it may be cancelled once, and it settles exactly once *)
(* with a permanent result, which is "aborted" exactly when it had been    *)
(* cancelled.                                                              *)
(***************************************************************************)
EXTENDS Naturals

VARIABLES
    current,    \* the id of the open operation, 0 when the lane is idle
    cancelled,  \* the open operation was cancelled
    settled     \* set of [op, status]

lifecycleVars == <<current, cancelled, settled>>

LifecycleInit == current = 0 /\ cancelled = FALSE /\ settled = {}

Accept ==
    /\ current = 0
    /\ current' \in Nat \ {0}
    /\ \A r \in settled : r.op # current'
    /\ UNCHANGED <<cancelled, settled>>

Cancel ==
    /\ current # 0 /\ ~cancelled
    /\ cancelled' = TRUE
    /\ UNCHANGED <<current, settled>>

Settle(status) ==
    /\ current # 0
    /\ status = "aborted" <=> cancelled
    /\ settled' = settled \cup {[op |-> current, status |-> status]}
    /\ current' = 0 /\ cancelled' = FALSE

LifecycleNext ==
    \/ Accept \/ Cancel
    \/ \E status \in {"completed", "failed", "declined", "aborted"} : Settle(status)

LifecycleSpec == LifecycleInit /\ [][LifecycleNext]_lifecycleVars
=============================================================================
