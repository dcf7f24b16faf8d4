----------------------------- MODULE UpdateQueue -----------------------------
(***************************************************************************)
(* What AsyncBatch promises to the thread that owns it: the updates handed *)
(* to add_edge and remove_edge are applied to the library once, in the     *)
(* order they were handed over, and all of them before the destructor      *)
(* returns ("It implicitly flushes any pending updates and stops the       *)
(* service", experiment/details/async_batch.hpp).                          *)
(***************************************************************************)
EXTENDS Integers, Sequences

CONSTANT Updates

VARIABLES
    accepted,   \* the updates handed over, in order
    applied,    \* the updates applied to the library, in order
    closed      \* whether the object has been destroyed

QueueInit == accepted = <<>> /\ applied = <<>> /\ closed = FALSE

Accept(u) ==
    /\ ~ closed
    /\ accepted' = Append(accepted, u)
    /\ UNCHANGED <<applied, closed>>

Apply ==
    /\ ~ closed /\ Len(applied) < Len(accepted)
    /\ applied' = Append(applied, accepted[Len(applied) + 1])
    /\ UNCHANGED <<accepted, closed>>

Close ==
    /\ ~ closed /\ Len(applied) = Len(accepted)
    /\ closed' = TRUE
    /\ UNCHANGED <<accepted, applied>>

QueueNext == (\E u \in Updates : Accept(u)) \/ Apply \/ Close

QueueSpec == QueueInit /\ [][QueueNext]_<<accepted, applied, closed>>
=============================================================================
