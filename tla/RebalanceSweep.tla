---------------------------- MODULE RebalanceSweep ----------------------------
(***************************************************************************)
(* The keeper's way to restore a basket whose one-shot rebalance does not  *)
(* fit a transaction: rebalance_step for every weighted child, one         *)
(* transaction each, in an order of its choice.                            *)
(***************************************************************************)
EXTENDS Allocator

CONSTANTS
    MaxHeld,      \* bound on what a child or the buffer holds at the start
    MaxSweeps     \* bound on the number of sweeps

VARIABLES
    visited,      \* the children the current sweep has stepped
    sweeps        \* completed sweeps

sweepVars == <<strategyVars, allocatorVars, visited, sweeps>>

ASSUME SweepBounds == MaxHeld \in Nat /\ MaxSweeps \in Nat

Weighted == {c \in Registered : slots[c].weight > 0}
OnTarget(c) == ChildValue(c) = Target(c)

\* Where redemptions, deposits, yield and new weights may have left the basket.
Init ==
    /\ AllocatorInit
    /\ \E held \in [Children \union {Allocator} -> 0 .. MaxHeld] :
          /\ token = [h \in Holders |-> IF h \in DOMAIN held THEN held[h] ELSE 0]
          /\ position = [s \in Leaves |-> IF s \in Children THEN held[s] ELSE 0]
    /\ bRate = SCALAR_12
    /\ visited = {}
    /\ sweeps = 0

\* One call of the sweep.  A child with no excess, whose deficit is nil or
\* finds the buffer empty, is left as it is.
Visit(c) ==
    /\ sweeps < MaxSweeps
    /\ c \in Weighted \ visited
    /\ \/ RebalanceStep(c)
       \/ /\ Excess[c] = 0 /\ (Deficit[c] = 0 \/ Native = 0)
          /\ UNCHANGED <<strategyVars, allocatorVars>>
    /\ IF visited \union {c} = Weighted
       THEN visited' = {} /\ sweeps' = sweeps + 1
       ELSE visited' = visited \union {c} /\ UNCHANGED sweeps

Next == \E c \in Children : Visit(c)

Spec == Init /\ [][Next]_sweepVars /\ WF_sweepVars(Next)

Restored == \A c \in Registered : OnTarget(c)

(* The second sweep completes the restore, whatever the order: the first   *)
(* one has drained every overweight child, so the buffer now covers every  *)
(* deficit left.  One sweep is not enough when a child in deficit comes    *)
(* before the one that would pay for it.                                   *)
TwoSweepsRestore == (sweeps >= 2) => Restored

(* A restored basket is never disturbed by sweeping on, and sweeping gets  *)
(* there: the keeper's loop converges.                                     *)
SweepingConverges == <>[]Restored
=============================================================================
