------------------------- MODULE RebalanceSweepProofs -------------------------
(***************************************************************************)
(* Two sweeps restore every basket of mock children, whatever its size,    *)
(* its weights, what its children hold at the start, and the order in      *)
(* which the keeper visits them.                                           *)
(***************************************************************************)
EXTENDS RebalanceSweep, AllocatorProofs

\* The keeper visits weighted children only, so a child without a weight must
\* have been taken out of the basket, or drained, before.
AllWeighted == \A b \in InitialBaskets : \A c \in DOMAIN b.slots : b.slots[c].weight > 0

NoneAbove == \A c \in Registered : ChildValue(c) <= Target(c)

\* What a sweep has achieved, for the children it has visited and for all.
Progress ==
    /\ \A c \in visited : ChildValue(c) <= Target(c)
    /\ sweeps >= 1 => NoneAbove
    /\ sweeps >= 1 => \A c \in visited : OnTarget(c)
    /\ sweeps >= 2 => Restored

Basket ==
    /\ Typed /\ WeightsWithin /\ wedged = {}
    /\ \A c \in Registered : slots[c].weight > 0

SweepInv ==
    /\ Basket
    /\ sweeps \in Nat
    /\ visited \subseteq Registered
    /\ Progress

-------------------------------------------------------------------------------
(* One call *)

(* With no child above its target, the buffer pays for every deficit.      *)
LEMMA BufferCoversAll ==
    ASSUME Typed, WeightsWithin, NoneAbove, NEW c \in Registered
    PROVE  Deficit[c] <= Native
<1>1. IsFiniteSet(Registered) /\ Registered \subseteq Leaves /\ Native \in Nat
  BY ChildrenType, AllocatorValueType DEF Typed
<1>2. \A d \in Registered : Excess[d] = 0 /\ Deficit[d] \in Nat
  <2> TAKE d \in Registered
  <2>1. ChildValue(d) \in Nat /\ Target(d) \in Nat /\ ChildValue(d) <= Target(d)
    BY <1>1, ChildValueType, TargetType DEF NoneAbove
  <2> QED BY <2>1 DEF Excess, Deficit
<1>3. Total(Excess, Registered) = 0
  BY <1>2, TotalZero
<1>4. Deficit[c] <= Total(Deficit, Registered) /\ Total(Deficit, Registered) \in Nat
  BY <1>1, <1>2, TotalCovers, TotalType
<1>5. Total(Deficit, Registered) <= Native + 0
  BY <1>3, DeficitsCovered
<1> QED BY <1>1, <1>2, <1>4, <1>5

(* rebalance_step moves what the child has too much into the buffer, or    *)
(* as much of what it lacks as there is out of it.                         *)
LEMMA StepMoves ==
    ASSUME Basket, Children \subseteq MockStrategies, NEW c \in Registered, RebalanceStep(c)
    PROVE  /\ \A d \in Registered \ {c} : position'[d] = position[d]
           /\ \/ Excess[c] > 0 /\ position'[c] = position[c] - Excess[c]
              \/ /\ Deficit[c] > 0
                 /\ position'[c] = position[c] + (IF Deficit[c] > Native THEN Native ELSE Deficit[c])
<1>1. /\ Registered \subseteq Leaves /\ Registered \subseteq MockStrategies
      /\ Excess[c] \in Nat /\ Deficit[c] \in Nat /\ Native \in Nat
      /\ StrategiesTypeOK /\ position \in [Leaves -> Nat]
  BY ChildrenType, ImbalanceType, AllocatorValueType DEF Basket, Typed, StrategiesTypeOK
<1>2. ASSUME NEW x, NEW y, MoveFunds(token, position, x, y),
             DOMAIN x \subseteq {c}, DOMAIN y \subseteq {c}
      PROVE  \A d \in Registered \ {c} : position'[d] = position[d]
  <2> TAKE d \in Registered \ {c}
  <2>1. Amount(x, d) = 0 /\ Amount(y, d) = 0 /\ d \in Leaves
    BY <1>1, <1>2 DEF Amount
  <2> QED BY <1>1, <1>2, <2>1, MoveFundsLeaves
<1>3. CASE \E d \in Deliverable(c, Excess[c]) :
              Excess[c] > 0 /\ MoveFunds(token, position, Only(c, d), Nothing)
  <2>1. Excess[c] > 0 /\ MoveFunds(token, position, Only(c, Excess[c]), Nothing)
    BY <1>1, <1>3 DEF Deliverable
  <2>2. position'[c] = position[c] - Excess[c]
    <3>1. Amount(Only(c, Excess[c]), c) = Excess[c] /\ Amount(Nothing, c) = 0
      BY DEF Amount, Only, Nothing
    <3>2. Debit(c, Excess[c]) = Excess[c] /\ Credit(c, 0) = 0 /\ position[c] \in Nat
      BY <1>1 DEF Debit, Credit
    <3> QED BY <1>1, <2>1, <3>1, <3>2 DEF MoveFunds, PositionsMoved
  <2>3. \A d \in Registered \ {c} : position'[d] = position[d]
    BY <1>2, <2>1 DEF Only, Nothing
  <2> QED BY <2>1, <2>2, <2>3
<1>4. ASSUME NEW n \in Nat \ {0}, n = (IF Deficit[c] > Native THEN Native ELSE Deficit[c]),
             MoveFunds(token, position, Nothing, Only(c, n))
      PROVE  /\ \A d \in Registered \ {c} : position'[d] = position[d]
             /\ Deficit[c] > 0 /\ position'[c] = position[c] + n
  <2>1. position'[c] = position[c] + n
    <3>1. Amount(Only(c, n), c) = n /\ Amount(Nothing, c) = 0
      BY DEF Amount, Only, Nothing
    <3>2. Credit(c, n) = n /\ position[c] \in Nat
      BY <1>1 DEF Credit
    <3> QED BY <1>1, <1>4, <3>1, <3>2 DEF MoveFunds, PositionsMoved
  <2>2. \A d \in Registered \ {c} : position'[d] = position[d]
    BY <1>2, <1>4 DEF Only, Nothing
  <2>3. Deficit[c] > 0
    BY <1>1, <1>4
  <2> QED BY <2>1, <2>2, <2>3
<1>5. \/ \E d \in Deliverable(c, Excess[c]) :
            Excess[c] > 0 /\ MoveFunds(token, position, Only(c, d), Nothing)
      \/ \E n \in Nat \ {0} : /\ n = (IF Deficit[c] > Native THEN Native ELSE Deficit[c])
                              /\ MoveFunds(token, position, Nothing, Only(c, n))
  BY <1>1 DEF RebalanceStep
<1> QED BY <1>3, <1>4, <1>5

(* A visit leaves the targets and the other children as they are, takes    *)
(* the child to its target or below, and on its target when none is above. *)
LEMMA VisitEffect ==
    ASSUME SweepInv, Children \subseteq MockStrategies, NEW c \in Children, Visit(c)
    PROVE  /\ UNCHANGED allocatorVars /\ Typed'
           /\ \A d \in Registered : Target(d)' = Target(d)
           /\ \A d \in Registered \ {c} : ChildValue(d)' = ChildValue(d)
           /\ ChildValue(c)' <= Target(c)
           /\ NoneAbove => ChildValue(c)' = Target(c)
<1>1. /\ Registered \subseteq MockStrategies /\ Registered \subseteq Leaves /\ c \in Registered
      /\ wedged = {} /\ Typed /\ WeightsWithin
  <2>1. c \in Registered
    BY DEF Visit, Weighted
  <2>2. wedged = {} /\ Typed /\ WeightsWithin
    BY DEF SweepInv, Basket
  <2> QED BY <2>1, <2>2, ChildrenType DEF Typed
<1>2. /\ ChildValue(c) \in Nat /\ Target(c) \in Nat /\ Native \in Nat
      /\ Excess[c] = (IF ChildValue(c) > Target(c) THEN ChildValue(c) - Target(c) ELSE 0)
      /\ Deficit[c] = (IF Target(c) > ChildValue(c) THEN Target(c) - ChildValue(c) ELSE 0)
  BY <1>1, ChildValueType, TargetType, AllocatorValueType DEF Excess, Deficit
<1>3. NoneAbove => Deficit[c] <= Native
  BY <1>1, BufferCoversAll
<1>4. CASE RebalanceStep(c)
  <2>1. UNCHANGED allocatorVars /\ Typed'
    BY <1>1, <1>4, KeeperMovesType DEF RebalanceStep
  <2>2. AllocatorValue' = AllocatorValue
    BY <1>1, <1>4, MovesKeepValue
  <2>3. wedged' = {} /\ slots' = slots
    BY <1>1, <2>1 DEF allocatorVars
  <2>4. \A d \in Registered : Target(d)' = Target(d)
    BY <2>2, <2>3 DEF Target
  <2>5. \A d \in Registered : ChildValue(d) = position[d] /\ ChildValue(d)' = position'[d]
    BY <1>1, <2>3 DEF ChildValue, Value
  <2>6. /\ \A d \in Registered \ {c} : position'[d] = position[d]
        /\ \/ Excess[c] > 0 /\ position'[c] = position[c] - Excess[c]
           \/ /\ Deficit[c] > 0
              /\ position'[c] = position[c] + (IF Deficit[c] > Native THEN Native ELSE Deficit[c])
    BY <1>1, <1>4, StepMoves DEF SweepInv
  <2>7. position'[c] <= Target(c) /\ (NoneAbove => position'[c] = Target(c))
    <3>1. position[c] = ChildValue(c)
      BY <1>1, <2>5
    <3>2. NoneAbove => ~(ChildValue(c) > Target(c))
      BY <1>1, <1>2 DEF NoneAbove
    <3> QED BY <1>2, <1>3, <2>6, <3>1, <3>2
  <2> QED BY <1>1, <2>1, <2>4, <2>5, <2>6, <2>7
<1>5. CASE /\ Excess[c] = 0 /\ (Deficit[c] = 0 \/ Native = 0)
           /\ UNCHANGED <<strategyVars, allocatorVars>>
  <2>1. UNCHANGED allocatorVars /\ Typed'
    BY <1>1, <1>5 DEF Typed, StrategiesTypeOK, AllocatorTypeOK, strategyVars, allocatorVars
  <2>2. slots' = slots /\ UNCHANGED <<strategyVars, wedged>>
    BY <1>5 DEF allocatorVars
  <2>3. \A d \in Registered : ChildValue(d)' = ChildValue(d)
    BY <2>2, SameChild
  <2>4. Registered' = Registered /\ Native' = Native
    BY <2>2 DEF Registered, Native, strategyVars
  <2>5. AllocatorValue' = AllocatorValue
    BY <2>3, <2>4, SameValue
  <2>6. \A d \in Registered : Target(d)' = Target(d)
    BY <2>2, <2>5 DEF Target
  <2>7. ChildValue(c) <= Target(c) /\ (NoneAbove => ChildValue(c) = Target(c))
    BY <1>2, <1>3, <1>5
  <2> QED BY <1>1, <2>1, <2>3, <2>6, <2>7
<1> QED BY <1>4, <1>5 DEF Visit

-------------------------------------------------------------------------------
(* Sweeps *)

LEMMA SweepStarts == ASSUME AllWeighted, Init PROVE SweepInv
<1>1. AllocatorInit /\ sweeps = 0 /\ visited = {}
  BY DEF Init
<1>2. StrategiesTypeOK
  <2>1. PICK held \in [Children \union {Allocator} -> 0 .. MaxHeld] :
           /\ token = [h \in Holders |-> IF h \in DOMAIN held THEN held[h] ELSE 0]
           /\ position = [s \in Leaves |-> IF s \in Children THEN held[s] ELSE 0]
    BY DEF Init
  <2>2. token \in [Holders -> Nat] /\ position \in [Leaves -> Nat]
    BY <2>1, SweepBounds
  <2>3. bRate \in SCALAR_12 .. MaxRate
    BY RateBounds DEF Init
  <2> QED BY <2>2, <2>3 DEF StrategiesTypeOK
<1>3. Typed
  BY <1>1, <1>2, AllocatorInitType DEF Typed
<1>4. WeightsWithin
  BY <1>1, InitWeights, AllocatorConstants DEF WeightsWithin
<1>5. wedged = {} /\ \A c \in Registered : slots[c].weight > 0
  BY <1>1 DEF AllocatorInit, AllWeighted, Registered
<1> QED BY <1>1, <1>3, <1>4, <1>5 DEF SweepInv, Basket, Progress

(* A restored basket stays restored, whichever child is visited next.      *)
LEMMA VisitKeepsRestored ==
    ASSUME Children \subseteq MockStrategies, SweepInv, Restored, NEW c \in Children, Visit(c)
    PROVE  Restored'
<1>1. NoneAbove
  <2>1. \A d \in Registered : ChildValue(d) \in Nat
    BY ChildrenType, ChildValueType DEF SweepInv, Basket, Typed
  <2> QED BY <2>1 DEF Restored, NoneAbove, OnTarget
<1>2. /\ \A d \in Registered : Target(d)' = Target(d)
      /\ \A d \in Registered \ {c} : ChildValue(d)' = ChildValue(d)
      /\ ChildValue(c)' = Target(c)
      /\ Registered' = Registered /\ c \in Registered
  BY <1>1, VisitEffect DEF Visit, Weighted, allocatorVars, Registered
<1> QED BY <1>2 DEF Restored, OnTarget

LEMMA SweepStep ==
    ASSUME Children \subseteq MockStrategies, SweepInv, [Next]_sweepVars
    PROVE  SweepInv'
<1>1. CASE UNCHANGED sweepVars
  <2>1. UNCHANGED <<token, position, bRate, slots, nativeBps, paused, wedged, visited, sweeps>>
    BY <1>1 DEF sweepVars, strategyVars, allocatorVars
  <2>2. Typed' /\ Registered' = Registered /\ Native' = Native
    BY <2>1 DEF SweepInv, Basket, Typed, StrategiesTypeOK, AllocatorTypeOK, Registered, Native
  <2>3. \A c \in Registered : ChildValue(c)' = ChildValue(c)
    BY <2>1, SameChild DEF strategyVars
  <2>4. AllocatorValue' = AllocatorValue
    BY <2>2, <2>3, SameValue
  <2>5. \A c \in Registered : Target(c)' = Target(c)
    BY <2>1, <2>4 DEF Target
  <2>6. WeightsWithin'
    BY <2>1, <2>2 DEF SweepInv, Basket, WeightsWithin, WeightsTotal, Weights
  <2>7. Progress'
    BY <2>1, <2>2, <2>3, <2>5 DEF SweepInv, Progress, NoneAbove, OnTarget, Restored
  <2> QED BY <2>1, <2>2, <2>6, <2>7 DEF SweepInv, Basket
<1>2. ASSUME NEW c \in Children, Visit(c) PROVE SweepInv'
  <2>1. /\ UNCHANGED allocatorVars /\ Typed'
        /\ \A d \in Registered : Target(d)' = Target(d)
        /\ \A d \in Registered \ {c} : ChildValue(d)' = ChildValue(d)
        /\ ChildValue(c)' <= Target(c)
        /\ NoneAbove => ChildValue(c)' = Target(c)
    BY <1>2, VisitEffect
  <2>2. UNCHANGED <<slots, nativeBps, wedged>> /\ Registered' = Registered
    BY <2>1 DEF allocatorVars, Registered
  <2>3. Weighted = Registered /\ c \in Registered
    BY <1>2 DEF SweepInv, Basket, Weighted, Visit
  <2>4. Basket'
    BY <2>1, <2>2 DEF SweepInv, Basket, WeightsWithin, WeightsTotal, Weights
  <2>5. \A d \in visited \union {c} : ChildValue(d)' <= Target(d)'
    BY <2>1, <2>3 DEF SweepInv, Progress
  <2>6. NoneAbove => NoneAbove'
    BY <2>1, <2>2, <2>3 DEF NoneAbove
  <2>7. sweeps >= 1 => \A d \in visited \union {c} : OnTarget(d)'
    BY <2>1, <2>3 DEF SweepInv, Progress, OnTarget
  <2>8. Restored => Restored'
    BY <1>2, VisitKeepsRestored
  <2>9. CASE visited \union {c} = Registered /\ visited' = {} /\ sweeps' = sweeps + 1
    <3>1. sweeps \in Nat /\ sweeps' \in Nat
      BY <2>9 DEF SweepInv
    <3>2. NoneAbove'
      BY <2>2, <2>5, <2>9 DEF NoneAbove
    <3>3. sweeps >= 1 => Restored'
      BY <2>2, <2>7, <2>9 DEF Restored
    <3>4. Progress'
      BY <2>9, <3>1, <3>2, <3>3 DEF Progress
    <3> QED BY <2>4, <2>9, <3>1, <3>4 DEF SweepInv
  <2>10. CASE visited' = visited \union {c} /\ sweeps' = sweeps
    <3>1. Progress'
      BY <2>5, <2>6, <2>7, <2>8, <2>10 DEF Progress, SweepInv
    <3> QED BY <2>2, <2>3, <2>4, <2>10, <3>1 DEF SweepInv
  <2> QED BY <1>2, <2>3, <2>9, <2>10 DEF Visit
<1> QED BY <1>1, <1>2 DEF Next

(* After two sweeps of rebalance_step every child is on its target: the    *)
(* first drains every child that is above, so that the buffer pays for all *)
(* deficits of the second.  The children are mocks, which deliver and book *)
(* exactly what is asked; every child of the basket has a weight, since    *)
(* the keeper's sweep passes the others by.                                *)
THEOREM SecondSweepRestores ==
    ASSUME Children \subseteq MockStrategies, AllWeighted
    PROVE  Spec => []TwoSweepsRestore
<1>1. Init => SweepInv
  BY SweepStarts
<1>2. SweepInv /\ [Next]_sweepVars => SweepInv'
  BY SweepStep
<1>3. SweepInv => TwoSweepsRestore
  BY DEF SweepInv, Progress, TwoSweepsRestore
<1> QED BY <1>1, <1>2, <1>3, PTL DEF Spec

(* The loop converges if it is carried on at all: a keeper that completes  *)
(* two sweeps has the basket restored from then on, since no visit         *)
(* disturbs it.                                                            *)
THEOREM SweepingOnConverges ==
    ASSUME Children \subseteq MockStrategies, AllWeighted
    PROVE  Spec => (<>(sweeps >= 2) => SweepingConverges)
<1>1. Init => SweepInv
  BY SweepStarts
<1>2. SweepInv /\ [Next]_sweepVars => SweepInv'
  BY SweepStep
<1>3. SweepInv /\ sweeps >= 2 => Restored
  BY DEF SweepInv, Progress
<1>4. SweepInv /\ Restored /\ [Next]_sweepVars => Restored'
  <2>1. SweepInv /\ Restored /\ Next => Restored'
    BY VisitKeepsRestored DEF Next
  <2>2. SweepInv /\ Restored /\ UNCHANGED sweepVars => Restored'
    <3> SUFFICES ASSUME SweepInv, Restored, UNCHANGED sweepVars PROVE Restored'
      OBVIOUS
    <3>1. UNCHANGED <<token, position, bRate, slots, nativeBps, paused, wedged>>
      BY DEF sweepVars, strategyVars, allocatorVars
    <3>2. /\ Registered' = Registered /\ Native' = Native
          /\ \A c \in Registered : ChildValue(c)' = ChildValue(c)
      BY <3>1, SameChild DEF Registered, Native, strategyVars
    <3>3. \A c \in Registered : Target(c)' = Target(c)
      BY <3>1, <3>2, SameValue DEF Target
    <3> QED BY <3>2, <3>3 DEF Restored, OnTarget
  <2> QED BY <2>1, <2>2
<1> QED BY <1>1, <1>2, <1>3, <1>4, PTL DEF Spec, SweepingConverges
=============================================================================
