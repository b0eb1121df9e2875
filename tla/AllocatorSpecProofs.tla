-------------------------- MODULE AllocatorSpecProofs --------------------------
(***************************************************************************)
(* What the allocator promises on its own, for every number of children    *)
(* and every basket: its rebalances are paid for, its weights are within   *)
(* the whole, and it abandons no funds.                                    *)
(***************************************************************************)
EXTENDS AllocatorSpec, AllocatorProofs

-------------------------------------------------------------------------------
(* Types *)

LEMMA InitTypes == Init => TypeOK
<1> SUFFICES ASSUME Init PROVE TypeOK
  OBVIOUS
<1>1. token \in [Holders -> Nat] /\ position \in [Leaves -> Nat]
  BY AllocatorAlone DEF Init
<1>2. bRate \in SCALAR_12 .. MaxRate
  BY RateBounds DEF Init
<1> QED BY <1>1, <1>2, AllocatorInitType DEF Init, TypeOK, StrategiesTypeOK

(* What the vault deposits it has, and the buffer has what it withdraws.   *)
LEMMA VaultCallsTyped ==
    ASSUME TypeOK, NEW n \in Amounts, VaultDeposits(n) \/ VaultWithdraws(n)
    PROVE  TypeOK'
<1>1. n \in Nat /\ Vault \in Holders /\ Allocator \in Holders
  BY AllocatorAlone DEF Holders
<1>2. Typed /\ token \in [Holders -> Nat] /\ position \in [Leaves -> Nat] /\ bRate \in SCALAR_12 .. MaxRate
  BY DEF TypeOK, Typed, StrategiesTypeOK
<1>3. AllocatorTypeOK'
  BY DEF TypeOK, AllocatorTypeOK, VaultDeposits, VaultWithdraws, allocatorVars
<1>4. CASE VaultDeposits(n)
  <2> DEFINE tok == Transfer(token, Vault, Allocator, n)
  <2>1. tok \in [Holders -> Nat]
    BY <1>1, <1>2, <1>4, TransferType DEF VaultDeposits
  <2>2. AllocatorDeposit(tok, position, n)
    BY <1>4 DEF VaultDeposits
  <2> HIDE DEF tok
  <2>3. StrategiesTypeOK'
    BY <1>1, <1>2, <2>1, <2>2, AllocatorDepositType
  <2> QED BY <1>3, <2>3 DEF TypeOK
<1>5. CASE VaultWithdraws(n)
  <2>1. n <= token[Allocator] /\ token' = Transfer(token, Allocator, Vault, n)
    BY <1>5 DEF VaultWithdraws, AllocatorDeliverable, Native
  <2>2. token' \in [Holders -> Nat]
    BY <1>1, <1>2, <2>1, TransferType
  <2>3. position' = position /\ bRate' = bRate
    BY <1>5 DEF VaultWithdraws
  <2> QED BY <1>2, <1>3, <2>2, <2>3 DEF TypeOK, StrategiesTypeOK
<1> QED BY <1>4, <1>5

LEMMA YieldTyped == ASSUME TypeOK, Yield PROVE TypeOK'
<1>1. token \in [Holders -> Nat] /\ position \in [Leaves -> Nat] /\ bRate \in SCALAR_12 .. MaxRate
  BY DEF TypeOK, StrategiesTypeOK
<1>2. AllocatorTypeOK'
  BY DEF TypeOK, AllocatorTypeOK, Yield, allocatorVars
<1>3. ASSUME NEW s \in MockStrategies, NEW n \in YieldAmounts, InjectYield(s, n) PROVE StrategiesTypeOK'
  <2>1. n \in Nat /\ s \in Leaves
    BY AllocatorAlone DEF Leaves
  <2> QED BY <1>1, <1>3, <2>1 DEF InjectYield, StrategiesTypeOK
<1>4. ASSUME NEW s \in MockStrategies, Mint(s, position[s] - token[s]) PROVE StrategiesTypeOK'
  <2> DEFINE n == position[s] - token[s]
  <2>1. s \in Leaves /\ s \in Holders
    BY DEF Leaves, Holders
  <2>2. n \in Nat
    BY <1>1, <1>4, <2>1 DEF Mint
  <2>3. token' = [token EXCEPT ![s] = @ + n] /\ UNCHANGED <<position, bRate>>
    BY <1>4 DEF Mint
  <2> HIDE DEF n
  <2> QED BY <1>1, <2>1, <2>2, <2>3 DEF StrategiesTypeOK
<1>5. ASSUME AccrueInterest PROVE StrategiesTypeOK'
  BY <1>1, <1>5, RateBounds DEF AccrueInterest, StrategiesTypeOK
<1> QED BY <1>2, <1>3, <1>4, <1>5 DEF Yield, TypeOK

LEMMA TypesStep == TypeOK /\ [Next]_vars => TypeOK'
<1> SUFFICES ASSUME TypeOK, [Next]_vars PROVE TypeOK'
  OBVIOUS
<1>1. CASE UNCHANGED vars
  BY <1>1 DEF vars, strategyVars, allocatorVars, TypeOK, StrategiesTypeOK, AllocatorTypeOK
<1>2. CASE AdminStep \/ ChildTrouble
  <2>1. Typed
    BY DEF TypeOK, Typed
  <2>2. Typed'
    BY <1>2, <2>1, AdminStepType, BasketOperationsType
  <2> QED BY <2>2 DEF TypeOK, Typed
<1> QED BY <1>1, <1>2, VaultCallsTyped, YieldTyped DEF Next

(* The allocator's ledgers hold natural amounts, and its basket registers  *)
(* children with weights, whatever the keeper, the vault and the children  *)
(* do.                                                                     *)
THEOREM AllocatorTypes == Spec => []TypeOK
<1> QED BY InitTypes, TypesStep, PTL DEF Spec

-------------------------------------------------------------------------------
(* Weights *)

(* No order names a child twice.                                           *)
NamesOnce(o) ==
    \A i, j \in DOMAIN o.entries : o.entries[i].child = o.entries[j].child => i = j

(* The entries of an order that is overwritten by a later one count in its *)
(* sum but not in the basket; if no child is named twice none is.          *)
LEMMA LastWeightsTotal ==
    ASSUME NEW o \in WeightOrders, NEW R, IsFiniteSet(R),
           \A i \in DOMAIN o.entries : o.entries[i].child \in R
    PROVE  LET new == [c \in R |-> LastWeight(o, c)] IN
           /\ Total(new, R) <= Total(EntryWeights(o), DOMAIN o.entries)
           /\ NamesOnce(o) => Total(new, R) = Total(EntryWeights(o), DOMAIN o.entries)
           /\ Total(new, R) \in Nat /\ Total(EntryWeights(o), DOMAIN o.entries) \in Nat
<1> DEFINE new == [c \in R |-> LastWeight(o, c)]
           D == DOMAIN o.entries
           ew == EntryWeights(o)
           At(c, i) == i \in D /\ o.entries[i].child = c /\ LastWeight(o, c) = o.entries[i].weight
           last == [c \in R |-> CHOOSE i : At(c, i)]
           named == [i \in D |-> o.entries[i].child]
<1>1. IsFiniteSet(D) /\ \A i \in D : o.entries[i].weight \in Nat
  BY EntriesType, AllocatorConstants
<1>2. \A i \in D : ew[i] = o.entries[i].weight /\ ew[i] \in Nat
  BY <1>1 DEF EntryWeights
<1>3. ASSUME NEW c \in R
      PROVE  /\ new[c] \in Nat
             /\ new[c] > 0 => At(c, last[c])
  <2>1. CASE LastWeight(o, c) = 0
    BY <2>1
  <2>2. CASE \E i \in D : At(c, i)
    <3>1. At(c, last[c])
      BY <2>2
    <3> QED BY <1>1, <3>1
  <2> QED BY <2>1, <2>2, LastEntry
<1>4. Total(new, R) <= Total(ew, D)
  <2>1. \A c \in R : new[c] > 0 => last[c] \in D /\ new[c] <= ew[last[c]]
    BY <1>1, <1>2, <1>3
  <2>2. \A c, d \in R : new[c] > 0 /\ new[d] > 0 /\ last[c] = last[d] => c = d
    <3> TAKE c, d \in R
    <3> HAVE new[c] > 0 /\ new[d] > 0 /\ last[c] = last[d]
    <3>1. At(c, last[c]) /\ At(d, last[d])
      BY <1>3
    <3> QED BY <3>1
  <2>3. \A c \in R : new[c] \in Nat
    BY <1>3
  <2> HIDE DEF new, last, ew, D
  <2> QED BY <1>1, <1>2, <2>1, <2>2, <2>3, TotalInjected
<1>5. ASSUME NamesOnce(o) PROVE Total(ew, D) <= Total(new, R)
  <2>1. \A i \in D : ew[i] > 0 => named[i] \in R /\ ew[i] <= new[named[i]]
    <3> TAKE i \in D
    <3>1. named[i] \in R /\ new[named[i]] = LastWeight(o, o.entries[i].child)
      OBVIOUS
    <3>2. PICK j \in D : o.entries[j].child = o.entries[i].child
                         /\ LastWeight(o, o.entries[i].child) = o.entries[j].weight
      BY LastEntry
    <3>3. j = i
      BY <1>5, <3>2 DEF NamesOnce
    <3> QED BY <1>1, <1>2, <3>1, <3>2, <3>3
  <2>2. \A i, j \in D : ew[i] > 0 /\ ew[j] > 0 /\ named[i] = named[j] => i = j
    BY <1>5 DEF NamesOnce
  <2>3. \A c \in R : new[c] \in Nat
    BY <1>3
  <2> HIDE DEF new, named, ew, D
  <2> QED BY <1>2, <2>1, <2>2, <2>3, TotalInjected
<1>6. Total(new, R) \in Nat /\ Total(ew, D) \in Nat
  <2>1. \A c \in R : new[c] \in Nat
    BY <1>3
  <2> HIDE DEF new, ew, D
  <2> QED BY <1>1, <1>2, <2>1, TotalType
<1> QED BY <1>4, <1>5, <1>6

(* How the total of the weights goes on.                                   *)
LEMMA WeightsStep ==
    ASSUME TypeOK, [Next]_vars
    PROVE  \/ WeightsTotal' = WeightsTotal
           \/ \E o \in WeightOrders :
                 /\ SetTargetWeights(o)
                 /\ WeightsTotal' \in Nat /\ WeightsTotal' <= BPS_DENOM
                 /\ NamesOnce(o) => WeightsTotal' = BPS_DENOM
<1>0. Typed
  BY DEF TypeOK, Typed
<1>1. ASSUME UNCHANGED <<slots, nativeBps>> PROVE WeightsTotal' = WeightsTotal
  BY <1>1 DEF WeightsTotal, Weights, Registered
<1>2. ASSUME NEW c \in Children, NEW a \in Authorities, AddChild(c, a)
      PROVE  WeightsTotal' = WeightsTotal
  <2>1. c \notin Registered /\ Registered' = Registered \union {c} /\ nativeBps' = nativeBps
    BY <1>2 DEF AddChild, Registered
  <2>2. (\A d \in Registered : Weights'[d] = Weights[d]) /\ Weights'[c] = 0
    BY <1>2, <2>1 DEF AddChild, Weights, Registered
  <2>3. Total(Weights', Registered \union {c}) = Total(Weights, Registered) + Weights'[c]
    <3>1. IsFiniteSet(Registered) /\ \A d \in Registered : Weights[d] \in Nat
      BY <1>0, WeightsType
    <3>2. Weights'[c] \in Nat
      BY <2>2
    <3> QED BY <2>1, <2>2, <3>1, <3>2, TotalAdd
  <2>4. WeightsTotal' = nativeBps' + Total(Weights', Registered')
    BY DEF WeightsTotal
  <2> QED BY <2>1, <2>2, <2>3, <2>4, <1>0, WeightsType DEF WeightsTotal
<1>3. ASSUME NEW c \in Registered, slots[c].weight = 0, Evict(c)
      PROVE  WeightsTotal' = WeightsTotal
  <2>1. Registered' = Registered \ {c} /\ nativeBps' = nativeBps
    BY <1>3 DEF Evict, Registered
  <2>2. \A d \in Registered \ {c} : Weights'[d] = Weights[d]
    BY <1>3, <2>1 DEF Evict, Weights, Registered
  <2>3. Total(Weights', Registered \ {c}) = Total(Weights, Registered \ {c})
    BY <2>2, TotalSame
  <2>4. Total(Weights, Registered) = Total(Weights, Registered \ {c}) + Weights[c]
        /\ Total(Weights, Registered \ {c}) \in Nat
    BY <1>3, <1>0, WeightsType, TotalSplit
  <2>5. WeightsTotal' = nativeBps' + Total(Weights', Registered')
    BY DEF WeightsTotal
  <2> QED BY <1>3, <2>1, <2>3, <2>4, <2>5, <1>0, WeightsType DEF WeightsTotal
<1>4. ASSUME NEW o \in WeightOrders, SetTargetWeights(o)
      PROVE  /\ WeightsTotal' \in Nat /\ WeightsTotal' <= BPS_DENOM
             /\ NamesOnce(o) => WeightsTotal' = BPS_DENOM
  <2> DEFINE new == [c \in Registered |-> LastWeight(o, c)]
             E == Total(EntryWeights(o), DOMAIN o.entries)
  <2>1. Registered' = Registered /\ nativeBps' = o.nativeBps /\ o.nativeBps + E = BPS_DENOM
    BY <1>4 DEF SetTargetWeights, Registered
  <2>2. Weights' = new
    <3>1. slots \in [Registered -> Slot]
      BY ChildrenType DEF TypeOK
    <3>2. ASSUME NEW c \in Registered PROVE slots'[c].weight = LastWeight(o, c)
      BY <1>4, <3>1 DEF SetTargetWeights, Slot
    <3> QED BY <2>1, <3>2 DEF Weights
  <2>3. Total(new, Registered) <= E /\ (NamesOnce(o) => Total(new, Registered) = E)
        /\ Total(new, Registered) \in Nat /\ E \in Nat
    BY <1>4, <1>0, WeightsType, LastWeightsTotal DEF SetTargetWeights
  <2>4. WeightsTotal' = nativeBps' + Total(Weights', Registered')
    BY DEF WeightsTotal
  <2>5. o.nativeBps \in Nat
    BY OrdersWellFormed, AllocatorConstants
  <2> HIDE DEF new, E
  <2> QED BY <2>1, <2>2, <2>3, <2>4, <2>5
<1>5. ASSUME AdminStep PROVE \/ WeightsTotal' = WeightsTotal
                             \/ \E o \in WeightOrders :
                                   /\ SetTargetWeights(o)
                                   /\ WeightsTotal' \in Nat /\ WeightsTotal' <= BPS_DENOM
                                   /\ NamesOnce(o) => WeightsTotal' = BPS_DENOM
  <2>1. \/ UNCHANGED <<slots, nativeBps>>
        \/ \E c \in Children, a \in Authorities : AddChild(c, a)
        \/ \E c \in Registered : slots[c].weight = 0 /\ Evict(c)
        \/ \E o \in WeightOrders : SetTargetWeights(o)
    BY <1>5 DEF AdminStep, RemoveChild, ForceRemoveChild, DrainChild, FundChild, RebalanceStep,
       Rebalance, SetPaused, allocatorVars
  <2> QED BY <1>1, <1>2, <1>3, <1>4, <2>1
<1>6. ASSUME ~AdminStep PROVE UNCHANGED <<slots, nativeBps>>
  BY <1>6 DEF Next, VaultDeposits, VaultWithdraws, Yield, ChildTrouble, Wedge, Recover, vars,
     allocatorVars
<1> QED BY <1>1, <1>5, <1>6

(* The basket and the buffer never target more than there is, also when an *)
(* order names a child twice.                                              *)
LEMMA WeightsAreWithin == Spec => [](TypeOK /\ WeightsWithin)
<1>1. Init => TypeOK /\ WeightsWithin
  <2>1. BPS_DENOM <= BPS_DENOM
    BY AllocatorConstants
  <2> QED BY <2>1, InitTypes, InitWeights DEF Init, WeightsWithin
<1>2. TypeOK /\ WeightsWithin /\ [Next]_vars => (TypeOK /\ WeightsWithin)'
  BY TypesStep, WeightsStep DEF WeightsWithin
<1> QED BY <1>1, <1>2, PTL DEF Spec

(* The weights and the native share make up the whole until an order names *)
(* a child twice: set_target_weights adds up the entries before a later    *)
(* one overwrites an earlier one, which leaves the basket with less.  The  *)
(* next order that names each child once completes it again.               *)
THEOREM BasketsAreComplete == Spec => WeightsComplete
<1>1. Allotted = WeightsTotal
  BY DEF Allotted, WeightsTotal, Weights
<1>2. Allotted' = WeightsTotal'
  BY DEF Allotted, WeightsTotal, Weights
<1>3. Init => Allotted = BPS_DENOM
  BY <1>1, InitWeights DEF Init
<1>4. TypeOK /\ [Next]_vars
        => [Allotted' \in {Allotted, BPS_DENOM} \/ OverwritesItself]_vars
  <2> SUFFICES ASSUME TypeOK, [Next]_vars
               PROVE  Allotted' \in {Allotted, BPS_DENOM} \/ OverwritesItself
    OBVIOUS
  <2>1. CASE WeightsTotal' = WeightsTotal
    BY <1>1, <1>2, <2>1
  <2>2. ASSUME NEW o \in WeightOrders, SetTargetWeights(o),
               WeightsTotal' \in Nat, WeightsTotal' <= BPS_DENOM,
               NamesOnce(o) => WeightsTotal' = BPS_DENOM
        PROVE  Allotted' \in {Allotted, BPS_DENOM} \/ OverwritesItself
    <3>1. CASE WeightsTotal' = BPS_DENOM
      BY <1>2, <3>1
    <3>2. CASE WeightsTotal' # BPS_DENOM
      <4>1. NamesTwice(o)
        BY <2>2, <3>2 DEF NamesOnce, NamesTwice
      <4>2. Allotted' < BPS_DENOM
        BY <1>2, <2>2, <3>2, AllocatorConstants
      <4> QED BY <2>2, <4>1, <4>2 DEF OverwritesItself
    <3> QED BY <3>1, <3>2
  <2> QED BY <2>1, <2>2, WeightsStep
<1> QED BY <1>3, <1>4, AllocatorTypes, PTL DEF Spec, WeightsComplete

-------------------------------------------------------------------------------
(* Rebalancing *)

(* A rebalance never lacks the funds for its second pass, whatever the     *)
(* weights, the yields and the rounding have made of the values.           *)
THEOREM RebalancesAreFunded == Spec => []RebalanceFunded
<1>1. TypeOK /\ WeightsWithin => RebalanceFunded
  BY DeficitsCovered DEF TypeOK, Typed, RebalanceFunded
<1> QED BY <1>1, WeightsAreWithin, PTL

(* A rebalance puts a child on the target it had before the first drain.   *)
LEMMA RebalanceStepHits ==
    ASSUME TypeOK, Rebalance, NEW c \in (Registered \ wedged) \intersect MockStrategies
    PROVE  Value(c)' = Target(c)
<1>1. PICK out \in Deliveries(Excess) : MoveFunds(token, position, out, Deficit)
  BY DEF Rebalance
<1>2. /\ c \in Leaves /\ c \in Registered /\ position[c] \in Nat
      /\ ChildValue(c) = position[c] /\ Value(c)' = position'[c] /\ Target(c) \in Nat
  BY ChildrenType, TargetType
     DEF TypeOK, Typed, StrategiesTypeOK, ChildValue, Value, Leaves
<1>3. DOMAIN out = Registered /\ DOMAIN Excess = Registered /\ DOMAIN Deficit = Registered
  BY DEF Deliveries, Excess, Deficit
<1>4. out[c] = Excess[c]
  <2>1. Excess[c] # 0 => out[c] \in Deliverable(c, Excess[c])
    BY <1>2, <1>3 DEF Deliveries
  <2>2. Excess[c] = 0 => out[c] = 0
    BY <1>2, <1>3 DEF Deliveries
  <2>3. Excess[c] # 0 => out[c] = Excess[c]
    BY <2>1 DEF Deliverable
  <2> QED BY <2>2, <2>3
<1>5. position'[c] = position[c] - Excess[c] + Deficit[c]
  <2>1. position'[c] = position[c]
                       - (IF Amount(out, c) = 0 THEN 0 ELSE Debit(c, Amount(out, c)))
                       + Credit(c, Amount(Deficit, c))
    BY <1>1, <1>2 DEF MoveFunds, PositionsMoved
  <2>2. Amount(out, c) = Excess[c] /\ Amount(Deficit, c) = Deficit[c]
    BY <1>2, <1>3, <1>4 DEF Amount
  <2>3. Debit(c, Excess[c]) = Excess[c] /\ Credit(c, Deficit[c]) = Deficit[c]
    BY DEF Debit, Credit
  <2>4. Excess[c] \in Nat /\ Deficit[c] \in Nat
    BY <1>2, ImbalanceType DEF TypeOK, Typed
  <2> QED BY <1>2, <2>1, <2>2, <2>3, <2>4
<1>6. Excess[c] = (IF position[c] > Target(c) THEN position[c] - Target(c) ELSE 0)
      /\ Deficit[c] = (IF Target(c) > position[c] THEN Target(c) - position[c] ELSE 0)
  BY <1>2 DEF Excess, Deficit
<1> QED BY <1>2, <1>5, <1>6

(* Every mock child that can be called is on its target after a rebalance. *)
THEOREM RebalancesHitTargets == Spec => RebalanceHitsTargets
<1>1. TypeOK /\ [Next]_vars =>
        [Rebalance =>
           \A c \in (Registered \ wedged) \intersect MockStrategies : Value(c)' = Target(c)]_vars
  BY RebalanceStepHits
<1> QED BY <1>1, AllocatorTypes, PTL DEF Spec, RebalanceHitsTargets

-------------------------------------------------------------------------------
(* Funds outside of the basket *)

(* The children whose failure must not be taken for an empty position.     *)
Trusted == Fragile \ Evictable

LEMMA InitOutside ==
    ASSUME NEW X, RegisteredAsAuthoritative(X), Init
    PROVE  EmptyOutside /\ AuthoritativeIn(X)
<1>1. EmptyOutside
  BY AllocatorConstants DEF Init, EmptyOutside
<1>2. AuthoritativeIn(X)
  BY DEF Init, AllocatorInit, AuthoritativeIn, Registered, RegisteredAsAuthoritative
<1> QED BY <1>1, <1>2

LEMMA AuthoritativeKept ==
    ASSUME NEW X, RegisteredAsAuthoritative(X), TypeOK, AuthoritativeIn(X), [Next]_vars
    PROVE  AuthoritativeIn(X)'
<1>1. CASE UNCHANGED slots
  BY <1>1 DEF AuthoritativeIn, Registered
<1>2. CASE AdminStep
  BY <1>2, AuthoritativeStep DEF TypeOK, Typed
<1>3. ASSUME ~AdminStep PROVE UNCHANGED slots
  BY <1>3 DEF Next, VaultDeposits, VaultWithdraws, Yield, ChildTrouble, Wedge, Recover, vars,
     allocatorVars
<1> QED BY <1>1, <1>2, <1>3

LEMMA OutsideKept ==
    ASSUME TypeOK, EmptyOutside, AuthoritativeIn(Trusted), [Next]_vars
    PROVE  EmptyOutside'
<1>1. CASE UNCHANGED <<slots, position>>
  BY <1>1 DEF EmptyOutside, Registered
<1>2. CASE AdminStep
  BY <1>2, AdminKeepsOutside DEF TypeOK, Typed, Trusted
<1>3. ASSUME NEW n \in Amounts, VaultDeposits(n) PROVE EmptyOutside'
  <2> DEFINE tok == Transfer(token, Vault, Allocator, n)
  <2>1. MoveFunds(tok, position, Nothing, Slices(n)) /\ UNCHANGED slots
    BY <1>3 DEF VaultDeposits, AllocatorDeposit, allocatorVars
  <2>2. DOMAIN Nothing \subseteq Registered /\ DOMAIN Slices(n) \subseteq Registered
    BY DEF Nothing, Slices
  <2> HIDE DEF tok
  <2> QED BY <2>1, <2>2, MovesKeepOutside DEF TypeOK, Typed, StrategiesTypeOK
<1>4. ASSUME Yield PROVE EmptyOutside'
  <2>1. UNCHANGED slots
    BY <1>4 DEF Yield, allocatorVars
  <2>2. ASSUME NEW s \in MockStrategies, NEW n \in YieldAmounts, 0 < position[s], InjectYield(s, n)
        PROVE  EmptyOutside'
    <3>1. \A c \in Leaves : c # s => position'[c] = position[c]
      BY <2>2 DEF InjectYield, TypeOK, StrategiesTypeOK
    <3>2. ASSUME NEW c \in Children, position[c] = 0 PROVE c # s /\ c \in Leaves
      BY <2>2, <3>2, AllocatorConstants
    <3> QED BY <2>1, <3>1, <3>2 DEF EmptyOutside, Registered
  <2> QED BY <1>1, <1>4, <2>1, <2>2 DEF Yield, Mint, AccrueInterest
<1>5. CASE (\E n \in Amounts : VaultWithdraws(n)) \/ ChildTrouble \/ UNCHANGED vars
  BY <1>1, <1>5 DEF VaultWithdraws, ChildTrouble, Wedge, Recover, vars, allocatorVars, strategyVars
<1> QED BY <1>2, <1>3, <1>4, <1>5 DEF Next

(* A child leaves the basket with funds in it only by force, if those that *)
(* may trap are registered as authoritative (or may be forced out anyway). *)
(* The hypothesis is needed: a non-authoritative child that does not       *)
(* answer is taken for empty by remove_child.                              *)
THEOREM NothingIsAbandoned ==
    ASSUME RegisteredAsAuthoritative(Trusted)
    PROVE  Spec => []NothingAbandoned
<1> DEFINE IInv == TypeOK /\ EmptyOutside /\ AuthoritativeIn(Trusted)
<1>1. Init => IInv
  BY InitTypes, InitOutside
<1>2. IInv /\ [Next]_vars => IInv'
  <2> SUFFICES ASSUME IInv, [Next]_vars PROVE IInv'
    OBVIOUS
  <2>1. TypeOK' /\ EmptyOutside'
    BY TypesStep, OutsideKept
  <2>2. AuthoritativeIn(Trusted)'
    BY AuthoritativeKept
  <2> QED BY <2>1, <2>2
<1>3. IInv => NothingAbandoned
  <2> SUFFICES ASSUME IInv, NEW c \in Children \ (Registered \union Evictable) PROVE Value(c) = 0
    BY DEF NothingAbandoned
  <2>1. position[c] = 0
    BY DEF EmptyOutside
  <2>2. \A n \in Nat, d \in Nat \ {0} : (0 * n) \div d = 0
    OBVIOUS
  <2> QED BY <2>1, <2>2, RateType DEF TypeOK, Value
<1> QED BY <1>1, <1>2, <1>3, PTL DEF Spec

(* The value reported to the vault does not change by any operation of the *)
(* admin, while it can be read: with children that deliver exactly (mocks) *)
(* and are registered as authoritative.  Both hypotheses are needed: a     *)
(* Blend pool rounds, and a non-authoritative child that stops answering   *)
(* counts as empty at once.                                                *)
THEOREM KeeperKeepsTheValue ==
    ASSUME Children \subseteq MockStrategies, RegisteredAsAuthoritative(Children)
    PROVE  Spec => ValueKeptByKeeper
<1> DEFINE IInv == TypeOK /\ EmptyOutside /\ AuthoritativeIn(Children)
<1>1. Init => IInv
  BY InitTypes, InitOutside
<1>2. IInv /\ [Next]_vars => IInv'
  <2> SUFFICES ASSUME IInv, [Next]_vars PROVE IInv'
    OBVIOUS
  <2>1. AuthoritativeIn(Trusted)
    BY AllocatorConstants DEF AuthoritativeIn, Trusted
  <2>2. TypeOK' /\ EmptyOutside'
    BY <2>1, TypesStep, OutsideKept
  <2>3. AuthoritativeIn(Children)'
    BY AuthoritativeKept
  <2> QED BY <2>2, <2>3
<1>3. IInv /\ [Next]_vars =>
        [/\ AdminStep \/ ChildTrouble
         /\ Readable /\ Readable'
         /\ ~ \E c \in Evictable :
                 ForceRemoveChild(c) \/ \E a \in Authorities : AddChild(c, a)
         => AllocatorValue' = AllocatorValue]_vars
  BY KeeperKeepsValue DEF TypeOK, Typed
<1> QED BY <1>1, <1>2, <1>3, PTL DEF Spec, ValueKeptByKeeper
=============================================================================
