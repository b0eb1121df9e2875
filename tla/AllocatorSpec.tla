---------------------------- MODULE AllocatorSpec ----------------------------
(***************************************************************************)
(* The allocator on its own: the vault is reduced to a caller of the       *)
(* strategy interface that owns the tokens it deposits, so that the        *)
(* keeper's operations can be checked with more children and with children *)
(* that trap.                                                              *)
(***************************************************************************)
EXTENDS Allocator

CONSTANTS
    VaultFunds,      \* tokens the vault can deposit
    Amounts,         \* inputs of deposit and withdraw
    YieldAmounts,    \* inputs of inject_yield
    MaxTokens        \* bound on the tokens in circulation, for the yield of mocks

vars == <<strategyVars, allocatorVars>>

ASSUME AllocatorAlone ==
    /\ VaultFunds \in Nat
    /\ Amounts \subseteq Nat
    /\ YieldAmounts \subseteq Nat
    /\ MaxTokens \in Nat

Init ==
    /\ token = [h \in Holders |-> IF h = Vault THEN VaultFunds ELSE 0]
    /\ position = [s \in Leaves |-> 0]
    /\ bRate = SCALAR_12
    /\ AllocatorInit

VaultDeposits(amount) ==
    /\ amount <= token[Vault]
    /\ AllocatorDeposit(Transfer(token, Vault, Allocator, amount), position, amount)
    /\ UNCHANGED allocatorVars

VaultWithdraws(amount) ==
    /\ \E d \in AllocatorDeliverable(amount) : token' = Transfer(token, Allocator, Vault, d)
    /\ UNCHANGED <<position, bRate, allocatorVars>>

Yield ==
    /\ \/ \E s \in MockStrategies, n \in YieldAmounts :
             /\ 0 < position[s] /\ position[s] <= token[s]
             /\ Total(token, Holders) + n <= MaxTokens
             /\ InjectYield(s, n)
       \/ \E s \in MockStrategies : Mint(s, position[s] - token[s])
       \/ AccrueInterest
    /\ UNCHANGED allocatorVars

Next ==
    \/ \E n \in Amounts : VaultDeposits(n) \/ VaultWithdraws(n)
    \/ AdminStep
    \/ Yield
    \/ ChildTrouble

Spec == Init /\ [][Next]_vars

-------------------------------------------------------------------------------
(* Properties *)

(* Type invariant of the allocator and its children. *)
TypeOK == StrategiesTypeOK /\ AllocatorTypeOK

(* The weights of a basket and its native share make up the whole, as the  *)
(* constructor and set_target_weights demand (WeightsSumInvalid); children *)
(* that come and go do not change that.  The exception is an order that    *)
(* names a child twice: its entries are added up before the later          *)
(* overwrites the earlier, and the basket is left with less than the whole,*)
(* never with more.                                                        *)
Allotted == nativeBps + Total([c \in Registered |-> slots[c].weight], Registered)

NamesTwice(o) ==
    \E i, j \in DOMAIN o.entries : i # j /\ o.entries[i].child = o.entries[j].child

OverwritesItself ==
    /\ \E o \in WeightOrders : NamesTwice(o) /\ SetTargetWeights(o)
    /\ Allotted' < BPS_DENOM

WeightsComplete ==
    /\ Allotted = BPS_DENOM
    /\ [][Allotted' \in {Allotted, BPS_DENOM} \/ OverwritesItself]_vars

(* A full rebalance can always be paid for: the deficits of the            *)
(* underweight children are covered by the buffer and the excesses of the  *)
(* others, whatever the rounding of the targets (pass 2 of rebalance).     *)
RebalanceFunded ==
    Readable => Total(Deficit, Registered) <= Native + Total(Excess, Registered)

(* A rebalance leaves every child that can be called, and delivers what it *)
(* is asked for, on the target it had before, in one transaction, even     *)
(* though the drains and the fundings run in two passes over values read   *)
(* before either.                                                          *)
RebalanceHitsTargets ==
    [][Rebalance =>
        \A c \in (Registered \ wedged) \intersect MockStrategies : Value(c)' = Target(c)]_vars

(* No child leaves the basket with funds in it, but by force: remove_child *)
(* wants a zero value, deposit and rebalance fund registered children only.*)
NothingAbandoned == \A c \in Children \ (Registered \union Evictable) : Value(c) = 0

(* The value reported to the vault changes only with a deposit, a          *)
(* withdrawal or yield: weights, drains, fundings, rebalances, pauses and  *)
(* a child that starts to trap leave price-per-share alone for as long as  *)
(* it can be read.  force_remove_child, which abandons, and the return of  *)
(* a child forced out are the exceptions.                                  *)
ValueKeptByKeeper ==
    [][/\ AdminStep \/ ChildTrouble
       /\ Readable /\ Readable'
       /\ ~ \E c \in Evictable :
               ForceRemoveChild(c) \/ \E a \in Authorities : AddChild(c, a)
       => AllocatorValue' = AllocatorValue]_vars
=============================================================================
