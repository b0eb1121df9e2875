------------------------------ MODULE Strategies ------------------------------
(***************************************************************************)
(* Leaf yield strategies and the ledger of the underlying token.           *)
(*                                                                         *)
(* Every contract call of the vault system is one atomic Soroban           *)
(* transaction, so a strategy call is not an action of its own: it is an   *)
(* operator that the transaction's action applies to the state.  A call    *)
(* that returns an error or traps reverts the whole transaction; its       *)
(* condition is therefore a guard of the action.                           *)
(*                                                                         *)
(* Two kinds of leaf strategy:                                             *)
(*   - MockStrategies keep the tokens themselves and deliver exactly what  *)
(*     is asked (crates/mock-strategy);                                    *)
(*   - BlendStrategies supply the tokens to a Blend pool for bTokens whose *)
(*     rate grows, and deliver what the pool pays out, which may be less   *)
(*     than what was asked (crates/blend-strategy).                        *)
(***************************************************************************)
EXTENDS Integers, Tally

CONSTANTS
    Users,             \* depositors
    Vault,             \* address of the vault contract
    Allocator,         \* address of the allocator strategy contract
    MockStrategies,
    BlendStrategies,
    SCALAR_12,         \* scale of the bToken rate, 10^12 in the contract
    MaxRate            \* bound on the bToken rate (state-space bound)

VARIABLES
    token,      \* balance of the underlying asset of every address
    position,   \* mock: DataKey::Balance; blend: bTokens supplied to the pool
    bRate       \* the pool reserve's b_rate

strategyVars == <<token, position, bRate>>

Leaves  == MockStrategies \union BlendStrategies
Holders == Users \union Leaves \union {Vault, Allocator}

ASSUME AddressesDistinct ==
    /\ MockStrategies \intersect BlendStrategies = {}
    /\ Users \intersect Leaves = {}
    /\ {Vault, Allocator} \intersect (Users \union Leaves) = {}
    /\ Vault # Allocator

ASSUME AddressesFinite == IsFiniteSet(Users) /\ IsFiniteSet(Leaves)

ASSUME RateBounds ==
    /\ SCALAR_12 \in Nat \ {0}
    /\ MaxRate \in Nat
    /\ SCALAR_12 <= MaxRate

-------------------------------------------------------------------------------
(* The token contract.  A transfer traps unless the sender holds the amount. *)

Transfer(tok, from, to, amount) ==
    [tok EXCEPT ![from] = @ - amount, ![to] = @ + amount]

-------------------------------------------------------------------------------
(* One leaf strategy *)

\* current_value(): the mock's recorded balance, or the bTokens at the rate.
Value(s) == IF s \in MockStrategies
            THEN position[s]
            ELSE (position[s] * bRate) \div SCALAR_12

\* The credit deposit(amount) adds to the position.
Credit(s, amount) == IF s \in MockStrategies
                     THEN amount
                     ELSE (amount * SCALAR_12) \div bRate

\* The tokens of a deposit that stay at the strategy's address: a mock keeps
\* them, a Blend strategy passes them on to the pool in the same call.
Kept(s, amount) == IF s \in MockStrategies THEN amount ELSE 0

\* Mutant: the recorded balance is not compared with the amount.
DeliverableUnchecked(s, amount) == IF amount > 0 THEN {amount} ELSE {}

\* What withdraw(amount) may deliver: nothing when the call fails.
Deliverable(s, amount) ==
    IF s \in MockStrategies
    THEN {d \in {amount} : 0 < d /\ d <= position[s] /\ d <= token[s]}
    ELSE {d \in 1 .. amount : d <= Value(s)}

\* The part of the position that delivering amount takes away; the pool
\* rounds the bTokens it burns up.
Debit(s, amount) ==
    IF s \in MockStrategies
    THEN amount
    ELSE LET burned == (amount * SCALAR_12 + bRate - 1) \div bRate
         IN  IF burned < position[s] THEN burned ELSE position[s]

-------------------------------------------------------------------------------
(* The environment: yield *)

\* inject_yield(): the mock records the yield; the tokens are not moved.
InjectYield(s, amount) ==
    /\ s \in MockStrategies
    /\ amount > 0
    /\ position' = [position EXCEPT ![s] = @ + amount]
    /\ UNCHANGED <<token, bRate>>

\* Tokens that reach an address without a deposit, such as the yield of a mock.
Mint(h, amount) ==
    /\ amount > 0
    /\ token' = [token EXCEPT ![h] = @ + amount]
    /\ UNCHANGED <<position, bRate>>

AccrueInterest ==
    /\ BlendStrategies # {}
    /\ bRate < MaxRate
    /\ bRate' = bRate + 1
    /\ UNCHANGED <<token, position>>

StrategiesTypeOK ==
    /\ token \in [Holders -> Nat]
    /\ position \in [Leaves -> Nat]
    /\ bRate \in SCALAR_12 .. MaxRate
=============================================================================
