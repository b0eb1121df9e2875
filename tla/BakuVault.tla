------------------------------ MODULE BakuVault ------------------------------
(***************************************************************************)
(* The Baku vault contract (crates/vault) with the strategies it routes    *)
(* its funds to.                                                           *)
(*                                                                         *)
(* The vault is its own share token.  It holds no underlying: a deposit    *)
(* goes straight to the active strategy, a redemption is drawn from it.    *)
(* When the allocator's buffer cannot serve a redemption at once, the      *)
(* owner queues it: the shares are escrowed with the vault, priced and     *)
(* burned when the claim is made, or returned when it is cancelled.        *)
(*                                                                         *)
(* One action is one contract call, which is one atomic transaction.       *)
(* Authorisation is modelled by who the action's actor is: an owner's      *)
(* calls are quantified over Users, an admin's call names no actor.        *)
(***************************************************************************)
EXTENDS Allocator, ShareMath

CONSTANTS
    MIN_REDEEM_ASSETS,   \* 1_000_000 in the contract
    InitialStrategy,     \* constructor argument
    Wallets,             \* users' initial balances of the underlying
    DepositAmounts,      \* inputs of deposit
    ShareAmounts,        \* inputs of redeem, request_redeem and transfer, with
                         \* the whole balance
    MinOuts,             \* inputs min_amount_out / min_out
    MaxRequests,         \* bound on the number of queued requests
    MaxSupply,           \* bound on the share supply (i128 in the contract)
    MaxTokens,           \* bound on the tokens in circulation, for the yield of mocks
    YieldAmounts         \* inputs of inject_yield

VARIABLES
    active,              \* DataKey::ActiveStrategy
    registry,            \* DataKey::StrategyRegistry
    shares,              \* share token balances (OZ Base)
    supply,              \* share token total supply (OZ Base)
    pending,             \* DataKey::Pending(id) |-> request
    nextRequestId,       \* DataKey::NextRequestId
    totalPendingShares   \* DataKey::TotalPendingShares

shareVars == <<shares, supply>>
queueVars == <<pending, nextRequestId, totalPendingShares>>
routeVars == <<active, registry>>
vars == <<strategyVars, allocatorVars, shareVars, queueVars, routeVars>>

\* Strategies whose authorised vault is this vault.
VaultStrategies == (Leaves \ Children) \union {Allocator}
ShareHolders    == Users \union {Vault}

ASSUME VaultConstants ==
    /\ MIN_REDEEM_ASSETS \in Nat \ {0}
    /\ InitialStrategy \in VaultStrategies
    /\ Wallets \in [Users -> Nat]
    /\ DepositAmounts \subseteq Nat
    /\ ShareAmounts \subseteq Nat
    /\ MinOuts \subseteq Nat
    /\ MaxRequests \in Nat
    /\ MaxSupply \in Nat
    /\ MaxTokens \in Nat
    /\ YieldAmounts \subseteq Nat

-------------------------------------------------------------------------------
(* The strategy client *)

StrategyReadable(s) == s = Allocator => Readable
StrategyValue(s)    == IF s = Allocator THEN AllocatorValue ELSE Value(s)
TotalAssets         == StrategyValue(active)

StrategyDeliverable(s, amount) ==
    IF s = Allocator THEN AllocatorDeliverable(amount) ELSE Deliverable(s, amount)

\* The ledgers once strategy s has delivered d to the vault.
TokensDelivered(s, d) ==
    IF s \in BlendStrategies
    THEN [token EXCEPT ![Vault] = @ + d]
    ELSE Transfer(token, s, Vault, d)

PositionsDelivered(s, d) ==
    IF s = Allocator THEN position ELSE [position EXCEPT ![s] = @ - Debit(s, d)]

\* s.deposit(amount), after amount was transferred to s.
StrategyDeposit(tok, pos, s, amount) ==
    \/ /\ s = Allocator
       /\ AllocatorDeposit(tok, pos, amount)
    \/ /\ s # Allocator
       /\ amount > 0
       /\ token' = [tok EXCEPT ![s] = @ - amount + Kept(s, amount)]
       /\ position' = [pos EXCEPT ![s] = @ + Credit(s, amount)]
       /\ UNCHANGED bRate

\* The underlying of a redemption: s delivers d to the vault, which pays owner.
PayOut(s, d, owner) ==
    /\ token' = Transfer(TokensDelivered(s, d), Vault, owner, d)
    /\ position' = PositionsDelivered(s, d)
    /\ UNCHANGED bRate

-------------------------------------------------------------------------------
(* The share token: Base::update with no sender, no receiver, or both. *)

MintShares(to, amount) ==
    /\ shares' = [shares EXCEPT ![to] = @ + amount]
    /\ supply' = supply + amount

\* Mutant: the supply is left alone.
BurnFromBalanceOnly(from, amount) ==
    /\ amount <= shares[from]
    /\ shares' = [shares EXCEPT ![from] = @ - amount]
    /\ UNCHANGED supply

BurnShares(from, amount) ==
    /\ amount <= shares[from]
    /\ shares' = [shares EXCEPT ![from] = @ - amount]
    /\ supply' = supply - amount

MoveShares(from, to, amount) ==
    /\ amount <= shares[from]
    /\ shares' = Transfer(shares, from, to, amount)
    /\ UNCHANGED supply

-------------------------------------------------------------------------------
(* Views by which a client routes a redemption *)

\* The allocator's buffer(); other strategies serve their whole value.
Buffer == IF active = Allocator THEN Native ELSE TotalAssets

PendingOwed == ConvertToAssets(totalPendingShares, TotalAssets, supply)

\* instant_redeemable_assets(): the buffer less what the queue is owed.
InstantRedeemable ==
    LET free == Buffer - PendingOwed IN IF free < 0 THEN 0 ELSE free

\* Mutant: the queue's part of the buffer counts as free.
RoutedPastTheQueue(amount) == ConvertToAssets(amount, TotalAssets, supply) <= Buffer

\* preview_redeem() fits in the free buffer: the client may send redeem.
RoutedInstant(amount) == ConvertToAssets(amount, TotalAssets, supply) <= InstantRedeemable

-------------------------------------------------------------------------------
(* User operations *)

\* The shares are priced before the assets arrive.
Deposit(u, assets) ==
    /\ assets > 0
    /\ StrategyReadable(active)
    /\ assets <= token[u]
    /\ StrategyDeposit(Transfer(token, u, active, assets), position, active, assets)
    /\ LET minted == ConvertToShares(assets, TotalAssets, supply)
       IN  /\ supply + minted <= MaxSupply
           /\ MintShares(u, minted)
    /\ UNCHANGED <<allocatorVars, queueVars, routeVars>>

\* All the shares are burned, whatever the strategy delivers above the floor.
Redeem(u, amount, minOut) ==
    /\ amount > 0
    /\ StrategyReadable(active)
    /\ LET estimated == ConvertToAssets(amount, TotalAssets, supply)
       IN  /\ minOut <= estimated
           /\ \E actual \in StrategyDeliverable(active, estimated) :
                 /\ minOut <= actual
                 /\ PayOut(active, actual, u)
    /\ BurnShares(u, amount)
    /\ UNCHANGED <<allocatorVars, queueVars, routeVars>>

RequestRedeem(u, amount, minOut) ==
    /\ amount > 0
    /\ StrategyReadable(active)
    /\ ConvertToAssets(amount, TotalAssets, supply) >= MIN_REDEEM_ASSETS
    /\ nextRequestId < MaxRequests
    /\ MoveShares(u, Vault, amount)
    /\ pending' = [id \in DOMAIN pending \union {nextRequestId} |->
                      IF id = nextRequestId
                      THEN [owner |-> u, shares |-> amount, minOut |-> minOut]
                      ELSE pending[id]]
    /\ nextRequestId' = nextRequestId + 1
    /\ totalPendingShares' = totalPendingShares + amount
    /\ UNCHANGED <<strategyVars, allocatorVars, routeVars>>

\* Mutants: the counter is not brought down; the request stays in storage.
DequeueWithoutCount(id) ==
    /\ pending' = [x \in DOMAIN pending \ {id} |-> pending[x]]
    /\ UNCHANGED <<nextRequestId, totalPendingShares>>

DequeueWithoutRemove(id) ==
    /\ totalPendingShares' = totalPendingShares - pending[id].shares
    /\ UNCHANGED <<pending, nextRequestId>>

Dequeue(id) ==
    /\ pending' = [x \in DOMAIN pending \ {id} |-> pending[x]]
    /\ totalPendingShares' = totalPendingShares - pending[id].shares
    /\ UNCHANGED nextRequestId

\* The owner's claim: priced now, not at the request; reverts, and can be
\* retried, while the strategy cannot deliver the amount.
ClaimRedeem(id) ==
    /\ id \in DOMAIN pending
    /\ StrategyReadable(active)
    /\ LET p == pending[id]
           owed == ConvertToAssets(p.shares, TotalAssets, supply)
       IN  /\ p.minOut <= owed
           /\ BurnShares(Vault, p.shares)
           /\ \E actual \in StrategyDeliverable(active, owed) :
                 /\ p.minOut <= actual
                 /\ PayOut(active, actual, p.owner)
    /\ Dequeue(id)
    /\ UNCHANGED <<allocatorVars, routeVars>>

\* Mutant: a cancellation reads the price first.
CancelPriced(id) ==
    /\ id \in DOMAIN pending
    /\ StrategyReadable(active)
    /\ MoveShares(Vault, pending[id].owner, pending[id].shares)
    /\ Dequeue(id)
    /\ UNCHANGED <<strategyVars, allocatorVars, routeVars>>

CancelRequest(id) ==
    /\ id \in DOMAIN pending
    /\ MoveShares(Vault, pending[id].owner, pending[id].shares)
    /\ Dequeue(id)
    /\ UNCHANGED <<strategyVars, allocatorVars, routeVars>>

\* The SEP-41 surface: holders move shares, to the vault's address as well.
TransferShares(u, to, amount) ==
    /\ amount > 0
    /\ MoveShares(u, to, amount)
    /\ UNCHANGED <<strategyVars, allocatorVars, queueVars, routeVars>>

-------------------------------------------------------------------------------
(* Admin operations *)

RegisterStrategy(s) ==
    /\ s \notin registry
    /\ registry' = registry \union {s}
    /\ UNCHANGED <<strategyVars, allocatorVars, shareVars, queueVars, active>>

\* Mutant: the active strategy need not be empty.
SetActiveUndrained(s) ==
    /\ StrategyReadable(active)
    /\ s \in registry
    /\ active' = s
    /\ UNCHANGED <<strategyVars, allocatorVars, shareVars, queueVars, registry>>

SetActiveStrategy(s) ==
    /\ StrategyReadable(active)
    /\ TotalAssets <= 0
    /\ s \in registry
    /\ active' = s
    /\ UNCHANGED <<strategyVars, allocatorVars, shareVars, queueVars, registry>>

\* Mutant: only the pointer moves.
MoveToPointer(s) ==
    /\ s \in registry
    /\ s # active
    /\ StrategyReadable(active)
    /\ active' = s
    /\ UNCHANGED <<strategyVars, allocatorVars, shareVars, queueVars, registry>>

\* rebalance(): the active strategy is asked for all of its value, what it
\* delivers is deposited with the new one, and the new one becomes active.
MoveTo(s) ==
    /\ s \in registry
    /\ s # active
    /\ StrategyReadable(active)
    /\ \/ /\ TotalAssets <= 0
          /\ UNCHANGED strategyVars
       \/ /\ TotalAssets > 0
          /\ \E actual \in StrategyDeliverable(active, TotalAssets) :
                StrategyDeposit(Transfer(TokensDelivered(active, actual),
                                         Vault, s, actual),
                                PositionsDelivered(active, actual), s, actual)
    /\ active' = s
    /\ UNCHANGED <<allocatorVars, shareVars, queueVars, registry>>

-------------------------------------------------------------------------------

Init ==
    /\ token = [h \in Holders |-> IF h \in Users THEN Wallets[h] ELSE 0]
    /\ position = [s \in Leaves |-> 0]
    /\ bRate = SCALAR_12
    /\ AllocatorInit
    /\ active = InitialStrategy
    /\ registry = {InitialStrategy}
    /\ shares = [h \in ShareHolders |-> 0]
    /\ supply = 0
    /\ pending = [id \in {} |-> 0]
    /\ nextRequestId = 0
    /\ totalPendingShares = 0

\* The amounts of shares a user acts on.
AmountsOf(u) == ShareAmounts \union {shares[u]}

RedeemStep ==
    \E u \in Users : \E amount \in AmountsOf(u), minOut \in MinOuts : Redeem(u, amount, minOut)

QueueStep ==
    \/ \E u \in Users : \E amount \in AmountsOf(u), minOut \in MinOuts :
          RequestRedeem(u, amount, minOut)
    \/ \E id \in DOMAIN pending : ClaimRedeem(id) \/ CancelRequest(id)

ShareStep ==
    \E u \in Users :
       \/ \E assets \in DepositAmounts : Deposit(u, assets)
       \/ \E to \in ShareHolders \ {u}, amount \in ShareAmounts : TransferShares(u, to, amount)

UserStep == RedeemStep \/ QueueStep \/ ShareStep

GovernanceStep ==
    \E s \in VaultStrategies : RegisterStrategy(s) \/ SetActiveStrategy(s) \/ MoveTo(s)

KeeperStep == AdminStep /\ UNCHANGED <<shareVars, queueVars, routeVars>>

\* Yield accrues on a mock that holds a position; its tokens follow.
YieldStep ==
    /\ \/ \E s \in MockStrategies, n \in YieldAmounts :
             /\ 0 < position[s] /\ position[s] <= token[s]
             /\ Total(token, Holders) + n <= MaxTokens
             /\ InjectYield(s, n)
       \/ \E s \in MockStrategies : Mint(s, position[s] - token[s])
       \/ AccrueInterest
    /\ UNCHANGED <<allocatorVars, shareVars, queueVars, routeVars>>

TroubleStep == ChildTrouble /\ UNCHANGED <<shareVars, queueVars, routeVars>>

Next == UserStep \/ GovernanceStep \/ KeeperStep \/ YieldStep \/ TroubleStep

Spec == Init /\ [][Next]_vars
=============================================================================
