--------------------------- MODULE BakuVaultProps ---------------------------
(***************************************************************************)
(* What the vault promises.                                                *)
(***************************************************************************)
EXTENDS BakuVault

Request == [owner: Users, shares: Nat, minOut: MinOuts]

(* Type invariant of the vault and the strategies below it. *)
TypeOK ==
    /\ StrategiesTypeOK
    /\ AllocatorTypeOK
    /\ active \in VaultStrategies
    /\ registry \subseteq VaultStrategies
    /\ shares \in [ShareHolders -> Nat]
    /\ supply \in Nat
    /\ nextRequestId \in 0 .. MaxRequests
    /\ \E Ids \in SUBSET (0 .. MaxRequests) : pending \in [Ids -> Request]
    /\ totalPendingShares \in Nat

Queued == DOMAIN pending

PendingShares == [id \in Queued |-> pending[id].shares]

(* Escrow: the counter total_pending_shares is the sum of the queued       *)
(* requests, and the vault's own share balance covers it, so that every    *)
(* queued request can be claimed or cancelled whatever the others do       *)
(* (request_redeem, claim_redeem, cancel_request).                         *)
EscrowCoversQueue ==
    /\ totalPendingShares = Total(PendingShares, Queued)
    /\ totalPendingShares <= shares[Vault]

(* Request ids are handed out once: every queued id is below the counter.  *)
(* The share supply is what the holders and the escrow own together.       *)
SupplyAccounted ==
    /\ supply = Total(shares, ShareHolders)
    /\ \A id \in Queued : id < nextRequestId

(* Solvency: were all holders paid the value of their shares at today's    *)
(* price, escrowed shares included, the strategy's value would suffice.    *)
Solvent ==
    Total([h \in ShareHolders |-> ConvertToAssets(shares[h], TotalAssets, supply)],
          ShareHolders) <= TotalAssets

(* Only the active strategy holds funds: rebalance's drain is total and    *)
(* set_active_strategy wants an empty strategy, so price-per-share, which  *)
(* reads the active strategy alone, leaves nothing out.                    *)
OnlyActiveHoldsFunds ==
    \A s \in VaultStrategies \ {active} : StrategyValue(s) = 0

(* Price-per-share, offsets included, never falls for as long as it can be *)
(* read: whatever an owner, the keeper or the admin does, shares held or   *)
(* queued keep their worth.  The exceptions are force_remove_child, which  *)
(* abandons funds, and a child whose failed reading counts as empty.       *)
PriceNotLower ==
    (TotalAssets' + VIRTUAL_ASSETS) * (supply + VIRTUAL_SHARES)
        >= (TotalAssets + VIRTUAL_ASSETS) * (supply' + VIRTUAL_SHARES)

PriceNeverFalls ==
    [][\/ \E c \in Children : ForceRemoveChild(c) \/ Wedge(c)
       \/ ~(StrategyReadable(active) /\ StrategyReadable(active)')
       \/ PriceNotLower]_vars

(* Blend rounds against the vault: a call may cost the holders the worth   *)
(* of one bToken for every pool position it changes, never more, however   *)
(* much less than asked the pools deliver: the shortfall is borne by who   *)
(* redeems.  rebalance out of a pool is the exception: what the pool holds *)
(* back is left out of the price.  So is what the exceptions of            *)
(* PriceNeverFalls leave out.                                              *)
Dust == (bRate + SCALAR_12 - 1) \div SCALAR_12

\* The pool positions a call on strategy s may change.
Pools(s) == (IF s = Allocator THEN Registered ELSE {s}) \intersect BlendStrategies

Rounding(s) == Cardinality(Pools(s)) * Dust

PriceLowerByAtMost(loss) ==
    (TotalAssets' + loss + VIRTUAL_ASSETS) * (supply + VIRTUAL_SHARES)
        >= (TotalAssets + VIRTUAL_ASSETS) * (supply' + VIRTUAL_SHARES)

LossIsDust ==
    [][\/ active \in BlendStrategies /\ \E s \in VaultStrategies : MoveTo(s)
       \/ \E c \in Children : ForceRemoveChild(c) \/ Wedge(c)
       \/ PriceLowerByAtMost(Rounding(active)')]_vars

(* A request that was worth queueing stays worth claiming: the amount owed *)
(* to it never sinks below the floor it passed in request_redeem, so its   *)
(* claim is never refused for asking the strategy for nothing.             *)
QueuedStayWorthClaiming ==
    \A id \in Queued :
        ConvertToAssets(pending[id].shares, TotalAssets, supply) >= MIN_REDEEM_ASSETS

(* An instant redeem that the view lets through does not take from the     *)
(* buffer what the queue is owed, but for a unit that the rounding of its  *)
(* own price moves to the shares that wait (instant_redeemable_assets,     *)
(* redeem).  It says nothing of a redeem sent without a look at the view.  *)
RoutedRedeem ==
    \E u \in Users : \E amount \in AmountsOf(u), minOut \in MinOuts :
        RoutedInstant(amount) /\ Redeem(u, amount, minOut)

QueueStaysCovered ==
    [][(RoutedRedeem /\ active = Allocator) => PendingOwed' <= Buffer' + 1]_vars

(* Fail closed: while a child that backs the price cannot be read, no      *)
(* share is minted or burned (child_value's panic reverts the call).       *)
NoSharesPricedBlind ==
    [][(supply' # supply /\ active = Allocator)
          => \A c \in Registered : slots[c].authoritative => c \notin wedged]_vars

(* The escape hatch: whatever happens to the strategies (paused, trapping, *)
(* evicted, short of liquidity), every queued request can be cancelled.    *)
CancelAlwaysPossible == \A id \in Queued : ENABLED CancelRequest(id)

(* The queue as its users see it: a request is settled exactly once, by    *)
(* its owner, and while it waits nobody else's calls touch its shares.     *)
Queue == INSTANCE RedemptionQueue WITH
            free   <- [u \in Users |-> shares[u]],
            issued <- supply,
            queue  <- [id \in Queued |-> [owner |-> pending[id].owner,
                                          shares |-> pending[id].shares]],
            next   <- nextRequestId

ImplementsQueue == Queue!Spec
=============================================================================
