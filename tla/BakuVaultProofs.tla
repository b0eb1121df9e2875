--------------------------- MODULE BakuVaultProofs ---------------------------
(***************************************************************************)
(* The vault, for every number of users, strategies and requests and every *)
(* value of the constants: it keeps its books (types, share supply and     *)
(* escrow), and what follows from that: solvency, the promise of the       *)
(* queue, the price of a share, and where the funds are.                   *)
(***************************************************************************)
EXTENDS BakuVaultProps, AllocatorProofs

\* The type invariant is not inductive: that a burn leaves a natural supply,
\* and a claim a natural count of pending shares, needs the other two.
Books == TypeOK /\ EscrowCoversQueue /\ SupplyAccounted

-------------------------------------------------------------------------------
(* Facts about states *)

(* Who can hold what.                                                      *)
LEMMA HoldersApart ==
    /\ Users \subseteq Holders /\ Leaves \subseteq Holders
    /\ Vault \in Holders /\ Allocator \in Holders
    /\ Vault \notin Users /\ Vault \notin Leaves /\ Vault # Allocator
    /\ Allocator \notin Users /\ Allocator \notin Leaves
    /\ Users \intersect Leaves = {}
    /\ VaultStrategies \subseteq Leaves \union {Allocator}
    /\ ShareHolders = Users \union {Vault}
    /\ IsFiniteSet(ShareHolders)
<1>1. IsFiniteSet(ShareHolders)
  BY AddressesFinite, FS_AddElement DEF ShareHolders
<1> QED BY <1>1, AddressesDistinct DEF Holders, VaultStrategies, ShareHolders

(* The active strategy reports a natural value (total_assets).             *)
LEMMA TotalAssetsType ==
    ASSUME TypeOK, NEW s \in VaultStrategies
    PROVE  StrategyValue(s) \in Nat
<1>1. CASE s = Allocator
  BY <1>1, AllocatorValueType DEF TypeOK, Typed, StrategyValue
<1>2. CASE s # Allocator
  <2>1. s \in Leaves
    BY <1>2, HoldersApart
  <2> QED BY <1>2, <2>1, ValueType DEF TypeOK, StrategyValue
<1> QED BY <1>1, <1>2

(* Conversions in both directions yield naturals.                          *)
LEMMA ConversionsType ==
    ASSUME NEW n \in Nat, NEW a \in Nat, NEW s \in Nat
    PROVE  ConvertToShares(n, a, s) \in Nat /\ ConvertToAssets(n, a, s) \in Nat
<1>1. a + VIRTUAL_ASSETS \in Nat \ {0} /\ s + VIRTUAL_SHARES \in Nat \ {0}
  BY VirtualOffsets
<1>2. n * (s + VIRTUAL_SHARES) \in Nat /\ n * (a + VIRTUAL_ASSETS) \in Nat
  BY <1>1, ProductType
<1> QED BY <1>1, <1>2, QuotientType DEF ConvertToShares, ConvertToAssets

(* What a strategy delivers, it has.                                       *)
LEMMA StrategyDeliveryType ==
    ASSUME TypeOK, NEW s \in VaultStrategies, NEW amount \in Nat,
           NEW d \in StrategyDeliverable(s, amount)
    PROVE  /\ d \in Nat \ {0}
           /\ TokensDelivered(s, d) \in [Holders -> Nat]
           /\ TokensDelivered(s, d)[Vault] = token[Vault] + d
           /\ PositionsDelivered(s, d) \in [Leaves -> Nat]
<1>1. token \in [Holders -> Nat] /\ position \in [Leaves -> Nat] /\ StrategiesTypeOK
  BY DEF TypeOK, StrategiesTypeOK
<1>2. CASE s = Allocator
  <2>1. d = amount /\ d > 0 /\ d <= token[Allocator]
    BY <1>2 DEF StrategyDeliverable, AllocatorDeliverable, Native
  <2>2. s \notin BlendStrategies
    BY <1>2, HoldersApart DEF Leaves
  <2> QED BY <1>1, <1>2, <2>1, <2>2, HoldersApart, TransferType
          DEF TokensDelivered, PositionsDelivered, Transfer
<1>3. CASE s # Allocator
  <2>1. s \in Leaves /\ s # Vault
    BY <1>3, HoldersApart
  <2>2. d \in Nat \ {0} /\ (s \in MockStrategies => d <= position[s] /\ d <= token[s])
    BY <1>3, <2>1, DeliveryType DEF StrategyDeliverable
  <2>3. Debit(s, d) \in 0 .. position[s]
    BY <1>1, <2>1, <2>2, DebitType
  <2>4. PositionsDelivered(s, d) \in [Leaves -> Nat]
    BY <1>1, <1>3, <2>1, <2>3 DEF PositionsDelivered
  <2>5. CASE s \in BlendStrategies
    BY <1>1, <2>2, <2>4, <2>5, HoldersApart DEF TokensDelivered
  <2>6. CASE s \notin BlendStrategies
    <3>1. s \in Holders /\ d <= token[s] /\ TokensDelivered(s, d) = Transfer(token, s, Vault, d)
      BY <2>1, <2>2, <2>6, HoldersApart DEF TokensDelivered, Leaves
    <3> QED BY <1>1, <2>1, <2>2, <2>4, <3>1, HoldersApart, TransferType DEF Transfer
  <2> QED BY <2>5, <2>6
<1> QED BY <1>2, <1>3

(* Paying out keeps the ledgers well typed.                                *)
LEMMA PayOutType ==
    ASSUME TypeOK, NEW amount \in Nat, NEW d \in StrategyDeliverable(active, amount),
           NEW u \in Users, PayOut(active, d, u)
    PROVE  StrategiesTypeOK'
<1>1. active \in VaultStrategies /\ bRate \in SCALAR_12 .. MaxRate /\ token[Vault] \in Nat
  BY HoldersApart DEF TypeOK, StrategiesTypeOK
<1>2. /\ d \in Nat /\ TokensDelivered(active, d) \in [Holders -> Nat]
      /\ d <= TokensDelivered(active, d)[Vault]
      /\ PositionsDelivered(active, d) \in [Leaves -> Nat]
  BY <1>1, StrategyDeliveryType
<1>3. token' \in [Holders -> Nat]
  BY <1>2, HoldersApart, TransferType DEF PayOut
<1> QED BY <1>1, <1>2, <1>3 DEF PayOut, StrategiesTypeOK

(* A deposit with a strategy that was paid for keeps the ledgers typed.    *)
LEMMA StrategyDepositType ==
    ASSUME TypeOK, NEW s \in VaultStrategies, NEW amount \in Nat,
           NEW tok \in [Holders -> Nat], NEW pos \in [Leaves -> Nat],
           amount <= tok[s], StrategyDeposit(tok, pos, s, amount)
    PROVE  StrategiesTypeOK'
<1>1. CASE s = Allocator
  BY <1>1, AllocatorDepositType DEF StrategyDeposit, TypeOK, Typed
<1>2. CASE s # Allocator
  <2>1. s \in Leaves /\ s \in Holders
    BY <1>2, HoldersApart
  <2>2. StrategiesTypeOK /\ Credit(s, amount) \in Nat
    BY <2>1, CreditType DEF TypeOK
  <2>3. Kept(s, amount) \in Nat
    BY DEF Kept
  <2>4. tok[s] - amount + Kept(s, amount) \in Nat /\ pos[s] + Credit(s, amount) \in Nat
    BY <2>1, <2>2, <2>3
  <2> QED BY <1>2, <2>1, <2>2, <2>4 DEF StrategyDeposit, StrategiesTypeOK
<1> QED BY <1>1, <1>2

-------------------------------------------------------------------------------
(* The share token *)

\* What the share token is after an operation on it.
SharesTyped == shares \in [ShareHolders -> Nat] /\ supply \in Nat
SharesKept  == SharesTyped /\ supply = Total(shares, ShareHolders)

(* A mint is accounted for.                                                *)
LEMMA MintKeepsShares ==
    ASSUME SharesKept, NEW u \in ShareHolders, NEW n \in Nat, MintShares(u, n)
    PROVE  SharesKept' /\ \A h \in ShareHolders : shares'[h] >= shares[h]
<1>1. shares' \in [ShareHolders -> Nat] /\ supply' \in Nat
  BY DEF MintShares, SharesKept, SharesTyped
<1>2. /\ shares'[u] = shares[u] + n
      /\ \A h \in ShareHolders \ {u} : shares'[h] = shares[h]
  BY DEF MintShares, SharesKept, SharesTyped
<1>3. Total(shares', ShareHolders) = Total(shares, ShareHolders) - shares[u] + shares'[u]
  BY <1>1, <1>2, HoldersApart, TotalUpdate DEF SharesKept, SharesTyped
<1> QED BY <1>1, <1>2, <1>3 DEF MintShares, SharesKept, SharesTyped

(* So is a burn; no one holds more than the supply.                        *)
LEMMA BurnKeepsShares ==
    ASSUME SharesKept, NEW u \in ShareHolders, NEW n \in Nat, BurnShares(u, n)
    PROVE  /\ SharesKept'
           /\ shares'[u] = shares[u] - n
           /\ \A h \in ShareHolders \ {u} : shares'[h] = shares[h]
<1>1. shares[u] <= supply
  BY HoldersApart, TotalCovers DEF SharesKept, SharesTyped
<1>2. shares' \in [ShareHolders -> Nat] /\ supply' \in Nat
  BY <1>1 DEF BurnShares, SharesKept, SharesTyped
<1>3. /\ shares'[u] = shares[u] - n
      /\ \A h \in ShareHolders \ {u} : shares'[h] = shares[h]
  BY DEF BurnShares, SharesKept, SharesTyped
<1>4. Total(shares', ShareHolders) = Total(shares, ShareHolders) - shares[u] + shares'[u]
  BY <1>2, <1>3, HoldersApart, TotalUpdate DEF SharesKept, SharesTyped
<1>5. supply' = Total(shares', ShareHolders)
  BY <1>3, <1>4 DEF BurnShares, SharesKept, SharesTyped
<1> QED BY <1>2, <1>3, <1>5 DEF SharesKept, SharesTyped

(* So is a move from one holder to another.                                *)
LEMMA MoveKeepsShares ==
    ASSUME SharesKept, NEW u \in ShareHolders, NEW v \in ShareHolders, u # v, NEW n \in Nat,
           MoveShares(u, v, n)
    PROVE  /\ SharesKept'
           /\ shares'[u] = shares[u] - n
           /\ shares'[v] = shares[v] + n
           /\ \A h \in ShareHolders \ {u, v} : shares'[h] = shares[h]
<1> DEFINE mid == [shares EXCEPT ![u] = @ - n]
<1>1. shares \in [ShareHolders -> Nat] /\ n <= shares[u]
  BY DEF MoveShares, SharesKept, SharesTyped
<1>2. /\ mid \in [ShareHolders -> Nat] /\ mid[u] = shares[u] - n
      /\ \A h \in ShareHolders \ {u} : mid[h] = shares[h]
  BY <1>1
<1> HIDE DEF mid
<1>3. /\ shares' \in [ShareHolders -> Nat]
      /\ shares'[u] = shares[u] - n
      /\ shares'[v] = shares[v] + n
      /\ \A h \in ShareHolders \ {u, v} : shares'[h] = shares[h]
  BY <1>1 DEF MoveShares, Transfer
<1>4. \A h \in ShareHolders \ {v} : shares'[h] = mid[h]
  BY <1>2, <1>3
<1> \A h \in ShareHolders : mid[h] \in Nat /\ shares[h] \in Nat /\ shares'[h] \in Nat
  BY <1>1, <1>2, <1>3
<1> IsFiniteSet(ShareHolders)
  BY HoldersApart
<1>5. Total(mid, ShareHolders) = Total(shares, ShareHolders) - shares[u] + mid[u]
  BY <1>2, TotalUpdate
<1>6. Total(shares', ShareHolders) = Total(mid, ShareHolders) - mid[v] + shares'[v]
  BY <1>4, TotalUpdate
<1>7. supply' = supply /\ supply \in Nat /\ supply = Total(shares, ShareHolders)
  BY DEF MoveShares, SharesKept, SharesTyped
<1>8. supply' = Total(shares', ShareHolders)
  BY <1>1, <1>2, <1>3, <1>5, <1>6, <1>7
<1> QED BY <1>3, <1>7, <1>8 DEF SharesKept, SharesTyped

-------------------------------------------------------------------------------
(* The queue *)

\* What the queue's storage is after an operation on it.
QueueKept ==
    /\ nextRequestId \in 0 .. MaxRequests
    /\ \E Ids \in SUBSET (0 .. MaxRequests) : pending \in [Ids -> Request]
    /\ totalPendingShares \in Nat
    /\ totalPendingShares = Total(PendingShares, Queued)
    /\ \A id \in Queued : id < nextRequestId

RouteTyped == active \in VaultStrategies /\ registry \subseteq VaultStrategies

Parts == /\ StrategiesTypeOK /\ AllocatorTypeOK /\ RouteTyped
         /\ SharesKept /\ QueueKept /\ totalPendingShares <= shares[Vault]

(* The inductive invariant, and its next value, by the parts it has.       *)
LEMMA BooksParts == (Books <=> Parts) /\ (Books' <=> Parts')
BY DEF Books, Parts, TypeOK, EscrowCoversQueue, SupplyAccounted, QueueKept, SharesKept,
       SharesTyped, RouteTyped

(* Finitely many requests wait, each with an owner and natural shares.     *)
LEMMA QueueFacts ==
    ASSUME QueueKept
    PROVE  /\ Queued \subseteq 0 .. MaxRequests /\ IsFiniteSet(Queued)
           /\ pending \in [Queued -> Request]
           /\ \A id \in Queued : /\ pending[id].owner \in Users
                                /\ pending[id].shares \in Nat
                                /\ PendingShares[id] = pending[id].shares
                                /\ PendingShares[id] \in Nat
<1>1. Queued \subseteq 0 .. MaxRequests /\ pending \in [Queued -> Request]
  BY DEF QueueKept, Queued
<1>2. IsFiniteSet(0 .. MaxRequests)
  BY VaultConstants, FS_Interval
<1>3. IsFiniteSet(Queued)
  BY <1>1, <1>2, FS_Subset
<1>4. ASSUME NEW id \in Queued PROVE pending[id].owner \in Users /\ pending[id].shares \in Nat
  BY <1>1 DEF Request
<1> QED BY <1>1, <1>3, <1>4 DEF PendingShares

(* A request that leaves the queue takes its shares off the count.         *)
LEMMA DequeueKeepsQueue ==
    ASSUME QueueKept, NEW id \in Queued, Dequeue(id)
    PROVE  QueueKept' /\ totalPendingShares' = totalPendingShares - pending[id].shares
<1> DEFINE rest == Queued \ {id}
<1>1. /\ IsFiniteSet(Queued) /\ Queued \subseteq 0 .. MaxRequests
      /\ pending \in [Queued -> Request]
      /\ \A x \in Queued : PendingShares[x] = pending[x].shares /\ PendingShares[x] \in Nat
  BY QueueFacts
<1>2. Queued' = rest /\ pending' \in [rest -> Request] /\ \A x \in rest : pending'[x] = pending[x]
  BY <1>1 DEF Dequeue, Queued
<1>3. \A x \in rest : PendingShares'[x] = PendingShares[x]
  BY <1>2 DEF PendingShares
<1>4. Total(PendingShares', Queued') = Total(PendingShares, rest)
  BY <1>2, <1>3, TotalSame
<1>5. /\ Total(PendingShares, Queued) = Total(PendingShares, rest) + PendingShares[id]
      /\ Total(PendingShares, rest) \in Nat
  BY <1>1, TotalSplit
<1>6. totalPendingShares' = Total(PendingShares', Queued') /\ totalPendingShares' \in Nat
  BY <1>1, <1>4, <1>5 DEF Dequeue, QueueKept
<1>7. rest \in SUBSET (0 .. MaxRequests) /\ \A x \in rest : x < nextRequestId
  BY <1>1 DEF QueueKept
<1> QED BY <1>2, <1>6, <1>7 DEF QueueKept, Dequeue

(* A request that joins the queue has a fresh id and adds its shares.      *)
LEMMA RequestKeepsQueue ==
    ASSUME QueueKept, NEW u \in Users, NEW n \in Nat, NEW minOut \in MinOuts,
           RequestRedeem(u, n, minOut)
    PROVE  QueueKept' /\ totalPendingShares' = totalPendingShares + n
<1> DEFINE id == nextRequestId
<1>1. /\ IsFiniteSet(Queued) /\ Queued \subseteq 0 .. MaxRequests
      /\ pending \in [Queued -> Request]
      /\ \A x \in Queued : PendingShares[x] = pending[x].shares /\ PendingShares[x] \in Nat
  BY QueueFacts
<1>2. id \in 0 .. MaxRequests /\ id + 1 \in 0 .. MaxRequests /\ id \notin Queued
  BY <1>1, VaultConstants DEF RequestRedeem, QueueKept
<1>3. /\ Queued' = Queued \union {id}
      /\ pending' \in [Queued \union {id} -> Request]
      /\ pending'[id].shares = n
      /\ \A x \in Queued : pending'[x] = pending[x]
  BY <1>1, <1>2 DEF RequestRedeem, Queued, Request
<1>4. /\ PendingShares'[id] = n
      /\ \A x \in Queued : PendingShares'[x] = PendingShares[x]
  BY <1>3 DEF PendingShares
<1>5. Total(PendingShares', Queued \union {id}) = Total(PendingShares, Queued) + n
  <2> DEFINE f == PendingShares
             g == PendingShares'
  <2>1. /\ g[id] \in Nat /\ g[id] = n
        /\ \A x \in Queued : g[x] = f[x]
        /\ \A x \in Queued : f[x] \in Nat
    BY <1>1, <1>4
  <2>2. IsFiniteSet(Queued) /\ id \notin Queued
    BY <1>1, <1>2
  <2> HIDE DEF f, g, id
  <2>3. Total(g, Queued \union {id}) = Total(f, Queued) + g[id]
    BY <2>1, <2>2, TotalAdd
  <2> QED BY <2>1, <2>3 DEF f, g, id
<1>6. /\ totalPendingShares' = totalPendingShares + n /\ totalPendingShares' \in Nat
      /\ totalPendingShares' = Total(PendingShares', Queued')
  BY <1>3, <1>5 DEF RequestRedeem, QueueKept
<1>7. /\ Queued' \in SUBSET (0 .. MaxRequests) /\ nextRequestId' = id + 1
      /\ \A x \in Queued' : x < id + 1
  BY <1>1, <1>2, <1>3 DEF RequestRedeem, QueueKept
<1> QED BY <1>2, <1>3, <1>6, <1>7 DEF QueueKept

-------------------------------------------------------------------------------
(* One lemma per group of operations *)

(* What an operation leaves alone stays as it was.                         *)
LEMMA PartsKept ==
    ASSUME Parts
    PROVE  /\ UNCHANGED strategyVars  => StrategiesTypeOK'
           /\ UNCHANGED allocatorVars => AllocatorTypeOK'
           /\ UNCHANGED routeVars     => RouteTyped'
           /\ UNCHANGED shareVars     => SharesKept'
           /\ UNCHANGED queueVars     => QueueKept'
<1>1. UNCHANGED queueVars => Queued' = Queued /\ PendingShares' = PendingShares
  BY DEF queueVars, Queued, PendingShares
<1> QED BY <1>1 DEF Parts, strategyVars, allocatorVars, routeVars, shareVars, queueVars,
           StrategiesTypeOK, AllocatorTypeOK, RouteTyped, SharesKept, SharesTyped, QueueKept

(* A deposit of a user (deposit).                                          *)
LEMMA DepositKeepsBooks ==
    ASSUME Books, NEW u \in Users, NEW assets \in DepositAmounts, Deposit(u, assets)
    PROVE  Books'
<1> DEFINE paid == Transfer(token, u, active, assets)
           minted == ConvertToShares(assets, TotalAssets, supply)
<1>1. Parts /\ TypeOK /\ active \in VaultStrategies /\ assets \in Nat /\ supply \in Nat
  BY BooksParts, VaultConstants DEF Books, TypeOK
<1>2. active \in Holders /\ u \in Holders /\ u # active /\ u \in ShareHolders /\ u # Vault
      /\ Vault \in ShareHolders
  BY <1>1, HoldersApart
<1>3. token \in [Holders -> Nat] /\ position \in [Leaves -> Nat] /\ assets <= token[u]
  BY <1>1 DEF TypeOK, StrategiesTypeOK, Deposit
<1>4. paid \in [Holders -> Nat] /\ assets <= paid[active]
  <2>1. paid[active] = token[active] + assets
    BY <1>2, <1>3 DEF Transfer
  <2> QED BY <1>1, <1>2, <1>3, <2>1, TransferType
<1>5. StrategiesTypeOK'
  <2> HIDE DEF paid
  <2>1. StrategyDeposit(paid, position, active, assets)
    BY DEF Deposit, paid
  <2> QED BY <1>1, <1>3, <1>4, <2>1, StrategyDepositType
<1>6. minted \in Nat
  BY <1>1, TotalAssetsType, ConversionsType DEF TotalAssets
<1>7. SharesKept' /\ shares'[Vault] >= shares[Vault]
  <2>1. MintShares(u, minted) /\ SharesKept
    BY <1>1 DEF Deposit, Parts
  <2> HIDE DEF minted
  <2> QED BY <1>2, <1>6, <2>1, MintKeepsShares
<1>8. AllocatorTypeOK' /\ RouteTyped' /\ QueueKept' /\ totalPendingShares' = totalPendingShares
  BY <1>1, PartsKept DEF Deposit, queueVars
<1>9. totalPendingShares' <= shares'[Vault]
  BY <1>1, <1>2, <1>7, <1>8 DEF Parts, SharesKept, SharesTyped, QueueKept
<1> QED BY <1>5, <1>7, <1>8, <1>9, BooksParts DEF Parts

\* The redemption that redeem and claim_redeem make at the end.
PaysOut(n, u) ==
    \E actual \in StrategyDeliverable(active, ConvertToAssets(n, TotalAssets, supply)) :
       PayOut(active, actual, u)

(* What a redemption pays out, the strategy had.                           *)
LEMMA RedemptionType ==
    ASSUME Books, NEW u \in Users, NEW n \in Nat, PaysOut(n, u)
    PROVE  StrategiesTypeOK'
<1> DEFINE owed == ConvertToAssets(n, TotalAssets, supply)
<1>1. TypeOK /\ owed \in Nat
  BY TotalAssetsType, ConversionsType DEF Books, TypeOK, TotalAssets
<1>2. \E actual \in StrategyDeliverable(active, owed) : PayOut(active, actual, u)
  BY DEF PaysOut
<1> HIDE DEF owed
<1> QED BY <1>1, <1>2, PayOutType

(* An instant redemption (redeem).                                         *)
LEMMA RedeemKeepsBooks ==
    ASSUME Books, NEW u \in Users, NEW n \in Nat, NEW minOut \in MinOuts, Redeem(u, n, minOut)
    PROVE  Books'
<1>1. Parts /\ u \in ShareHolders /\ u # Vault /\ Vault \in ShareHolders
  BY BooksParts, HoldersApart
<1>2. StrategiesTypeOK'
  BY RedemptionType DEF Redeem, PaysOut
<1>3. SharesKept' /\ shares'[Vault] = shares[Vault]
  BY <1>1, BurnKeepsShares DEF Redeem, Parts
<1>4. AllocatorTypeOK' /\ RouteTyped' /\ QueueKept' /\ totalPendingShares' = totalPendingShares
  BY <1>1, PartsKept DEF Redeem, queueVars
<1> QED BY <1>1, <1>2, <1>3, <1>4, BooksParts DEF Parts

(* Queueing a redemption (request_redeem): the escrow takes the shares.    *)
LEMMA RequestKeepsBooks ==
    ASSUME Books, NEW u \in Users, NEW n \in Nat, NEW minOut \in MinOuts,
           RequestRedeem(u, n, minOut)
    PROVE  Books'
<1>1. /\ Parts /\ u \in ShareHolders /\ u # Vault /\ Vault \in ShareHolders
      /\ shares[Vault] \in Nat /\ totalPendingShares \in Nat
      /\ totalPendingShares <= shares[Vault]
  BY BooksParts, HoldersApart DEF Parts, SharesKept, SharesTyped, QueueKept
<1>2. SharesKept' /\ shares'[Vault] = shares[Vault] + n
  BY <1>1, MoveKeepsShares DEF RequestRedeem, Parts
<1>3. QueueKept' /\ totalPendingShares' = totalPendingShares + n
  BY <1>1, RequestKeepsQueue DEF Parts
<1>4. StrategiesTypeOK' /\ AllocatorTypeOK' /\ RouteTyped'
  BY <1>1, PartsKept DEF RequestRedeem
<1>5. totalPendingShares' <= shares'[Vault]
  BY <1>1, <1>2, <1>3
<1> QED BY <1>2, <1>3, <1>4, <1>5, BooksParts DEF Parts

(* Settling a request: the escrow gives up exactly what the count loses.   *)
LEMMA ClaimKeepsBooks ==
    ASSUME Books, NEW id \in Queued, ClaimRedeem(id)
    PROVE  Books'
<1> DEFINE n == pending[id].shares
<1>1. /\ Parts /\ Vault \in ShareHolders
      /\ shares[Vault] \in Nat /\ totalPendingShares \in Nat
      /\ totalPendingShares <= shares[Vault]
      /\ pending[id].owner \in Users /\ n \in Nat
  BY BooksParts, HoldersApart, QueueFacts DEF Parts, SharesKept, SharesTyped, QueueKept
<1>2. StrategiesTypeOK'
  <2>1. PaysOut(n, pending[id].owner)
    BY DEF ClaimRedeem, PaysOut
  <2> QED BY <1>1, <2>1, RedemptionType
<1>3. SharesKept' /\ shares'[Vault] = shares[Vault] - n
  BY <1>1, BurnKeepsShares DEF ClaimRedeem, Parts
<1>4. QueueKept' /\ totalPendingShares' = totalPendingShares - n
  BY <1>1, DequeueKeepsQueue DEF ClaimRedeem, Parts
<1>5. AllocatorTypeOK' /\ RouteTyped'
  BY <1>1, PartsKept DEF ClaimRedeem
<1>6. totalPendingShares' <= shares'[Vault]
  BY <1>1, <1>3, <1>4
<1> QED BY <1>2, <1>3, <1>4, <1>5, <1>6, BooksParts DEF Parts

(* The same for a request that is cancelled (cancel_request).              *)
LEMMA CancelKeepsBooks ==
    ASSUME Books, NEW id \in Queued, CancelRequest(id)
    PROVE  Books'
<1> DEFINE n == pending[id].shares
           owner == pending[id].owner
<1>1. /\ Parts /\ Vault \in ShareHolders
      /\ shares[Vault] \in Nat /\ totalPendingShares \in Nat
      /\ totalPendingShares <= shares[Vault]
      /\ owner \in ShareHolders /\ owner # Vault /\ n \in Nat
  BY BooksParts, HoldersApart, QueueFacts DEF Parts, SharesKept, SharesTyped, QueueKept
<1>2. SharesKept' /\ shares'[Vault] = shares[Vault] - n
  BY <1>1, MoveKeepsShares DEF CancelRequest, Parts
<1>3. QueueKept' /\ totalPendingShares' = totalPendingShares - n
  BY <1>1, DequeueKeepsQueue DEF CancelRequest, Parts
<1>4. StrategiesTypeOK' /\ AllocatorTypeOK' /\ RouteTyped'
  BY <1>1, PartsKept DEF CancelRequest
<1>5. totalPendingShares' <= shares'[Vault]
  BY <1>1, <1>2, <1>3
<1> QED BY <1>2, <1>3, <1>4, <1>5, BooksParts DEF Parts

(* Share transfers, to the vault's address too: what the escrow holds in   *)
(* excess of the queue only grows.                                         *)
LEMMA TransferKeepsBooks ==
    ASSUME Books, NEW u \in Users, NEW to \in ShareHolders \ {u}, NEW n \in Nat,
           TransferShares(u, to, n)
    PROVE  Books'
<1>1. /\ Parts /\ u \in ShareHolders /\ u # Vault /\ Vault \in ShareHolders
      /\ shares[Vault] \in Nat /\ totalPendingShares \in Nat
      /\ totalPendingShares <= shares[Vault]
  BY BooksParts, HoldersApart DEF Parts, SharesKept, SharesTyped, QueueKept
<1>2. /\ SharesKept' /\ shares'[to] = shares[to] + n
      /\ \A h \in ShareHolders \ {u, to} : shares'[h] = shares[h]
  BY <1>1, MoveKeepsShares DEF TransferShares, Parts
<1>3. shares'[Vault] >= shares[Vault]
  BY <1>1, <1>2
<1>4. StrategiesTypeOK' /\ AllocatorTypeOK' /\ RouteTyped' /\ QueueKept'
      /\ totalPendingShares' = totalPendingShares
  BY <1>1, PartsKept DEF TransferShares, queueVars
<1>5. totalPendingShares' <= shares'[Vault]
  BY <1>1, <1>2, <1>3, <1>4 DEF SharesKept, SharesTyped
<1> QED BY <1>2, <1>4, <1>5, BooksParts DEF Parts

(* Governance: the strategies are typed even when the one that is left     *)
(* holds something back (rebalance).                                       *)
LEMMA GovernanceKeepsBooks ==
    ASSUME Books, GovernanceStep
    PROVE  Books'
<1>1. Parts /\ TypeOK /\ active \in VaultStrategies
  BY BooksParts DEF Books, TypeOK
<1>2. PICK s \in VaultStrategies : RegisterStrategy(s) \/ SetActiveStrategy(s) \/ MoveTo(s)
  BY DEF GovernanceStep
<1>3. UNCHANGED <<allocatorVars, shareVars, queueVars>>
  BY <1>2 DEF RegisterStrategy, SetActiveStrategy, MoveTo
<1>4. AllocatorTypeOK' /\ SharesKept' /\ QueueKept' /\ (totalPendingShares <= shares[Vault])'
  BY <1>1, <1>3, PartsKept DEF Parts, shareVars, queueVars
<1>5. RouteTyped'
  BY <1>1, <1>2 DEF RegisterStrategy, SetActiveStrategy, MoveTo, RouteTyped, Parts
<1>6. StrategiesTypeOK'
  <2>1. CASE UNCHANGED strategyVars
    BY <1>1, <2>1, PartsKept
  <2>2. CASE MoveTo(s) /\ ~UNCHANGED strategyVars
    <3>1. PICK actual \in StrategyDeliverable(active, TotalAssets) :
             StrategyDeposit(Transfer(TokensDelivered(active, actual), Vault, s, actual),
                             PositionsDelivered(active, actual), s, actual)
      BY <2>2 DEF MoveTo
    <3> DEFINE got == TokensDelivered(active, actual)
               tok == Transfer(got, Vault, s, actual)
               pos == PositionsDelivered(active, actual)
    <3>2. /\ actual \in Nat /\ got \in [Holders -> Nat] /\ got[Vault] = token[Vault] + actual
          /\ pos \in [Leaves -> Nat]
      BY <1>1, TotalAssetsType, StrategyDeliveryType DEF TotalAssets
    <3>3. token[Vault] \in Nat /\ Vault \in Holders /\ s \in Holders /\ s # Vault
      BY <1>1, HoldersApart DEF TypeOK, StrategiesTypeOK
    <3> HIDE DEF got, pos
    <3>4. tok \in [Holders -> Nat]
      BY <3>2, <3>3, TransferType
    <3>5. tok[s] = got[s] + actual /\ got[s] \in Nat
      BY <3>2, <3>3 DEF Transfer
    <3>6. StrategyDeposit(tok, pos, s, actual)
      BY <3>1 DEF got, pos
    <3> HIDE DEF tok
    <3> QED BY <1>1, <3>2, <3>4, <3>5, <3>6, StrategyDepositType
  <2> QED BY <1>2, <2>1, <2>2 DEF RegisterStrategy, SetActiveStrategy
<1> QED BY <1>4, <1>5, <1>6, BooksParts DEF Parts

(* What happens below the vault leaves its books alone.                    *)
LEMMA BelowKeepsBooks ==
    ASSUME Books, KeeperStep \/ YieldStep \/ TroubleStep
    PROVE  Books'
<1>1. Parts /\ Typed
  BY BooksParts DEF Parts, Typed
<1>2. UNCHANGED <<shareVars, queueVars, routeVars>>
  BY DEF KeeperStep, YieldStep, TroubleStep
<1>3. RouteTyped' /\ SharesKept' /\ QueueKept' /\ (totalPendingShares <= shares[Vault])'
  BY <1>1, <1>2, PartsKept DEF Parts, shareVars, queueVars
<1>4. CASE KeeperStep
  BY <1>1, <1>3, <1>4, AdminStepType, BooksParts DEF KeeperStep, Typed, Parts
<1>5. CASE TroubleStep
  BY <1>1, <1>3, <1>5, BasketOperationsType, BooksParts DEF TroubleStep, Typed, Parts
<1>6. CASE YieldStep
  <2>1. AllocatorTypeOK'
    BY <1>1, <1>6, PartsKept DEF YieldStep
  <2>2. /\ token \in [Holders -> Nat] /\ position \in [Leaves -> Nat]
        /\ bRate \in SCALAR_12 .. MaxRate /\ MockStrategies \subseteq Leaves
        /\ MockStrategies \subseteq Holders
    BY <1>1, HoldersApart DEF Parts, StrategiesTypeOK, Leaves
  <2>3. ASSUME NEW s \in MockStrategies, NEW n \in YieldAmounts, InjectYield(s, n)
        PROVE  StrategiesTypeOK'
    BY <2>2, <2>3, VaultConstants DEF InjectYield, StrategiesTypeOK
  <2>4. ASSUME NEW s \in MockStrategies, Mint(s, position[s] - token[s])
        PROVE  StrategiesTypeOK'
    BY <2>2, <2>4 DEF Mint, StrategiesTypeOK
  <2>5. ASSUME AccrueInterest PROVE StrategiesTypeOK'
    BY <2>2, <2>5, RateBounds DEF AccrueInterest, StrategiesTypeOK
  <2>6. StrategiesTypeOK'
    BY <1>6, <2>3, <2>4, <2>5 DEF YieldStep
  <2> QED BY <1>3, <2>1, <2>6, BooksParts DEF Parts
<1> QED BY <1>4, <1>5, <1>6

(* A new vault's books are in order.                                       *)
LEMMA InitBooks == Init => Books
<1> SUFFICES ASSUME Init PROVE Books
  OBVIOUS
<1>1. StrategiesTypeOK
  <2>1. \A u \in Users : Wallets[u] \in Nat
    BY VaultConstants
  <2>2. token \in [Holders -> Nat]
    BY <2>1 DEF Init
  <2> QED BY <2>2, RateBounds DEF Init, StrategiesTypeOK
<1>2. AllocatorTypeOK
  BY AllocatorInitType DEF Init
<1>3. RouteTyped
  BY VaultConstants DEF Init, RouteTyped
<1>4. SharesKept /\ shares[Vault] = 0
  <2>1. Total(shares, ShareHolders) = 0
    BY TotalZero DEF Init
  <2> QED BY <2>1, HoldersApart DEF Init, SharesKept, SharesTyped
<1>5. QueueKept /\ totalPendingShares = 0
  <2>1. Queued = {} /\ pending \in [{} -> Request]
    BY DEF Init, Queued
  <2>2. Total(PendingShares, Queued) = 0
    BY <2>1, TotalNone
  <2>3. nextRequestId \in 0 .. MaxRequests /\ totalPendingShares = 0
    BY VaultConstants DEF Init
  <2>4. \E Ids \in SUBSET (0 .. MaxRequests) : pending \in [Ids -> Request]
    <3>1. {} \in SUBSET (0 .. MaxRequests)
      OBVIOUS
    <3> QED BY <2>1, <3>1
  <2>5. totalPendingShares \in Nat
    BY <2>3
  <2> QED BY <2>1, <2>2, <2>3, <2>4, <2>5 DEF QueueKept
<1> QED BY <1>1, <1>2, <1>3, <1>4, <1>5, BooksParts DEF Parts

(* Every step keeps the books in order.                                    *)
LEMMA StepKeepsBooks == Books /\ [Next]_vars => Books'
<1> SUFFICES ASSUME Books, [Next]_vars PROVE Books'
  OBVIOUS
<1>1. /\ \A u \in Users : AmountsOf(u) \subseteq Nat
      /\ ShareAmounts \subseteq Nat /\ Queued = DOMAIN pending
  BY VaultConstants, HoldersApart DEF AmountsOf, Books, TypeOK, Queued
<1>2. CASE RedeemStep
  BY <1>1, <1>2, RedeemKeepsBooks DEF RedeemStep
<1>3. CASE QueueStep
  BY <1>1, <1>3, RequestKeepsBooks, ClaimKeepsBooks, CancelKeepsBooks DEF QueueStep
<1>4. CASE ShareStep
  BY <1>1, <1>4, DepositKeepsBooks, TransferKeepsBooks DEF ShareStep
<1>5. CASE GovernanceStep
  BY <1>5, GovernanceKeepsBooks
<1>6. CASE KeeperStep \/ YieldStep \/ TroubleStep
  BY <1>6, BelowKeepsBooks
<1>7. CASE UNCHANGED vars
  BY <1>7, PartsKept, BooksParts DEF vars, Parts, shareVars, queueVars
<1> QED BY <1>2, <1>3, <1>4, <1>5, <1>6, <1>7 DEF Next, UserStep

(* The vault's state is always well typed: no balance, position, supply or *)
(* count is ever negative, whatever the callers send.                      *)
THEOREM TypeCorrect == Spec => []TypeOK
<1>1. Books => TypeOK
  BY DEF Books
<1> QED BY InitBooks, StepKeepsBooks, <1>1, PTL DEF Spec

(* The escrow always covers the queue, and the count of pending shares is  *)
(* exact (request_redeem, claim_redeem, cancel_request).                   *)
THEOREM EscrowSound == Spec => []EscrowCoversQueue
<1>1. Books => EscrowCoversQueue
  BY DEF Books
<1> QED BY InitBooks, StepKeepsBooks, <1>1, PTL DEF Spec

(* The share supply is always what the holders own together.               *)
THEOREM SupplySound == Spec => []SupplyAccounted
<1>1. Books => SupplyAccounted
  BY DEF Books
<1> QED BY InitBooks, StepKeepsBooks, <1>1, PTL DEF Spec

-------------------------------------------------------------------------------
(* Solvency *)

(* A conversion rounds down: it is worth no more than its share.           *)
LEMMA ConversionBound ==
    ASSUME NEW n \in Nat, NEW a \in Nat, NEW s \in Nat
    PROVE  ConvertToAssets(n, a, s) * (s + VIRTUAL_SHARES) <= n * (a + VIRTUAL_ASSETS)
<1> DEFINE d == s + VIRTUAL_SHARES
           p == n * (a + VIRTUAL_ASSETS)
<1>1. a + VIRTUAL_ASSETS \in Nat /\ d \in Nat \ {0}
  BY VirtualOffsets
<1>2. p \in Nat
  BY <1>1, ProductType
<1>3. ConvertToAssets(n, a, s) = p \div d
  BY DEF ConvertToAssets
<1> HIDE DEF d, p
<1>4. (p \div d) * d <= p
  BY <1>1, <1>2
<1> QED BY <1>3, <1>4 DEF d, p

(* With one virtual asset, what all holders together would be paid is at   *)
(* most what the strategy has: the virtual shares take the remainder.      *)
LEMMA BooksSolvent ==
    ASSUME Books, VIRTUAL_ASSETS = 1
    PROVE  Solvent
<1> DEFINE worth == [h \in ShareHolders |-> ConvertToAssets(shares[h], TotalAssets, supply)]
           m == supply + VIRTUAL_SHARES
           k == TotalAssets + VIRTUAL_ASSETS
           paid == Total(worth, ShareHolders)
<1>1. /\ TypeOK /\ TotalAssets \in Nat /\ supply \in Nat /\ shares \in [ShareHolders -> Nat]
      /\ supply = Total(shares, ShareHolders)
  BY TotalAssetsType DEF Books, TypeOK, SupplyAccounted, TotalAssets
<1>2. m \in Nat /\ k \in Nat /\ IsFiniteSet(ShareHolders)
  BY <1>1, VirtualOffsets, HoldersApart
<1>3. \A h \in ShareHolders : worth[h] \in Nat /\ worth[h] * m <= shares[h] * k
  BY <1>1, ConversionsType, ConversionBound
<1>4. \A h \in ShareHolders : shares[h] \in Nat
  BY <1>1
<1> HIDE DEF worth
<1>5. paid \in Nat
  BY <1>2, <1>3, TotalType
<1>6. paid * m <= supply * k
  <2> HIDE DEF m, k
  <2> QED BY <1>1, <1>2, <1>3, <1>4, TotalScaled
<1>7. \A x, a, s \in Nat : x * (s + VIRTUAL_SHARES) <= s * (a + 1) => x <= a
  <2> SUFFICES ASSUME NEW x \in Nat, NEW a \in Nat, NEW s \in Nat, x > a
               PROVE  ~(x * (s + VIRTUAL_SHARES) <= s * (a + 1))
    OBVIOUS
  <2>1. VIRTUAL_SHARES \in Nat \ {0}
    BY VirtualOffsets
  <2>2. PICK y \in Nat : x = a + 1 + y
    <3>1. x - a - 1 \in Nat /\ x = a + 1 + (x - a - 1)
      OBVIOUS
    <3> QED BY <3>1
  <2>3. x * (s + VIRTUAL_SHARES) = s * (a + 1) + s * y + x * VIRTUAL_SHARES
    BY <2>1, <2>2
  <2>4. s * y \in Nat /\ s * (a + 1) \in Nat
    OBVIOUS
  <2>5. x * VIRTUAL_SHARES \in Nat \ {0}
    BY <2>1, <2>2
  <2> QED BY <2>3, <2>4, <2>5
<1>8. paid <= TotalAssets
  <2> HIDE DEF paid
  <2> QED BY <1>1, <1>5, <1>6, <1>7 DEF m, k
<1> QED BY <1>8 DEF Solvent, worth, paid

(* The vault is solvent in every state: at today's price the strategy's    *)
(* value pays out all holders and the whole queue.  The offset of one      *)
(* virtual asset is the contract's.                                        *)
THEOREM Solvency ==
    ASSUME VIRTUAL_ASSETS = 1
    PROVE  Spec => []Solvent
<1>1. Books => Solvent
  BY BooksSolvent
<1> QED BY InitBooks, StepKeepsBooks, <1>1, PTL DEF Spec

-------------------------------------------------------------------------------
(* The redemption queue *)

\* The queue's state, as the vault represents it.
Free  == [u \in Users |-> shares[u]]
Waits == [id \in Queued |-> [owner |-> pending[id].owner, shares |-> pending[id].shares]]

queueView == <<Free, supply, Waits, nextRequestId>>

(* Calls that touch neither shares nor requests are not seen.              *)
LEMMA ViewUnchanged ==
    ASSUME UNCHANGED shareVars, UNCHANGED queueVars
    PROVE  UNCHANGED queueView
BY DEF shareVars, queueVars, queueView, Free, Waits, Queued

(* One user's shares change: so do the free shares of that user.           *)
LEMMA FreeChange ==
    ASSUME NEW u \in Users, NEW x, shares'[u] = x,
           \A v \in Users \ {u} : shares'[v] = shares[v]
    PROVE  Free' = [Free EXCEPT ![u] = x] /\ Free[u] = shares[u]
BY DEF Free

(* A deposit issues shares to the depositor.                               *)
LEMMA DepositIssues ==
    ASSUME Books, NEW u \in Users, NEW assets \in DepositAmounts, Deposit(u, assets)
    PROVE  Queue!Issue(u)
<1> DEFINE minted == ConvertToShares(assets, TotalAssets, supply)
<1>1. TotalAssets \in Nat /\ supply \in Nat /\ shares \in [ShareHolders -> Nat] /\ assets \in Nat
  BY TotalAssetsType, VaultConstants DEF Books, TypeOK, TotalAssets
<1>2. minted \in Nat
  BY <1>1, ConversionsType
<1>3. MintShares(u, minted) /\ UNCHANGED queueVars
  BY DEF Deposit
<1> HIDE DEF minted
<1>4. supply' = supply + minted /\ shares' = [shares EXCEPT ![u] = @ + minted]
  BY <1>3 DEF MintShares
<1>5. Free' = [Free EXCEPT ![u] = @ + supply' - supply]
  <2>1. u \in ShareHolders /\ Users \subseteq ShareHolders
    BY HoldersApart
  <2>2. /\ shares'[u] = shares[u] + supply' - supply
        /\ \A v \in Users \ {u} : shares'[v] = shares[v]
    BY <1>1, <1>2, <1>4, <2>1
  <2> QED BY <2>2, FreeChange
<1>6. UNCHANGED Waits /\ UNCHANGED nextRequestId
  BY <1>3 DEF queueVars, Waits, Queued
<1> QED BY <1>1, <1>2, <1>4, <1>5, <1>6 DEF Queue!Issue, Free, Waits

(* An instant redemption spends free shares.                               *)
LEMMA RedeemSpends ==
    ASSUME Books, NEW u \in Users, NEW n \in Nat, NEW minOut \in MinOuts, Redeem(u, n, minOut)
    PROVE  n \in 1 .. Free[u] /\ Queue!Spend(u, n)
<1>1. /\ shares \in [ShareHolders -> Nat] /\ u \in ShareHolders /\ Users \subseteq ShareHolders
      /\ n > 0 /\ n <= shares[u] /\ supply' = supply - n
      /\ shares' = [shares EXCEPT ![u] = @ - n]
      /\ UNCHANGED queueVars
  BY HoldersApart DEF Books, TypeOK, Redeem, BurnShares
<1>2. Free' = [Free EXCEPT ![u] = @ - n] /\ n \in 1 .. Free[u]
  <2>1. shares'[u] = shares[u] - n /\ \A v \in Users \ {u} : shares'[v] = shares[v]
    BY <1>1
  <2>2. Free' = [Free EXCEPT ![u] = shares[u] - n] /\ Free[u] = shares[u]
    BY <2>1, FreeChange
  <2>3. shares[u] \in Nat /\ n \in 1 .. shares[u]
    BY <1>1
  <2> QED BY <2>2, <2>3
<1>3. UNCHANGED Waits /\ UNCHANGED nextRequestId
  BY <1>1 DEF queueVars, Waits, Queued
<1> QED BY <1>1, <1>2, <1>3 DEF Queue!Spend, Free, Waits

(* A transfer gives free shares away, or loses them to the vault.          *)
LEMMA TransferGives ==
    ASSUME Books, NEW u \in Users, NEW to \in ShareHolders \ {u}, NEW n \in Nat,
           TransferShares(u, to, n)
    PROVE  /\ n \in 1 .. Free[u]
           /\ (to \in Users /\ Queue!Give(u, to, n)) \/ Queue!Lose(u, n)
<1>1. /\ shares \in [ShareHolders -> Nat] /\ u \in ShareHolders /\ Users \subseteq ShareHolders
      /\ n > 0 /\ n <= shares[u] /\ supply' = supply
      /\ shares' = [shares EXCEPT ![u] = @ - n, ![to] = @ + n]
      /\ UNCHANGED queueVars
  BY HoldersApart DEF Books, TypeOK, TransferShares, MoveShares, Transfer
<1>2. n \in 1 .. Free[u]
  BY <1>1 DEF Free
<1>3. UNCHANGED Waits /\ UNCHANGED nextRequestId
  BY <1>1 DEF queueVars, Waits, Queued
<1>4. CASE to \in Users
  <2>1. Free' = [Free EXCEPT ![u] = @ - n, ![to] = @ + n]
    BY <1>1, <1>4 DEF Free
  <2> QED BY <1>1, <1>2, <1>3, <1>4, <2>1 DEF Queue!Give, Free, Waits
<1>5. CASE to = Vault
  <2>1. Free' = [Free EXCEPT ![u] = @ - n]
    BY <1>1, <1>5, HoldersApart DEF Free
  <2> QED BY <1>1, <1>2, <1>3, <2>1 DEF Queue!Lose, Free, Waits
<1> QED BY <1>4, <1>5, HoldersApart

(* A request takes free shares out of their owner's reach.                 *)
LEMMA RequestEnqueues ==
    ASSUME Books, NEW u \in Users, NEW n \in Nat, NEW minOut \in MinOuts,
           RequestRedeem(u, n, minOut)
    PROVE  n \in 1 .. Free[u] /\ Queue!Enqueue(u, n)
<1>1. /\ shares \in [ShareHolders -> Nat] /\ u \in ShareHolders /\ Users \subseteq ShareHolders
      /\ n > 0 /\ n <= shares[u] /\ supply' = supply /\ Vault \notin Users
      /\ shares' = [shares EXCEPT ![u] = @ - n, ![Vault] = @ + n]
      /\ nextRequestId' = nextRequestId + 1
  BY HoldersApart DEF Books, TypeOK, RequestRedeem, MoveShares, Transfer
<1>2. Free' = [Free EXCEPT ![u] = @ - n] /\ n \in 1 .. Free[u]
  <2>1. shares'[u] = shares[u] - n /\ \A v \in Users \ {u} : shares'[v] = shares[v]
    BY <1>1
  <2>2. Free' = [Free EXCEPT ![u] = shares[u] - n] /\ Free[u] = shares[u]
    BY <2>1, FreeChange
  <2>3. shares[u] \in Nat /\ n \in 1 .. shares[u]
    BY <1>1
  <2> QED BY <2>2, <2>3
<1>3. nextRequestId \notin Queued
  BY DEF Books, SupplyAccounted, TypeOK
<1>4. Waits' = [id \in Queued \union {nextRequestId} |->
                  IF id = nextRequestId THEN [owner |-> u, shares |-> n] ELSE Waits[id]]
  BY <1>3 DEF RequestRedeem, Waits, Queued
<1>5. DOMAIN Waits = Queued
  BY DEF Waits
<1> QED BY <1>1, <1>2, <1>3, <1>4, <1>5 DEF Queue!Enqueue, Queue!Waiting, Free, Waits

(* A settled request leaves the queue; the others wait on as they were.    *)
LEMMA DequeueLeaves ==
    ASSUME NEW id \in Queued, Dequeue(id)
    PROVE  /\ Waits' = [x \in Queued \ {id} |-> Waits[x]]
           /\ UNCHANGED nextRequestId
           /\ DOMAIN Waits = Queued
           /\ Waits[id].shares = pending[id].shares
           /\ Waits[id].owner = pending[id].owner
BY DEF Dequeue, Waits, Queued

(* A claim settles a request, and touches no one's free shares.            *)
LEMMA ClaimClaims ==
    ASSUME Books, NEW id \in Queued, ClaimRedeem(id)
    PROVE  Queue!Claim(id)
<1>1. /\ shares \in [ShareHolders -> Nat] /\ Users \subseteq ShareHolders /\ Vault \notin Users
      /\ supply' = supply - pending[id].shares
      /\ shares' = [shares EXCEPT ![Vault] = @ - pending[id].shares]
  BY HoldersApart DEF Books, TypeOK, ClaimRedeem, BurnShares
<1>2. UNCHANGED Free
  BY <1>1 DEF Free
<1>3. Dequeue(id)
  BY DEF ClaimRedeem
<1> QED BY <1>1, <1>2, <1>3, DequeueLeaves
        DEF Queue!Claim, Queue!Leave, Queue!Waiting, Free, Waits

(* A cancellation returns the request's shares, all of them, to its owner. *)
LEMMA CancelCancels ==
    ASSUME Books, NEW id \in Queued, CancelRequest(id)
    PROVE  Queue!Cancel(id)
<1> DEFINE u == pending[id].owner
           n == pending[id].shares
<1>1. /\ shares \in [ShareHolders -> Nat] /\ Users \subseteq ShareHolders /\ Vault \notin Users
      /\ u \in Users /\ Vault \in ShareHolders
  BY HoldersApart, QueueFacts, BooksParts DEF Books, TypeOK, Parts
<1>2. supply' = supply /\ shares' = [shares EXCEPT ![Vault] = @ - n, ![u] = @ + n]
  BY DEF CancelRequest, MoveShares, Transfer
<1>3. shares'[u] = shares[u] + n /\ \A v \in Users \ {u} : shares'[v] = shares[v]
  <2> HIDE DEF u, n
  <2> QED BY <1>1, <1>2
<1>4. Free' = [Free EXCEPT ![u] = @ + n]
  <2>1. Free' = [Free EXCEPT ![u] = shares[u] + n] /\ Free[u] = shares[u]
    <3> HIDE DEF u, n
    <3> QED BY <1>1, <1>3, FreeChange
  <2> QED BY <2>1
<1>5. Dequeue(id)
  BY DEF CancelRequest
<1> QED BY <1>2, <1>4, <1>5, DequeueLeaves
        DEF Queue!Cancel, Queue!Leave, Queue!Waiting, Free, Waits

(* A new vault has an empty queue.                                         *)
LEMMA InitQueue == Init => Queue!Init
<1> SUFFICES ASSUME Init PROVE Queue!Init
  OBVIOUS
<1>1. Free = [u \in Users |-> 0]
  BY HoldersApart DEF Init, Free
<1>2. Waits = [id \in {} |-> 0]
  BY DEF Init, Waits, Queued
<1> QED BY <1>1, <1>2 DEF Init, Queue!Init, Free, Waits

(* Every step of the vault is a step of the queue, or not seen by it.      *)
LEMMA StepQueue == Books /\ [Next]_vars => [Queue!Next]_(Queue!queueSpecVars)
<1> SUFFICES ASSUME Books, [Next]_vars PROVE Queue!Next \/ UNCHANGED queueView
  BY DEF queueView, Queue!queueSpecVars, Free, Waits
<1>1. /\ \A u \in Users : AmountsOf(u) \subseteq Nat
      /\ ShareAmounts \subseteq Nat /\ Queued = DOMAIN pending /\ DOMAIN Waits = Queued
  BY VaultConstants, HoldersApart DEF AmountsOf, Books, TypeOK, Queued, Waits
<1>2. CASE RedeemStep
  <2>1. PICK u \in Users, n \in Nat, minOut \in MinOuts : Redeem(u, n, minOut)
    BY <1>1, <1>2 DEF RedeemStep
  <2>2. n \in 1 .. Free[u] /\ Queue!Spend(u, n)
    BY <2>1, RedeemSpends
  <2> QED BY <2>2 DEF Queue!Next, Free
<1>3. CASE QueueStep
  <2>1. ASSUME NEW u \in Users, NEW n \in Nat, NEW minOut \in MinOuts, RequestRedeem(u, n, minOut)
        PROVE  Queue!Next
    <3>1. n \in 1 .. Free[u] /\ Queue!Enqueue(u, n)
      BY <2>1, RequestEnqueues
    <3> QED BY <3>1 DEF Queue!Next, Free
  <2>2. ASSUME NEW id \in Queued, ClaimRedeem(id) \/ CancelRequest(id)
        PROVE  Queue!Next
    <3>1. Queue!Claim(id) \/ Queue!Cancel(id)
      BY <2>2, ClaimClaims, CancelCancels
    <3> QED BY <1>1, <3>1 DEF Queue!Next, Queue!Waiting, Waits
  <2> QED BY <1>1, <1>3, <2>1, <2>2 DEF QueueStep
<1>4. CASE ShareStep
  <2>1. ASSUME NEW u \in Users, NEW assets \in DepositAmounts, Deposit(u, assets)
        PROVE  Queue!Next
    BY <2>1, DepositIssues DEF Queue!Next
  <2>2. ASSUME NEW u \in Users, NEW to \in ShareHolders \ {u}, NEW n \in ShareAmounts,
               TransferShares(u, to, n)
        PROVE  Queue!Next
    <3>1. /\ n \in 1 .. Free[u]
          /\ (to \in Users /\ Queue!Give(u, to, n)) \/ Queue!Lose(u, n)
      BY <1>1, <2>2, TransferGives
    <3> QED BY <3>1 DEF Queue!Next, Free
  <2> QED BY <1>4, <2>1, <2>2 DEF ShareStep
<1>5. CASE GovernanceStep
  BY <1>5, ViewUnchanged DEF GovernanceStep, RegisterStrategy, SetActiveStrategy, MoveTo
<1>6. CASE KeeperStep \/ YieldStep \/ TroubleStep
  BY <1>6, ViewUnchanged DEF KeeperStep, YieldStep, TroubleStep
<1>7. CASE UNCHANGED vars
  BY <1>7, ViewUnchanged DEF vars
<1> QED BY <1>2, <1>3, <1>4, <1>5, <1>6, <1>7 DEF Next, UserStep

(* The vault implements the queue that its users are promised: a share is  *)
(* free or waits in one request, a request is settled once, and nobody     *)
(* else's calls touch the shares that wait in it.                          *)
THEOREM QueueImplemented == Spec => ImplementsQueue
<1>1. Spec => []Books
  BY InitBooks, StepKeepsBooks, PTL DEF Spec
<1> QED BY <1>1, InitQueue, StepQueue, PTL DEF Spec, ImplementsQueue, Queue!Spec

-------------------------------------------------------------------------------
(* What a strategy is worth, before and after a call *)

(* What a call may cost for rounding: at the allocator's Blend children,   *)
(* or at a Blend strategy of the vault itself.                             *)
LEMMA RoundingOf ==
    ASSUME TypeOK
    PROVE  /\ Rounding(Allocator) = AllocatorLoss
           /\ \A s \in Leaves : Rounding(s) = LossOf(s)
           /\ \A s \in VaultStrategies : Rounding(s) \in Nat
<1>1. Dust = BTokenWorth /\ Dust \in Nat
  BY LossType DEF Dust, BTokenWorth, TypeOK
<1>2. Rounding(Allocator) = AllocatorLoss
  BY <1>1 DEF Rounding, Pools, AllocatorLoss
<1>3. ASSUME NEW s \in Leaves PROVE Rounding(s) = LossOf(s)
  <2>1. Pools(s) = IF s \in BlendStrategies THEN {s} ELSE {}
    BY HoldersApart DEF Pools
  <2>2. Cardinality({s}) = 1 /\ Cardinality({}) = 0
    BY FS_Singleton, FS_EmptySet
  <2>3. 1 * Dust = Dust /\ 0 * Dust = 0
    BY <1>1
  <2>4. Rounding(s) = (IF s \in BlendStrategies THEN 1 ELSE 0) * Dust
    BY <2>1, <2>2 DEF Rounding
  <2> QED BY <1>1, <2>3, <2>4 DEF LossOf
<1>4. AllocatorLoss \in Nat /\ \A s : LossOf(s) \in Nat
  BY AllocatorLossType, LossType DEF TypeOK, Typed
<1>5. \A s \in VaultStrategies : s = Allocator \/ s \in Leaves
  BY DEF VaultStrategies
<1> QED BY <1>2, <1>3, <1>4, <1>5

LEMMA RoundingNext ==
    Books' => (Rounding(active) \in Nat /\ Dust \in Nat /\ Rounding(Allocator) = AllocatorLoss)'
<1>1. Books => Rounding(active) \in Nat /\ Dust \in Nat /\ Rounding(Allocator) = AllocatorLoss
  BY RoundingOf, LossType DEF Books, TypeOK, Dust, BTokenWorth
<1> QED BY <1>1, PTL

(* The same of the strategies the vault calls: what is deposited adds to   *)
(* the value, but for rounding.                                            *)
LEMMA StrategySupplied ==
    ASSUME TypeOK, NEW s \in VaultStrategies, NEW n \in Nat,
           NEW tok \in [Holders -> Nat], s = Allocator => tok[s] = token[s] + n,
           NEW pos \in [Leaves -> Nat], \A c \in Children : pos[c] = position[c],
           s # Allocator => pos[s] = position[s],
           StrategyDeposit(tok, pos, s, n), UNCHANGED allocatorVars
    PROVE  StrategyValue(s)' + Rounding(s) >= StrategyValue(s) + n
<1>1. CASE s = Allocator
  <2>1. /\ Typed /\ Registered \subseteq Children /\ Registered \subseteq Leaves
        /\ slots \in [Registered -> Slot] /\ AllocatorValue \in Nat /\ Native \in Nat
    BY ChildrenType, AllocatorValueType DEF TypeOK, Typed
  <2>2. MoveFunds(tok, pos, Nothing, Slices(n)) /\ UNCHANGED <<slots, wedged>>
    BY <1>1, HoldersApart DEF StrategyDeposit, AllocatorDeposit, allocatorVars
  <2>3. ASSUME NEW c \in Registered
        PROVE  (n * slots[c].weight) \div BPS_DENOM \in Nat
    <3>1. slots[c].weight \in Nat
      BY <2>1, AllocatorConstants DEF Slot
    <3>2. n * slots[c].weight \in Nat
      BY <3>1, ProductType
    <3> QED BY <3>2, QuotientType, AllocatorConstants
  <2>4. /\ Available(Nothing, tok, pos) /\ DOMAIN Nothing \subseteq Registered
        /\ ChildAmounts(Slices(n)) /\ DOMAIN Slices(n) \subseteq Registered
    BY <2>1, <2>3, NothingAvailable DEF ChildAmounts, Slices, Nothing
  <2>5. AllocatorValue' + AllocatorLoss >= AllocatorValue - Native + tok[Allocator]
    <3>1. \A c \in Registered : Amount(Nothing, c) = 0 /\ pos[c] = position[c]
      BY <2>1 DEF Amount, Nothing
    <3> QED BY <2>1, <2>2, <2>4, <3>1, MoveFundsLoses
  <2>6. Rounding(s) = AllocatorLoss
    BY <1>1, RoundingOf
  <2>7. AllocatorValue - Native + tok[Allocator] = AllocatorValue + n
    BY <1>1, <2>1 DEF Native
  <2> QED BY <1>1, <2>5, <2>6, <2>7 DEF StrategyValue
<1>2. CASE s # Allocator
  <2>1. s \in Leaves /\ StrategiesTypeOK
    BY <1>2, HoldersApart DEF TypeOK
  <2>2. position'[s] = position[s] + Credit(s, n) /\ bRate' = bRate
    BY <1>2, <2>1 DEF StrategyDeposit, StrategiesTypeOK
  <2>3. StrategyValue(s) = Value(s) /\ StrategyValue(s)' = Value(s)'
    BY <1>2 DEF StrategyValue
  <2>4. Rounding(s) = LossOf(s)
    BY <2>1, RoundingOf
  <2> QED BY <2>1, <2>2, <2>3, <2>4, LeafSupplied
<1> QED BY <1>1, <1>2

(* What is paid out is taken from the value, and is not more than asked.   *)
LEMMA StrategyPaid ==
    ASSUME TypeOK, NEW amount \in Nat, NEW d \in StrategyDeliverable(active, amount),
           NEW u \in Users, PayOut(active, d, u), UNCHANGED <<allocatorVars, active>>
    PROVE  /\ TotalAssets' + Rounding(active) + d >= TotalAssets
           /\ d \in Nat /\ d <= amount
<1>1. /\ active \in VaultStrategies /\ StrategiesTypeOK /\ Typed
      /\ token \in [Holders -> Nat] /\ position \in [Leaves -> Nat]
  BY DEF TypeOK, StrategiesTypeOK, Typed
<1>2. d \in Nat
  BY <1>1, StrategyDeliveryType
<1>3. CASE active = Allocator
  <2>1. d <= amount /\ d <= Native
    BY <1>3 DEF StrategyDeliverable, AllocatorDeliverable
  <2>2. /\ position' = position /\ bRate' = bRate /\ Rounding(active) \in Nat
        /\ Allocator \in Holders /\ Vault \in Holders /\ u \in Holders
        /\ Allocator # Vault /\ Allocator # u /\ active \notin BlendStrategies
    BY <1>1, <1>3, HoldersApart, RoundingOf DEF PayOut, PositionsDelivered, Leaves
  <2>3. Native' = Native - d
    <3>1. token' = Transfer(Transfer(token, Allocator, Vault, d), Vault, u, d)
      BY <1>3, <2>2 DEF PayOut, TokensDelivered
    <3> QED BY <1>1, <1>2, <2>2, <3>1 DEF Transfer, Native
  <2>4. Total(ChildValues', Registered') = Total(ChildValues, Registered)
    <3>1. Registered' = Registered
      BY DEF allocatorVars, Registered
    <3>2. ChildValues' = ChildValues
      BY <2>2, <3>1 DEF ChildValues, ChildValue, Value, allocatorVars
    <3> QED BY <3>1, <3>2
  <2>5. Total(ChildValues, Registered) \in Nat /\ Native \in Nat
    <3>1. IsFiniteSet(Registered) /\ \A c \in Registered : ChildValues[c] \in Nat
      BY <1>1, ChildrenType, ChildValueType DEF Typed, ChildValues
    <3> QED BY <1>1, <3>1, TotalType, AllocatorValueType
  <2> QED BY <1>2, <1>3, <2>1, <2>2, <2>3, <2>4, <2>5 DEF TotalAssets, StrategyValue, AllocatorValue
<1>4. CASE active # Allocator
  <2>1. PICK s \in Leaves : s = active
    BY <1>1, <1>4, HoldersApart
  <2>2. d <= amount
    BY <1>4, <2>1, DeliveryType DEF StrategyDeliverable
  <2>3. position'[s] = position[s] - Debit(s, d) /\ bRate' = bRate
    BY <1>1, <1>4, <2>1 DEF PayOut, PositionsDelivered
  <2>4. Value(s)' + Rounding(s) + d >= Value(s)
    <3>1. Rounding(s) = LossOf(s)
      BY RoundingOf
    <3> QED BY <1>1, <1>2, <2>3, <3>1, LeafDelivered
  <2>5. TotalAssets = Value(s) /\ TotalAssets' = Value(s)'
    BY <1>4, <2>1 DEF TotalAssets, StrategyValue, Value
  <2> QED BY <1>2, <2>1, <2>2, <2>4, <2>5
<1> QED BY <1>3, <1>4
-------------------------------------------------------------------------------
(* The price of a share *)

(* What the vault reads is a natural number, before a step and after it.   *)
LEMMA AssetsType == Books => TotalAssets \in Nat
BY TotalAssetsType DEF Books, TypeOK, TotalAssets

LEMMA AssetsTypeNext == Books' => (TotalAssets \in Nat)'
BY AssetsType, PTL

(* Products of the greater are greater.                                    *)
LEMMA ProductGrows ==
    ASSUME NEW x \in Nat, NEW y \in Nat, NEW k \in Nat, x <= y
    PROVE  x * k <= y * k
<1>1. y - x \in Nat /\ y * k = x * k + (y - x) * k
  OBVIOUS
<1>2. (y - x) * k \in Nat /\ x * k \in Nat
  BY <1>1
<1> QED BY <1>1, <1>2

(* Shares that are issued for assets at the price, rounded down, leave it  *)
(* as it was: n assets for a strategy of a, with a supply of s shares.     *)
LEMMA IssuedAtPrice ==
    ASSUME NEW a \in Nat, NEW s \in Nat, NEW n \in Nat, NEW b \in Nat, b >= a + n
    PROVE  (b + VIRTUAL_ASSETS) * (s + VIRTUAL_SHARES)
               >= (a + VIRTUAL_ASSETS) * (s + ConvertToShares(n, a, s) + VIRTUAL_SHARES)
<1> DEFINE m == ConvertToShares(n, a, s)
           A == a + VIRTUAL_ASSETS
           S == s + VIRTUAL_SHARES
<1>1. A \in Nat \ {0} /\ S \in Nat \ {0} /\ VIRTUAL_ASSETS \in Nat /\ VIRTUAL_SHARES \in Nat
  BY VirtualOffsets
<1>2. m \in Nat /\ m * A <= n * S
  <2>1. n * S \in Nat /\ m = (n * S) \div A
    BY <1>1, ProductType DEF ConvertToShares
  <2> HIDE DEF A, S, m
  <2> QED BY <1>1, <2>1, DivisionBounds, QuotientType
<1> HIDE DEF m
<1>3. A + n <= b + VIRTUAL_ASSETS /\ A + n \in Nat /\ b + VIRTUAL_ASSETS \in Nat
  BY <1>1
<1>4. s + m + VIRTUAL_SHARES = S + m
  BY <1>1, <1>2
<1> HIDE DEF A, S
<1>5. (A + n) * S <= (b + VIRTUAL_ASSETS) * S
  BY <1>1, <1>3, ProductGrows
<1>6. (A + n) * S = A * S + n * S /\ A * (S + m) = A * S + m * A
  BY <1>1, <1>2
<1>7. A * S \in Nat /\ n * S \in Nat /\ m * A \in Nat /\ (b + VIRTUAL_ASSETS) * S \in Nat
  BY <1>1, <1>2, <1>3
<1>8. A * (S + m) <= (b + VIRTUAL_ASSETS) * S
  BY <1>2, <1>5, <1>6, <1>7
<1> QED BY <1>4, <1>8 DEF A, S, m

(* Shares that are burned for at most their price, rounded down, do not    *)
(* lower it for those that remain.                                         *)
LEMMA PaidAtPrice ==
    ASSUME NEW a \in Nat, NEW s \in Nat, NEW n \in Nat, n <= s, NEW b \in Nat,
           NEW d \in Nat, d <= ConvertToAssets(n, a, s), b + d >= a
    PROVE  (b + VIRTUAL_ASSETS) * (s + VIRTUAL_SHARES)
               >= (a + VIRTUAL_ASSETS) * (s - n + VIRTUAL_SHARES)
<1> DEFINE o == ConvertToAssets(n, a, s)
           A == a + VIRTUAL_ASSETS
           B == b + VIRTUAL_ASSETS
           S == s + VIRTUAL_SHARES
<1>1. /\ A \in Nat /\ B \in Nat /\ S \in Nat /\ VIRTUAL_ASSETS \in Nat /\ VIRTUAL_SHARES \in Nat
      /\ A <= B + d
  BY VirtualOffsets
<1>2. o \in Nat /\ o * S <= n * A
  BY ConversionsType, ConversionBound
<1>3. s - n + VIRTUAL_SHARES = S - n
  BY <1>1
<1> HIDE DEF o, A, B, S
<1>4. d * S <= o * S
  BY <1>1, <1>2, ProductGrows DEF o
<1>5. A * S <= (B + d) * S
  BY <1>1, ProductGrows
<1>6. (B + d) * S = B * S + d * S /\ A * (S - n) = A * S - n * A
  BY <1>1
<1>7. /\ A * S \in Nat /\ B * S \in Nat /\ d * S \in Nat /\ o * S \in Nat /\ n * A \in Nat
  BY <1>1, <1>2
<1>8. A * (S - n) <= B * S
  BY <1>2, <1>4, <1>5, <1>6, <1>7
<1> QED BY <1>3, <1>8 DEF A, B, S

(* Without either, the price follows the value.                            *)
LEMMA ValuedAtPrice ==
    ASSUME NEW a \in Nat, NEW s \in Nat, NEW b \in Nat, b >= a
    PROVE  (b + VIRTUAL_ASSETS) * (s + VIRTUAL_SHARES)
               >= (a + VIRTUAL_ASSETS) * (s + VIRTUAL_SHARES)
<1>1. a + VIRTUAL_ASSETS <= b + VIRTUAL_ASSETS
      /\ a + VIRTUAL_ASSETS \in Nat /\ b + VIRTUAL_ASSETS \in Nat /\ s + VIRTUAL_SHARES \in Nat
  BY VirtualOffsets
<1> QED BY <1>1, ProductGrows

(* A call that neither issues nor burns shares keeps the price if the      *)
(* strategy keeps its value.                                               *)
LEMMA PriceOfSameSupply ==
    ASSUME Books, Books', supply' = supply, NEW e \in Nat, TotalAssets' + e >= TotalAssets
    PROVE  PriceLowerByAtMost(e)
<1>1. TotalAssets \in Nat /\ TotalAssets' + e \in Nat /\ supply \in Nat
  BY AssetsType, AssetsTypeNext DEF Books, TypeOK
<1> QED BY <1>1, ValuedAtPrice DEF PriceLowerByAtMost

(* A deposit issues its shares at the price (deposit).                     *)
LEMMA DepositPrice ==
    ASSUME Books, Books', NEW u \in Users, NEW assets \in DepositAmounts, Deposit(u, assets)
    PROVE  PriceLowerByAtMost(Rounding(active))
<1> DEFINE tok == Transfer(token, u, active, assets)
           e == Rounding(active)
<1>1. /\ TypeOK /\ token \in [Holders -> Nat] /\ position \in [Leaves -> Nat] /\ assets \in Nat
      /\ TotalAssets \in Nat /\ TotalAssets' \in Nat /\ supply \in Nat /\ e \in Nat
  BY AssetsType, AssetsTypeNext, VaultConstants, RoundingOf DEF Books, TypeOK, StrategiesTypeOK
<1>2. PICK s \in VaultStrategies : s = active
  BY <1>1 DEF TypeOK
<1>3. /\ assets <= token[u] /\ StrategyDeposit(tok, position, s, assets)
      /\ UNCHANGED allocatorVars /\ active' = s
      /\ supply' = supply + ConvertToShares(assets, TotalAssets, supply)
  BY <1>2 DEF Deposit, MintShares, routeVars
<1>4. u \in Holders /\ s \in Holders /\ u # s
  BY <1>2, HoldersApart
<1>5. tok \in [Holders -> Nat] /\ tok[s] = token[s] + assets
  BY <1>1, <1>2, <1>3, <1>4, TransferType DEF Transfer
<1> HIDE DEF tok
<1>6. StrategyValue(s)' + Rounding(s) >= StrategyValue(s) + assets
  BY <1>1, <1>3, <1>5, StrategySupplied
<1>7. TotalAssets' + e >= TotalAssets + assets
  <2>1. TotalAssets = StrategyValue(s) /\ TotalAssets' = StrategyValue(s)'
    BY <1>2, <1>3 DEF TotalAssets, StrategyValue, Value
  <2> QED BY <1>2, <1>6, <2>1
<1>8. TotalAssets' + e \in Nat
  BY <1>1
<1> HIDE DEF e
<1>9. PriceLowerByAtMost(e)
  BY <1>1, <1>3, <1>7, <1>8, IssuedAtPrice DEF PriceLowerByAtMost
<1> QED BY <1>9 DEF e

(* A redemption burns its shares at the price or above (redeem,            *)
(* claim_redeem).                                                          *)
LEMMA RedemptionPrice ==
    ASSUME Books, Books', NEW u \in Users, NEW n \in Nat, n <= supply, PaysOut(n, u),
           supply' = supply - n, UNCHANGED <<allocatorVars, active>>
    PROVE  PriceLowerByAtMost(Rounding(active))
<1> DEFINE owed == ConvertToAssets(n, TotalAssets, supply)
           e == Rounding(active)
<1>1. /\ TypeOK /\ TotalAssets \in Nat /\ TotalAssets' \in Nat /\ supply \in Nat /\ e \in Nat
  BY AssetsType, AssetsTypeNext, RoundingOf DEF Books, TypeOK
<1>2. owed \in Nat
  BY <1>1, ConversionsType
<1>3. PICK d \in StrategyDeliverable(active, owed) : PayOut(active, d, u)
  BY DEF PaysOut
<1>4. d \in Nat /\ d <= owed /\ TotalAssets' + e + d >= TotalAssets
  <2> HIDE DEF owed
  <2> QED BY <1>1, <1>2, <1>3, StrategyPaid
<1>5. TotalAssets' + e \in Nat
  BY <1>1
<1> HIDE DEF e
<1>6. PriceLowerByAtMost(e)
  BY <1>1, <1>4, <1>5, PaidAtPrice DEF PriceLowerByAtMost
<1> QED BY <1>6 DEF e

(* Nothing a user does costs the others more than the rounding of the      *)
(* strategy that is active.                                                *)
LEMMA UserPrice ==
    ASSUME Books, Books', UserStep
    PROVE  PriceLowerByAtMost(Rounding(active))
<1>1. /\ \A u \in Users : AmountsOf(u) \subseteq Nat
      /\ ShareAmounts \subseteq Nat /\ Queued = DOMAIN pending
      /\ Rounding(active) \in Nat /\ TotalAssets \in Nat
  BY VaultConstants, HoldersApart, RoundingOf, AssetsType DEF AmountsOf, Books, TypeOK, Queued
<1>2. \A h \in ShareHolders : shares[h] \in Nat /\ shares[h] <= supply
  BY BooksParts, HoldersApart, TotalCovers DEF Parts, SharesKept, SharesTyped
<1>3. ASSUME NEW u \in Users, NEW n \in Nat, NEW minOut \in MinOuts, Redeem(u, n, minOut)
      PROVE  PriceLowerByAtMost(Rounding(active))
  <2>1. /\ n <= shares[u] /\ supply' = supply - n /\ UNCHANGED <<allocatorVars, active>>
        /\ PaysOut(n, u)
    BY <1>3 DEF Redeem, BurnShares, PaysOut, routeVars
  <2>2. n <= supply
    BY <1>2, <2>1, HoldersApart DEF Books, TypeOK
  <2> QED BY <2>1, <2>2, RedemptionPrice
<1>4. ASSUME NEW id \in Queued, ClaimRedeem(id) PROVE PriceLowerByAtMost(Rounding(active))
  <2> DEFINE n == pending[id].shares
             u == pending[id].owner
  <2>1. n \in Nat /\ u \in Users
    BY BooksParts, QueueFacts DEF Parts
  <2>2. /\ n <= shares[Vault] /\ supply' = supply - n /\ UNCHANGED <<allocatorVars, active>>
        /\ PaysOut(n, u)
    BY <1>4 DEF ClaimRedeem, BurnShares, PaysOut, routeVars
  <2> HIDE DEF n, u
  <2>3. n <= supply
    BY <1>2, <2>1, <2>2, HoldersApart DEF Books, TypeOK
  <2> QED BY <2>1, <2>2, <2>3, RedemptionPrice
<1>5. ASSUME UNCHANGED <<strategyVars, allocatorVars, routeVars>>, supply' = supply
      PROVE  PriceLowerByAtMost(Rounding(active))
  <2>1. TotalAssets' = TotalAssets
    BY <1>5 DEF TotalAssets, StrategyValue, AllocatorValue, ChildValues, ChildValue, Value,
       Native, Registered, strategyVars, allocatorVars, routeVars
  <2> QED BY <1>1, <1>5, <2>1, PriceOfSameSupply
<1>6. CASE RedeemStep
  BY <1>1, <1>3, <1>6 DEF RedeemStep
<1>7. CASE QueueStep
  BY <1>1, <1>4, <1>5, <1>7 DEF QueueStep, RequestRedeem, CancelRequest, MoveShares
<1>8. CASE ShareStep
  BY <1>5, <1>8, DepositPrice DEF ShareStep, TransferShares, MoveShares
<1> QED BY <1>6, <1>7, <1>8 DEF UserStep

(* Governance that moves no funds: a strategy is left by its pointer alone *)
(* only when it is empty (register_strategy, set_active_strategy).         *)
LEMMA PointerValue ==
    ASSUME Books, Books', NEW s \in VaultStrategies, RegisterStrategy(s) \/ SetActiveStrategy(s)
    PROVE  TotalAssets' >= TotalAssets
<1>1. TotalAssets \in Nat /\ TotalAssets' \in Nat
  BY AssetsType, AssetsTypeNext
<1>2. CASE RegisterStrategy(s)
  <2>1. TotalAssets' = TotalAssets
    BY <1>2 DEF RegisterStrategy, TotalAssets, StrategyValue, AllocatorValue, ChildValues,
       ChildValue, Value, Native, Registered, strategyVars, allocatorVars
  <2> QED BY <1>1, <2>1
<1>3. CASE SetActiveStrategy(s)
  BY <1>1, <1>3 DEF SetActiveStrategy
<1> QED BY <1>2, <1>3

(* What rebalance moves arrives, but for rounding, unless a pool holds it  *)
(* back.                                                                   *)
LEMMA GovernanceValue ==
    ASSUME Books, Books', GovernanceStep,
           ~(active \in BlendStrategies /\ \E s \in VaultStrategies : MoveTo(s))
    PROVE  TotalAssets' + Rounding(active)' >= TotalAssets
<1>1. /\ TypeOK /\ token \in [Holders -> Nat] /\ position \in [Leaves -> Nat]
      /\ TotalAssets \in Nat /\ TotalAssets' \in Nat /\ Rounding(active)' \in Nat
  BY AssetsType, AssetsTypeNext, RoundingNext DEF Books, TypeOK, StrategiesTypeOK
<1>2. PICK s \in VaultStrategies : RegisterStrategy(s) \/ SetActiveStrategy(s) \/ MoveTo(s)
  BY DEF GovernanceStep
<1>3. CASE RegisterStrategy(s) \/ SetActiveStrategy(s)
  <2>1. TotalAssets' >= TotalAssets
    BY <1>3, PointerValue
  <2>2. \A x, y, z \in Nat : y >= x => y + z >= x
    OBVIOUS
  <2> QED BY <1>1, <2>1, <2>2, Zenon
<1>4. CASE TotalAssets <= 0
  <2>1. \A x, y, z \in Nat : x <= 0 => y + z >= x
    OBVIOUS
  <2> QED BY <1>1, <1>4, <2>1, Zenon
<1>5. CASE MoveTo(s) /\ TotalAssets > 0
  <2>1. PICK a \in VaultStrategies : a = active
    BY <1>1 DEF TypeOK
  <2> DEFINE d == TotalAssets
             got == TokensDelivered(a, d)
             tok == Transfer(got, Vault, s, d)
             pos == PositionsDelivered(a, d)
  <2>2. \A x \in StrategyDeliverable(active, TotalAssets) : x = TotalAssets
    <3>1. a \notin BlendStrategies
      BY <1>5, <2>1
    <3> QED BY <2>1, <3>1, HoldersApart DEF StrategyDeliverable, AllocatorDeliverable, Deliverable, Leaves
  <2>3. /\ d \in StrategyDeliverable(a, d) /\ StrategyDeposit(tok, pos, s, d)
        /\ s # a /\ UNCHANGED allocatorVars /\ active' = s
    <3>1. PICK x \in StrategyDeliverable(active, TotalAssets) :
             StrategyDeposit(Transfer(TokensDelivered(active, x), Vault, s, x),
                             PositionsDelivered(active, x), s, x)
      BY <1>1, <1>5 DEF MoveTo
    <3>2. x = d /\ active = a
      BY <2>1, <2>2
    <3> HIDE DEF d
    <3>3. StrategyDeposit(tok, pos, s, d)
      BY <3>1, <3>2
    <3>4. d \in StrategyDeliverable(a, d)
      BY <2>1, <3>1, <3>2 DEF d
    <3> QED BY <1>5, <2>1, <3>3, <3>4 DEF MoveTo
  <2>4. /\ d \in Nat /\ got \in [Holders -> Nat] /\ got[Vault] = token[Vault] + d
        /\ pos \in [Leaves -> Nat]
    BY <1>1, <2>1, <2>3, StrategyDeliveryType
  <2>5. token[Vault] \in Nat /\ Vault \in Holders /\ s \in Holders /\ s # Vault
    BY <1>1, HoldersApart
  <2>6. s = Allocator => got[s] = token[s]
    <3>1. s = Allocator => a \in Leaves /\ a \notin BlendStrategies /\ a # s
      BY <1>5, <2>1, <2>3, HoldersApart
    <3> QED BY <1>1, <2>5, <3>1, HoldersApart DEF TokensDelivered, Transfer
  <2>7. /\ s # Allocator => pos[s] = position[s]
        /\ \A c \in Children : pos[c] = position[c]
    <3>1. a \notin Children /\ Children \subseteq Leaves
      BY <2>1, AllocatorConstants, HoldersApart DEF VaultStrategies
    <3>2. s # Allocator => s \in Leaves
      BY HoldersApart
    <3> QED BY <1>1, <2>3, <3>1, <3>2 DEF PositionsDelivered
  <2> HIDE DEF d, got, pos
  <2>8. tok \in [Holders -> Nat] /\ tok[s] = got[s] + d
    BY <2>4, <2>5, TransferType DEF Transfer
  <2> HIDE DEF tok
  <2>9. StrategyValue(s)' + Rounding(s) >= StrategyValue(s) + d
    BY <1>1, <2>3, <2>4, <2>6, <2>7, <2>8, StrategySupplied
  <2>10. Rounding(s) \in Nat /\ StrategyValue(s) \in Nat
    BY <1>1, TotalAssetsType, RoundingOf
  <2>11. TotalAssets' = StrategyValue(s)'
    BY <2>3 DEF TotalAssets, StrategyValue, Value
  <2>12. Rounding(active)' = Rounding(s)
    <3>1. bRate' = bRate
      BY <2>3 DEF StrategyDeposit, AllocatorDeposit, MoveFunds
    <3> QED BY <2>3, <3>1 DEF Rounding, Pools, Dust, Registered, allocatorVars
  <2> QED BY <1>1, <2>4, <2>9, <2>10, <2>11, <2>12 DEF d
<1> QED BY <1>1, <1>2, <1>3, <1>4, <1>5

(* Yield raises values (inject_yield; the rate of a pool never falls).     *)
LEMMA YieldValue ==
    ASSUME Books, Books', YieldStep
    PROVE  TotalAssets' >= TotalAssets
<1>1. /\ TypeOK /\ Typed /\ Typed' /\ MockStrategies \subseteq Leaves /\ Registered \subseteq Leaves
      /\ token \in [Holders -> Nat] /\ position \in [Leaves -> Nat]
      /\ bRate \in Nat /\ SCALAR_12 \in Nat \ {0} /\ Native \in Nat
  BY BooksParts, RateType, ChildrenType, AllocatorValueType
     DEF Books, TypeOK, Typed, StrategiesTypeOK, Leaves, Parts
<1>2. /\ UNCHANGED <<allocatorVars, active>> /\ Registered' = Registered
      /\ \A c \in Leaves : position'[c] >= position[c]
      /\ bRate' \in Nat /\ bRate' >= bRate /\ Native' = Native
  <2>1. UNCHANGED <<allocatorVars, active>> /\ Registered' = Registered
    BY DEF YieldStep, allocatorVars, routeVars, Registered
  <2>2. ASSUME NEW m \in MockStrategies, NEW n \in YieldAmounts, InjectYield(m, n)
        PROVE  /\ \A c \in Leaves : position'[c] >= position[c]
               /\ bRate' = bRate /\ Native' = Native
    BY <1>1, <2>2, VaultConstants DEF InjectYield, Native
  <2>3. ASSUME NEW m \in MockStrategies, Mint(m, position[m] - token[m])
        PROVE  position' = position /\ bRate' = bRate /\ Native' = Native
    BY <1>1, <2>3, HoldersApart DEF Mint, Native
  <2>4. ASSUME AccrueInterest
        PROVE  position' = position /\ bRate' = bRate + 1 /\ Native' = Native
    BY <2>4 DEF AccrueInterest, Native
  <2> QED BY <1>1, <2>1, <2>2, <2>3, <2>4 DEF YieldStep
<1>3. ASSUME NEW c \in Leaves PROVE Value(c)' >= Value(c)
  <2> DEFINE p == position[c]
             q == position'[c]
  <2>1. p \in Nat /\ q \in Nat /\ q >= p
    BY <1>1, <1>2 DEF Typed, StrategiesTypeOK
  <2> HIDE DEF p, q
  <2>2. (p * bRate) \div SCALAR_12 <= (q * bRate') \div SCALAR_12
    <3> DEFINE k == (p * bRate) \div SCALAR_12
    <3>1. p * bRate \in Nat /\ q * bRate \in Nat /\ q * bRate' \in Nat
      BY <1>1, <1>2, <2>1, ProductType
    <3>2. p * bRate <= q * bRate
      BY <1>1, <2>1, ProductGrows
    <3>3. bRate * q <= bRate' * q
      BY <1>1, <1>2, <2>1, ProductGrows
    <3>4. k \in Nat /\ k * SCALAR_12 <= p * bRate
      BY <1>1, <3>1, DivisionBounds, QuotientType
    <3> HIDE DEF k
    <3>5. k * SCALAR_12 \in Nat /\ bRate * q = q * bRate /\ bRate' * q = q * bRate'
      BY <1>1, <1>2, <2>1, <3>4
    <3>6. k * SCALAR_12 <= q * bRate'
      BY <3>1, <3>2, <3>3, <3>4, <3>5
    <3> QED BY <1>1, <3>1, <3>4, <3>6, DivisionGreatest DEF k
  <2> QED BY <2>1, <2>2 DEF Value, p, q
<1>4. CASE active = Allocator
  <2>1. \A c \in Registered : ChildValue(c)' >= ChildValue(c)
    BY <1>1, <1>2, <1>3 DEF ChildValue, allocatorVars
  <2>2. AllocatorValue' >= AllocatorValue
    BY <1>1, <1>2, <2>1, ValueGrows
  <2> QED BY <1>2, <1>4, <2>2 DEF TotalAssets, StrategyValue
<1>5. CASE active # Allocator
  <2>1. PICK s \in Leaves : s = active
    BY <1>1, <1>5, HoldersApart DEF TypeOK
  <2>2. TotalAssets = Value(s) /\ TotalAssets' = Value(s)'
    BY <1>2, <1>5, <2>1 DEF TotalAssets, StrategyValue, Value
  <2> QED BY <1>3, <2>2
<1> QED BY <1>4, <1>5

(* Below the vault, but for rounding, only a child that is forced out, or  *)
(* that starts to trap, lowers the value.                                  *)
LEMMA BelowValue ==
    ASSUME Books, Books', KeeperStep \/ YieldStep \/ TroubleStep
    PROVE  \/ TotalAssets' + Rounding(active)' >= TotalAssets
           \/ \E c \in Evictable : ForceRemoveChild(c)
           \/ \E c \in Fragile : Wedge(c)
<1>1. /\ TotalAssets \in Nat /\ TotalAssets' \in Nat /\ Rounding(active)' \in Nat
      /\ \A x, y, z \in Nat : y >= x => y + z >= x
  BY AssetsType, AssetsTypeNext, RoundingNext
<1>2. CASE YieldStep
  <2>1. TotalAssets' >= TotalAssets
    BY <1>2, YieldValue
  <2> QED BY <1>1, <2>1, Zenon
<1>3. CASE KeeperStep \/ TroubleStep
  <2>1. /\ Typed /\ Typed' /\ UNCHANGED active /\ active \in VaultStrategies
        /\ (AdminStep \/ ChildTrouble) /\ TypeOK /\ TypeOK'
    BY <1>3, BooksParts DEF KeeperStep, TroubleStep, Parts, Typed, routeVars, RouteTyped, Books
  <2>2. CASE active = Allocator
    <3>1. TotalAssets = AllocatorValue /\ TotalAssets' = AllocatorValue'
      BY <2>1, <2>2 DEF TotalAssets, StrategyValue
    <3>2. Rounding(active)' = AllocatorLoss'
      BY <2>1, <2>2, RoundingNext DEF Rounding, Pools
    <3> QED BY <2>1, <3>1, <3>2, AdminLoses
  <2>3. CASE active # Allocator
    <3>1. PICK s \in Leaves \ Children : s = active
      BY <2>1, <2>3 DEF VaultStrategies
    <3>2. TotalAssets = Value(s) /\ TotalAssets' = Value(s)'
      BY <2>1, <2>3, <3>1 DEF TotalAssets, StrategyValue, Value
    <3>3. Value(s)' = Value(s)
      BY <2>1, AdminLeavesOthers DEF Value
    <3>4. TotalAssets' >= TotalAssets
      BY <1>1, <3>2, <3>3
    <3> QED BY <1>1, <3>4, Zenon
  <2> QED BY <2>2, <2>3
<1> QED BY <1>2, <1>3

\* The steps by which the vault's assets may get lost to it.
Loses == \/ \E c \in Evictable : ForceRemoveChild(c)
         \/ \E c \in Fragile : Wedge(c)

\* The step by which a pool may hold assets back.
HoldsBack == active \in BlendStrategies /\ \E s \in VaultStrategies : MoveTo(s)

(* Every step keeps the price but for rounding, or loses assets to the     *)
(* vault, or leaves some behind.                                           *)
LEMMA StepPrice ==
    ASSUME Books, Books', Next
    PROVE  PriceLowerByAtMost(Rounding(active)') \/ Loses \/ HoldsBack
<1>1. Rounding(active)' \in Nat
  BY RoundingNext
<1>2. CASE UserStep
  <2>1. UNCHANGED <<allocatorVars, active, bRate>>
    BY <1>2 DEF UserStep, RedeemStep, QueueStep, ShareStep, Redeem, RequestRedeem, ClaimRedeem,
       CancelRequest, Deposit, TransferShares, PayOut, StrategyDeposit, AllocatorDeposit,
       MoveFunds, routeVars, strategyVars
  <2>2. Rounding(active)' = Rounding(active)
    BY <2>1 DEF Rounding, Pools, Dust, Registered, allocatorVars
  <2> QED BY <1>2, <2>2, UserPrice
<1>3. CASE GovernanceStep /\ ~HoldsBack
  <2>1. supply' = supply
    BY <1>3 DEF GovernanceStep, RegisterStrategy, SetActiveStrategy, MoveTo, shareVars
  <2>2. TotalAssets' + Rounding(active)' >= TotalAssets
    BY <1>3, GovernanceValue DEF HoldsBack
  <2> QED BY <1>1, <2>1, <2>2, PriceOfSameSupply
<1>4. CASE KeeperStep \/ YieldStep \/ TroubleStep
  <2>1. supply' = supply
    BY <1>4 DEF KeeperStep, YieldStep, TroubleStep, shareVars
  <2>2. CASE TotalAssets' + Rounding(active)' >= TotalAssets
    BY <1>1, <2>1, <2>2, PriceOfSameSupply
  <2> QED BY <1>4, <2>2, BelowValue DEF Loses
<1> QED BY <1>2, <1>3, <1>4 DEF Next

(* Without Blend strategies nothing is rounded away or held back.          *)
LEMMA NothingRounded ==
    ASSUME Books, Books', BlendStrategies = {}, Next
    PROVE  PriceLowerByAtMost(0) \/ Loses
<1>1. Rounding(active)' = 0
  <2>1. Pools(active)' = {} /\ Cardinality({}) = 0
    BY FS_EmptySet DEF Pools
  <2>2. Dust' \in Nat
    BY RoundingNext
  <2>3. \A n \in Nat : 0 * n = 0
    OBVIOUS
  <2>4. 0 * Dust' = 0
    BY <2>2, <2>3, Zenon
  <2> QED BY <2>1, <2>4 DEF Rounding
<1> QED BY <1>1, StepPrice DEF HoldsBack

(* Price-per-share never falls, whoever calls what, while the strategies   *)
(* deliver what they report: the exceptions of PriceNeverFalls are all     *)
(* there are.  A Blend strategy does not: it rounds.                       *)
THEOREM SharePriceNeverFalls ==
    ASSUME BlendStrategies = {}
    PROVE  Spec => PriceNeverFalls
<1>1. Books /\ [Next]_vars =>
        [\/ \E c \in Children : ForceRemoveChild(c) \/ Wedge(c)
         \/ ~(StrategyReadable(active) /\ StrategyReadable(active)')
         \/ PriceNotLower]_vars
  <2> SUFFICES ASSUME Books, Next
               PROVE  (\E c \in Children : ForceRemoveChild(c) \/ Wedge(c)) \/ PriceNotLower
    OBVIOUS
  <2>1. Books'
    BY StepKeepsBooks
  <2>2. PriceLowerByAtMost(0) \/ Loses
    BY <2>1, NothingRounded
  <2>3. PriceLowerByAtMost(0) => PriceNotLower
    <3>1. \A b \in Nat : b + 0 = b
      OBVIOUS
    <3>2. TotalAssets' + 0 = TotalAssets'
      BY <2>1, <3>1, AssetsTypeNext, Zenon
    <3> QED BY <3>2 DEF PriceLowerByAtMost, PriceNotLower
  <2>4. Loses => \E c \in Children : ForceRemoveChild(c) \/ Wedge(c)
    BY AllocatorConstants DEF Loses
  <2> QED BY <2>2, <2>3, <2>4
<1> QED BY <1>1, InitBooks, StepKeepsBooks, PTL DEF Spec, PriceNeverFalls

-------------------------------------------------------------------------------
(* Requests that wait keep their worth *)

(* Shares worth a minimum stay worth it when the price does not fall.      *)
LEMMA WorthKept ==
    ASSUME NEW a \in Nat, NEW s \in Nat, NEW b \in Nat, NEW t \in Nat,
           (b + VIRTUAL_ASSETS) * (s + VIRTUAL_SHARES) >= (a + VIRTUAL_ASSETS) * (t + VIRTUAL_SHARES),
           NEW n \in Nat, NEW m \in Nat, ConvertToAssets(n, a, s) >= m
    PROVE  ConvertToAssets(n, b, t) >= m
<1> DEFINE A == a + VIRTUAL_ASSETS
           B == b + VIRTUAL_ASSETS
           S == s + VIRTUAL_SHARES
           T == t + VIRTUAL_SHARES
           o == ConvertToAssets(n, a, s)
<1>1. A \in Nat \ {0} /\ B \in Nat \ {0} /\ S \in Nat \ {0} /\ T \in Nat \ {0}
  BY VirtualOffsets
<1>2. o \in Nat /\ m <= o /\ o * S <= n * A
  BY ConversionsType, ConversionBound
<1>3. B * S >= A * T
  OBVIOUS
<1>4. ConvertToAssets(n, b, t) = (n * B) \div T
  BY DEF ConvertToAssets
<1> HIDE DEF A, B, S, T, o
<1>5. m * S <= n * A
  <2>1. m * S <= o * S
    BY <1>1, <1>2, ProductGrows
  <2> QED BY <1>1, <1>2, <2>1, ProductType
<1>6. (m * T) * S <= (n * B) * S
  <2>1. (m * S) * T <= (n * A) * T
    BY <1>1, <1>5, ProductGrows, ProductType
  <2>2. (A * T) * n <= (B * S) * n
    BY <1>1, <1>3, ProductGrows, ProductType
  <2>3. /\ (m * S) * T = (m * T) * S
        /\ (n * A) * T = (A * T) * n
        /\ (B * S) * n = (n * B) * S
    BY <1>1
  <2>4. /\ (m * S) * T \in Nat /\ (A * T) * n \in Nat /\ (B * S) * n \in Nat
    BY <1>1, ProductType
  <2> QED BY <2>1, <2>2, <2>3, <2>4
<1>7. m * T <= n * B
  <2> DEFINE x == m * T
             y == n * B
  <2>1. x \in Nat /\ y \in Nat /\ x * S <= y * S
    BY <1>1, <1>6, ProductType
  <2> HIDE DEF x, y
  <2>2. ASSUME y < x PROVE FALSE
    <3>1. (y + 1) * S <= x * S
      BY <1>1, <2>1, <2>2, ProductGrows
    <3>2. (y + 1) * S = y * S + S /\ y * S \in Nat /\ x * S \in Nat
      BY <1>1, <2>1, ProductType
    <3> QED BY <1>1, <2>1, <3>1, <3>2
  <2> QED BY <2>1, <2>2 DEF x, y
<1>8. m <= (n * B) \div T
  <2>1. n * B \in Nat
    BY <1>1, ProductType
  <2> QED BY <1>1, <1>7, <2>1, DivisionGreatest
<1>9. (n * B) \div T \in Nat
  BY <1>1, ProductType, QuotientType
<1> QED BY <1>4, <1>8, <1>9

(* A request is taken in when it is worth the minimum, and changes nothing *)
(* else; every other call leaves the requests that stay as they are.       *)
LEMMA RequestsKept ==
    ASSUME Books, [Next]_vars, NEW id \in Queued', id \notin Queued \/ pending'[id] # pending[id]
    PROVE  /\ ConvertToAssets(pending'[id].shares, TotalAssets, supply) >= MIN_REDEEM_ASSETS
           /\ UNCHANGED <<strategyVars, allocatorVars, routeVars, supply>>
<1>1. ~UNCHANGED pending
  BY DEF Queued
<1>2. ASSUME NEW x, Dequeue(x) PROVE FALSE
  BY <1>2 DEF Queued, Dequeue
<1>3. PICK u \in Users :
         \E amount \in AmountsOf(u), minOut \in MinOuts : RequestRedeem(u, amount, minOut)
  <2>1. CASE QueueStep
    BY <1>2, <2>1 DEF QueueStep, ClaimRedeem, CancelRequest
  <2>2. ASSUME Next, ~QueueStep PROVE UNCHANGED pending
    BY <2>2 DEF Next, UserStep, RedeemStep, Redeem, ShareStep, Deposit, TransferShares,
       GovernanceStep, RegisterStrategy, SetActiveStrategy, MoveTo, KeeperStep, YieldStep,
       TroubleStep, queueVars
  <2>3. UNCHANGED vars => UNCHANGED pending
    BY DEF vars, queueVars
  <2> QED BY <1>1, <2>1, <2>2, <2>3
<1>4. PICK n \in AmountsOf(u), minOut \in MinOuts : RequestRedeem(u, n, minOut)
  BY <1>3
<1>5. id = nextRequestId /\ pending'[id].shares = n
  BY <1>4 DEF RequestRedeem, Queued
<1> QED BY <1>4, <1>5 DEF RequestRedeem, MoveShares

(* In a vault whose strategies deliver what they report, answer, and are   *)
(* not forced out, every queued request stays worth claiming.              *)
THEOREM RequestsStayWorthClaiming ==
    ASSUME BlendStrategies = {}, Fragile = {}, Evictable = {}
    PROVE  Spec => []QueuedStayWorthClaiming
<1>1. Init => QueuedStayWorthClaiming
  BY DEF Init, QueuedStayWorthClaiming, Queued
<1>2. Books /\ QueuedStayWorthClaiming /\ [Next]_vars => QueuedStayWorthClaiming'
  <2> SUFFICES ASSUME Books, QueuedStayWorthClaiming, [Next]_vars, NEW id \in Queued'
               PROVE  (ConvertToAssets(pending[id].shares, TotalAssets, supply)
                           >= MIN_REDEEM_ASSETS)'
    BY DEF QueuedStayWorthClaiming
  <2>1. /\ Books' /\ TotalAssets \in Nat /\ TotalAssets' \in Nat /\ supply \in Nat /\ supply' \in Nat
        /\ MIN_REDEEM_ASSETS \in Nat
    BY StepKeepsBooks, AssetsType, AssetsTypeNext, VaultConstants DEF Books, TypeOK
  <2>2. CASE id \in Queued /\ pending'[id] = pending[id] /\ Next
    <3>1. PriceLowerByAtMost(0)
      BY <2>1, <2>2, NothingRounded DEF Loses
    <3>2. pending[id].shares \in Nat
      BY <2>2, BooksParts, QueueFacts DEF Parts
    <3>3. ConvertToAssets(pending[id].shares, TotalAssets, supply) >= MIN_REDEEM_ASSETS
      BY <2>2 DEF QueuedStayWorthClaiming
    <3>4. (TotalAssets' + VIRTUAL_ASSETS) * (supply + VIRTUAL_SHARES)
              >= (TotalAssets + VIRTUAL_ASSETS) * (supply' + VIRTUAL_SHARES)
      <4>1. \A b \in Nat : b + 0 = b
        OBVIOUS
      <4>2. TotalAssets' + 0 = TotalAssets'
        BY <2>1, <4>1, Zenon
      <4> QED BY <3>1, <4>2 DEF PriceLowerByAtMost
    <3>5. ConvertToAssets(pending[id].shares, TotalAssets', supply') >= MIN_REDEEM_ASSETS
      BY <2>1, <3>2, <3>3, <3>4, WorthKept
    <3> QED BY <2>2, <3>5 DEF ConvertToAssets
  <2>3. CASE UNCHANGED <<strategyVars, allocatorVars, routeVars, supply>>
    <3>1. TotalAssets' = TotalAssets
      BY <2>3 DEF TotalAssets, StrategyValue, AllocatorValue, ChildValues, ChildValue, Value,
         Native, Registered, strategyVars, allocatorVars, routeVars
    <3>2. ConvertToAssets(pending'[id].shares, TotalAssets, supply) >= MIN_REDEEM_ASSETS
      BY RequestsKept DEF QueuedStayWorthClaiming
    <3> QED BY <2>3, <3>1, <3>2 DEF ConvertToAssets
  <2>4. UNCHANGED vars => UNCHANGED <<strategyVars, allocatorVars, routeVars, supply>>
    BY DEF vars, shareVars
  <2> QED BY <2>2, <2>3, <2>4, RequestsKept
<1> QED BY <1>1, <1>2, InitBooks, StepKeepsBooks, PTL DEF Spec

-------------------------------------------------------------------------------
(* What Blend's rounding may cost *)

(* A call costs the holders the dust of one rounding at each pool position *)
(* it changes, whoever makes it and whatever the pools deliver: the        *)
(* exceptions of LossIsDust are all there are.                             *)
THEOREM LossesAreDust == Spec => LossIsDust
<1>1. Books /\ [Next]_vars =>
        [\/ active \in BlendStrategies /\ \E s \in VaultStrategies : MoveTo(s)
         \/ \E c \in Children : ForceRemoveChild(c) \/ Wedge(c)
         \/ PriceLowerByAtMost(Rounding(active)')]_vars
  <2> SUFFICES ASSUME Books, Next
               PROVE  \/ HoldsBack
                      \/ \E c \in Children : ForceRemoveChild(c) \/ Wedge(c)
                      \/ PriceLowerByAtMost(Rounding(active)')
    BY DEF HoldsBack
  <2>1. Books'
    BY StepKeepsBooks
  <2>2. Loses => \E c \in Children : ForceRemoveChild(c) \/ Wedge(c)
    BY AllocatorConstants DEF Loses
  <2> QED BY <2>1, <2>2, StepPrice
<1> QED BY <1>1, InitBooks, StepKeepsBooks, PTL DEF Spec, LossIsDust

-------------------------------------------------------------------------------
(* Failing closed *)

(* No share is minted or burned while a child that backs the price cannot  *)
(* be read (deposit, redeem, claim_redeem read it first).                  *)
THEOREM NothingIsPricedBlind == Spec => NoSharesPricedBlind
<1>1. [Next]_vars =>
        [(supply' # supply /\ active = Allocator)
            => \A c \in Registered : slots[c].authoritative => c \notin wedged]_vars
  <2> SUFFICES ASSUME Next, supply' # supply, active = Allocator
               PROVE  Readable
    BY DEF Readable
  <2>1. StrategyReadable(active) => Readable
    BY DEF StrategyReadable
  <2>2. CASE UserStep
    <3>1. StrategyReadable(active)
      BY <2>2 DEF UserStep, RedeemStep, Redeem, QueueStep, RequestRedeem, ClaimRedeem, CancelRequest,
         ShareStep, Deposit, TransferShares, MoveShares
    <3> QED BY <2>1, <3>1
  <2>3. Next /\ ~UserStep => supply' = supply
    BY DEF Next, GovernanceStep, RegisterStrategy, SetActiveStrategy, MoveTo, KeeperStep,
       YieldStep, TroubleStep, shareVars
  <2> QED BY <2>2, <2>3
<1> QED BY <1>1, PTL DEF Spec, NoSharesPricedBlind

-------------------------------------------------------------------------------
(* Where the funds are *)

\* A strategy that holds nothing: more than one that is worth nothing, which
\* a child that does not answer may be as well.
Idle(s) == IF s = Allocator
           THEN Native = 0 /\ \A c \in Children : position[c] = 0
           ELSE position[s] = 0

\* All funds are with the active strategy, and within the allocator with
\* children it can see.
Gathered ==
    /\ \A s \in VaultStrategies \ {active} : Idle(s)
    /\ EmptyOutside
    /\ AuthoritativeIn(Fragile)

(* A strategy that holds nothing is worth nothing.                         *)
LEMMA IdleIsWorthless ==
    ASSUME TypeOK, NEW s \in VaultStrategies, Idle(s)
    PROVE  StrategyValue(s) = 0
<1>1. ASSUME NEW c \in Leaves, position[c] = 0 PROVE Value(c) = 0
  <2>1. \A r \in Nat, d \in Nat \ {0} : (0 * r) \div d = 0
    OBVIOUS
  <2> QED BY <1>1, <2>1, RateType DEF Value, TypeOK
<1>2. CASE s = Allocator
  <2>1. Registered \subseteq Children /\ Registered \subseteq Leaves
    BY ChildrenType DEF TypeOK
  <2>2. \A c \in Registered : ChildValues[c] = 0
    BY <1>1, <1>2, <2>1 DEF Idle, ChildValues, ChildValue
  <2> QED BY <1>2, <2>2, TotalZero DEF Idle, StrategyValue, AllocatorValue
<1>3. CASE s # Allocator
  <2>1. PICK c \in Leaves : c = s
    BY <1>3, HoldersApart
  <2>2. Value(c) = 0
    BY <1>1, <1>3, <2>1 DEF Idle
  <2> QED BY <1>3, <2>1, <2>2 DEF StrategyValue
<1> QED BY <1>2, <1>3

(* The active strategy, when it can be read and is worth nothing, holds    *)
(* nothing.                                                                *)
LEMMA WorthlessIsIdle ==
    ASSUME TypeOK, Gathered, Evictable = {}, NEW s \in VaultStrategies,
           StrategyReadable(s), StrategyValue(s) <= 0
    PROVE  Idle(s)
<1>1. StrategyValue(s) \in Nat
  BY TotalAssetsType
<1>2. CASE s = Allocator
  <2>1. /\ Readable /\ Typed /\ EmptyOutside /\ AuthoritativeIn(Fragile)
        /\ AllocatorValue <= 0 /\ AllocatorValue \in Nat /\ Native \in Nat
    BY <1>1, <1>2, AllocatorValueType DEF StrategyReadable, StrategyValue, Gathered, TypeOK, Typed
  <2>2. AllocatorValue <= Native
    BY <2>1
  <2>3. AllocatorValue = Native /\ \A c \in Children : position[c] = 0
    BY <2>1, <2>2, BufferIsAll
  <2> QED BY <1>2, <2>1, <2>3 DEF Idle
<1>3. CASE s # Allocator
  <2>1. PICK c \in Leaves : c = s
    BY <1>3, HoldersApart
  <2>2. Value(c) = 0
    BY <1>1, <1>3, <2>1 DEF StrategyValue
  <2> QED BY <1>3, <2>1, <2>2, WorthNothing DEF Idle, TypeOK
<1> QED BY <1>2, <1>3

(* A deposit with one strategy leaves the others alone (s.deposit).        *)
LEMMA DepositLeavesOthers ==
    ASSUME TypeOK, EmptyOutside, NEW s \in VaultStrategies, NEW n \in Nat,
           NEW tok \in [Holders -> Nat], NEW pos \in [Leaves -> Nat],
           \A c \in Children : pos[c] = position[c],
           StrategyDeposit(tok, pos, s, n), UNCHANGED allocatorVars
    PROVE  /\ EmptyOutside'
           /\ \A x \in VaultStrategies \ {s, Allocator} : position'[x] = pos[x]
           /\ s # Allocator => /\ Native' = tok[Allocator]
                              /\ \A c \in Children : position'[c] = pos[c]
<1>1. /\ Children \subseteq Leaves /\ Registered \subseteq Children /\ Typed
      /\ VaultStrategies \ {s, Allocator} \subseteq Leaves \ (Children \union {s})
      /\ Allocator \in Holders
  BY ChildrenType, AllocatorConstants, HoldersApart DEF TypeOK, Typed, VaultStrategies
<1>2. CASE s = Allocator
  <2>1. MoveFunds(tok, pos, Nothing, Slices(n)) /\ UNCHANGED slots
    BY <1>2 DEF StrategyDeposit, AllocatorDeposit, allocatorVars
  <2>2. DOMAIN Nothing = {} /\ DOMAIN Slices(n) = Registered
    BY DEF Nothing, Slices
  <2>3. DOMAIN Nothing \subseteq Registered /\ DOMAIN Slices(n) \subseteq Registered
    BY <2>2
  <2>4. EmptyOutside'
    BY <1>1, <2>1, <2>3, MovesKeepOutside
  <2>5. ASSUME NEW x \in Leaves \ Children PROVE position'[x] = pos[x]
    <3>1. Amount(Nothing, x) = 0 /\ Amount(Slices(n), x) = 0
      BY <1>1, <2>2 DEF Amount
    <3> QED BY <1>1, <2>1, <3>1, MoveFundsLeaves DEF TypeOK
  <2> QED BY <1>1, <1>2, <2>4, <2>5
<1>3. CASE s # Allocator
  <2>1. s \in Leaves \ Children
    BY <1>3 DEF VaultStrategies
  <2>2. /\ token' = [tok EXCEPT ![s] = @ - n + Kept(s, n)]
        /\ position' = [pos EXCEPT ![s] = @ + Credit(s, n)]
    BY <1>3 DEF StrategyDeposit
  <2>3. \A x \in Leaves \ {s} : position'[x] = pos[x]
    BY <2>2
  <2>4. Native' = tok[Allocator]
    BY <1>1, <1>3, <2>2 DEF Native
  <2>5. EmptyOutside'
    BY <1>1, <2>1, <2>3 DEF EmptyOutside, Registered, allocatorVars
  <2> QED BY <1>1, <2>1, <2>3, <2>4, <2>5
<1> QED BY <1>2, <1>3

(* The basket keeps its authoritative children under every call.           *)
LEMMA AuthorityKept ==
    ASSUME Books, Gathered, RegisteredAsAuthoritative(Fragile), Next
    PROVE  AuthoritativeIn(Fragile)'
<1>1. CASE UNCHANGED slots
  BY <1>1 DEF AuthoritativeIn, Registered, Gathered
<1>2. CASE KeeperStep
  BY <1>2, AuthoritativeStep DEF KeeperStep, Gathered, Books, TypeOK, Typed
<1>3. ASSUME ~KeeperStep PROVE UNCHANGED slots
  BY <1>3 DEF Next, UserStep, RedeemStep, Redeem, QueueStep, RequestRedeem, ClaimRedeem,
     CancelRequest, ShareStep, Deposit, TransferShares, GovernanceStep, RegisterStrategy,
     SetActiveStrategy, MoveTo, YieldStep, TroubleStep, ChildTrouble, Wedge, Recover, allocatorVars
<1> QED BY <1>1, <1>2, <1>3

\* What is left of Gathered.
Apart == (\A s \in VaultStrategies \ {active} : Idle(s)) /\ EmptyOutside

(* Where no strategy is touched, nothing is.                               *)
LEMMA UntouchedApart ==
    ASSUME Gathered, UNCHANGED <<strategyVars, allocatorVars, active>>
    PROVE  Apart'
<1>1. \A s : Idle(s)' <=> Idle(s)
  BY DEF Idle, Native, strategyVars
<1>2. EmptyOutside'
  BY DEF Gathered, EmptyOutside, Registered, strategyVars, allocatorVars
<1> QED BY <1>1, <1>2 DEF Gathered, Apart

(* A redemption draws from the active strategy alone (redeem, claim_redeem). *)
LEMMA PaymentApart ==
    ASSUME Books, Gathered, NEW u \in Users, NEW n \in Nat, PaysOut(n, u),
           UNCHANGED <<allocatorVars, active>>
    PROVE  Apart'
<1> DEFINE owed == ConvertToAssets(n, TotalAssets, supply)
<1>1. /\ TypeOK /\ active \in VaultStrategies /\ owed \in Nat /\ Children \subseteq Leaves
      /\ token \in [Holders -> Nat] /\ position \in [Leaves -> Nat]
  BY AssetsType, ConversionsType, AllocatorConstants DEF Books, TypeOK, StrategiesTypeOK
<1> HIDE DEF owed
<1>2. PICK a \in VaultStrategies : a = active
  BY <1>1
<1>3. PICK d \in StrategyDeliverable(a, owed) : PayOut(a, d, u)
  BY <1>2 DEF PaysOut, owed
<1>4. \A x \in Leaves \ {a} : position'[x] = position[x]
  BY <1>1, <1>3 DEF PayOut, PositionsDelivered
<1>5. a = Allocator => UNCHANGED position
  BY <1>3 DEF PayOut, PositionsDelivered
<1>6. a # Allocator => a \in Leaves \ Children /\ Native' = Native
  <2> SUFFICES ASSUME a # Allocator PROVE a \in Leaves \ Children /\ Native' = Native
    OBVIOUS
  <2>1. a \in Leaves \ Children /\ Allocator \in Holders /\ Allocator \notin {a, u, Vault}
    BY <1>2, HoldersApart DEF VaultStrategies
  <2> QED BY <1>1, <1>3, <2>1 DEF PayOut, TokensDelivered, Transfer, Native
<1>7. \A s \in VaultStrategies \ {a} : Idle(s)'
  <2> TAKE s \in VaultStrategies \ {a}
  <2>1. Idle(s)
    BY <1>2 DEF Gathered
  <2>2. CASE s = Allocator
    BY <1>1, <1>4, <1>6, <2>1, <2>2 DEF Idle
  <2>3. CASE s # Allocator
    BY <1>4, <2>1, <2>3, HoldersApart DEF Idle
  <2> QED BY <2>2, <2>3
<1>8. EmptyOutside'
  BY <1>1, <1>4, <1>5, <1>6 DEF Gathered, EmptyOutside, Registered, allocatorVars
<1> QED BY <1>2, <1>7, <1>8 DEF Apart

(* A deposit goes to the active strategy alone (deposit).                  *)
LEMMA DepositApart ==
    ASSUME Books, Gathered, NEW u \in Users, NEW assets \in DepositAmounts, Deposit(u, assets)
    PROVE  Apart'
<1> DEFINE tok == Transfer(token, u, active, assets)
<1>1. /\ TypeOK /\ token \in [Holders -> Nat] /\ position \in [Leaves -> Nat] /\ assets \in Nat
  BY VaultConstants DEF Books, TypeOK, StrategiesTypeOK
<1>2. PICK a \in VaultStrategies : a = active
  BY <1>1 DEF TypeOK
<1>3. /\ assets <= token[u] /\ StrategyDeposit(tok, position, a, assets)
      /\ UNCHANGED allocatorVars /\ active' = a
  BY <1>2 DEF Deposit, routeVars
<1>4. u \in Holders /\ a \in Holders /\ u # Allocator /\ Allocator \in Holders
  BY <1>2, HoldersApart
<1>5. tok \in [Holders -> Nat] /\ (a # Allocator => tok[Allocator] = Native)
  BY <1>1, <1>2, <1>3, <1>4, TransferType DEF Transfer, Native
<1> HIDE DEF tok
<1>6. /\ EmptyOutside'
      /\ \A x \in VaultStrategies \ {a, Allocator} : position'[x] = position[x]
      /\ a # Allocator => Native' = Native /\ \A c \in Children : position'[c] = position[c]
  BY <1>1, <1>3, <1>5, DepositLeavesOthers DEF Gathered
<1>7. \A s \in VaultStrategies \ {a} : Idle(s)'
  <2> TAKE s \in VaultStrategies \ {a}
  <2>1. Idle(s)
    BY <1>2 DEF Gathered
  <2> QED BY <1>6, <2>1 DEF Idle
<1> QED BY <1>3, <1>6, <1>7 DEF Apart

(* What the active strategy is drained of goes to the next one (rebalance). *)
LEMMA MoveApart ==
    ASSUME Books, Gathered, Evictable = {}, BlendStrategies \subseteq Children,
           NEW s \in VaultStrategies, MoveTo(s)
    PROVE  Apart'
<1>1. /\ TypeOK /\ Typed /\ token \in [Holders -> Nat] /\ position \in [Leaves -> Nat]
      /\ TotalAssets \in Nat /\ Children \subseteq Leaves /\ Allocator \in Holders /\ Vault \in Holders
  BY AssetsType, AllocatorConstants, HoldersApart DEF Books, TypeOK, Typed, StrategiesTypeOK
<1>2. PICK a \in VaultStrategies : a = active
  BY <1>1 DEF TypeOK
<1>3. s # a /\ StrategyReadable(a) /\ active' = s /\ UNCHANGED allocatorVars
      /\ TotalAssets = StrategyValue(a)
  BY <1>2 DEF MoveTo, TotalAssets
<1>4. CASE TotalAssets <= 0
  <2>1. UNCHANGED strategyVars
    BY <1>1, <1>4 DEF MoveTo
  <2>2. Idle(a)
    BY <1>1, <1>3, <1>4, WorthlessIsIdle
  <2>3. \A x : Idle(x)' <=> Idle(x)
    BY <2>1 DEF Idle, Native, strategyVars
  <2>4. EmptyOutside'
    BY <1>3, <2>1 DEF Gathered, EmptyOutside, Registered, strategyVars, allocatorVars
  <2> QED BY <1>2, <1>3, <2>2, <2>3, <2>4 DEF Gathered, Apart
<1>5. CASE TotalAssets > 0
  <2> DEFINE d == TotalAssets
             got == TokensDelivered(a, d)
             tok == Transfer(got, Vault, s, d)
             pos == PositionsDelivered(a, d)
  <2>1. \A x \in StrategyDeliverable(active, TotalAssets) : x = TotalAssets
    <3>1. a # Allocator => a \in MockStrategies
      BY HoldersApart DEF VaultStrategies, Leaves
    <3> QED BY <1>2, <3>1 DEF StrategyDeliverable, AllocatorDeliverable, Deliverable
  <2>2. d \in StrategyDeliverable(a, d) /\ StrategyDeposit(tok, pos, s, d)
    <3>1. PICK x \in StrategyDeliverable(active, TotalAssets) :
             StrategyDeposit(Transfer(TokensDelivered(active, x), Vault, s, x),
                             PositionsDelivered(active, x), s, x)
      BY <1>1, <1>5 DEF MoveTo
    <3>2. x = d /\ active = a
      BY <1>2, <2>1, <3>1
    <3> HIDE DEF d
    <3>3. StrategyDeposit(tok, pos, s, d)
      BY <3>1, <3>2
    <3>4. d \in StrategyDeliverable(a, d)
      BY <1>2, <3>1, <3>2 DEF d
    <3> QED BY <3>3, <3>4
  <2>3. /\ d \in Nat /\ got \in [Holders -> Nat] /\ got[Vault] = token[Vault] + d
        /\ pos \in [Leaves -> Nat]
    BY <1>1, <2>2, StrategyDeliveryType
  <2>4. token[Vault] \in Nat /\ s \in Holders /\ s # Vault /\ a \in Holders /\ a # Vault
    BY <1>1, HoldersApart
  <2>5. \A c \in Children : pos[c] = position[c]
    <3>1. a \notin Children
      BY AllocatorConstants, HoldersApart DEF VaultStrategies
    <3> QED BY <1>1, <3>1 DEF PositionsDelivered
  <2>6. \A x \in Leaves \ {a} : pos[x] = position[x]
    BY <1>1 DEF PositionsDelivered
  \* The allocator is drained of its buffer, and that was all it had.
  <2>7. a = Allocator => got[Allocator] = 0 /\ \A c \in Children : position[c] = 0
    <3> SUFFICES ASSUME a = Allocator
                 PROVE  got[Allocator] = 0 /\ \A c \in Children : position[c] = 0
      OBVIOUS
    <3>1. d = AllocatorValue /\ d <= Native /\ Native \in Nat /\ Readable
      BY <1>1, <1>3, <2>2, AllocatorValueType
         DEF StrategyDeliverable, AllocatorDeliverable, StrategyReadable, StrategyValue
    <3> HIDE DEF d
    <3>2. d = Native /\ \A c \in Children : position[c] = 0
      BY <1>1, <3>1, BufferIsAll DEF Gathered
    <3>3. Allocator \notin BlendStrategies /\ Allocator # Vault
      BY HoldersApart DEF Leaves
    <3>4. got[Allocator] = token[Allocator] - d
      BY <1>1, <3>3 DEF TokensDelivered, Transfer
    <3> QED BY <1>1, <3>1, <3>2, <3>4 DEF Native
  \* A mock is asked for all that it records.
  <2>8. a # Allocator => pos[a] = 0 /\ got[Allocator] = Native
    <3> SUFFICES ASSUME a # Allocator PROVE pos[a] = 0 /\ got[Allocator] = Native
      OBVIOUS
    <3>1. a \in MockStrategies /\ a \in Leaves /\ a \notin BlendStrategies
      BY AddressesDistinct, HoldersApart DEF VaultStrategies, Leaves
    <3>2. d = position[a] /\ position[a] \in Nat
      BY <1>1, <1>3, <3>1 DEF StrategyValue, Value
    <3> HIDE DEF d
    <3>3. pos[a] = position[a] - d
      BY <1>1, <3>1 DEF PositionsDelivered, Debit
    <3>4. Allocator # a /\ Allocator # Vault
      BY HoldersApart
    <3>5. got[Allocator] = Native
      BY <1>1, <3>1, <3>4 DEF TokensDelivered, Transfer, Native
    <3> QED BY <3>2, <3>3, <3>5
  <2> HIDE DEF d, got, pos
  <2>9. tok \in [Holders -> Nat] /\ (s # Allocator => tok[Allocator] = got[Allocator])
    <3>1. d <= got[Vault] /\ Allocator # Vault
      BY <2>3, <2>4, HoldersApart
    <3> QED BY <1>1, <2>3, <2>4, <3>1, TransferType DEF Transfer
  <2> HIDE DEF tok
  <2>10. /\ EmptyOutside'
         /\ \A x \in VaultStrategies \ {s, Allocator} : position'[x] = pos[x]
         /\ s # Allocator => /\ Native' = tok[Allocator]
                            /\ \A c \in Children : position'[c] = pos[c]
    BY <1>1, <1>3, <2>2, <2>3, <2>5, <2>9, DepositLeavesOthers DEF Gathered
  <2>11. ASSUME NEW x \in VaultStrategies \ {s} PROVE Idle(x)'
    <3>1. x # a => Idle(x)
      BY <1>2 DEF Gathered
    <3>2. CASE x = Allocator
      <4>1. Native' = got[Allocator] /\ \A c \in Children : position'[c] = position[c]
        BY <2>5, <2>9, <2>10, <3>2
      <4>2. got[Allocator] = 0 /\ \A c \in Children : position[c] = 0
        BY <2>7, <2>8, <3>1, <3>2 DEF Idle
      <4> QED BY <3>2, <4>1, <4>2 DEF Idle
    <3>3. CASE x # Allocator
      <4>1. pos[x] = 0
        BY <2>6, <2>8, <3>1, <3>3, HoldersApart DEF Idle
      <4> QED BY <2>10, <3>3, <4>1 DEF Idle
    <3> QED BY <3>2, <3>3
  <2> QED BY <1>3, <2>10, <2>11 DEF Apart
<1> QED BY <1>1, <1>4, <1>5

(* Governance leaves no funds behind (set_active_strategy, rebalance).     *)
LEMMA GovernanceApart ==
    ASSUME Books, Gathered, Evictable = {}, BlendStrategies \subseteq Children, GovernanceStep
    PROVE  Apart'
<1>1. PICK s \in VaultStrategies : RegisterStrategy(s) \/ SetActiveStrategy(s) \/ MoveTo(s)
  BY DEF GovernanceStep
<1>2. CASE RegisterStrategy(s)
  BY <1>2, UntouchedApart DEF RegisterStrategy
<1>3. CASE SetActiveStrategy(s)
  <2>1. PICK a \in VaultStrategies : a = active
    BY DEF Books, TypeOK
  <2>2. Idle(a)
    BY <1>3, <2>1, WorthlessIsIdle DEF SetActiveStrategy, TotalAssets, Books
  <2>3. active' = s /\ \A x : Idle(x)' <=> Idle(x)
    BY <1>3 DEF SetActiveStrategy, Idle, Native, strategyVars
  <2>4. EmptyOutside'
    BY <1>3 DEF SetActiveStrategy, Gathered, EmptyOutside, Registered, strategyVars, allocatorVars
  <2> QED BY <2>1, <2>2, <2>3, <2>4 DEF Gathered, Apart
<1> QED BY <1>1, <1>2, <1>3, MoveApart

(* The keeper of an allocator that is not active finds nothing to move,    *)
(* and yield accrues to who has a position.                                *)
LEMMA BelowApart ==
    ASSUME Books, Gathered, Evictable = {}, KeeperStep \/ YieldStep \/ TroubleStep
    PROVE  Apart'
<1>1. /\ TypeOK /\ Typed /\ position \in [Leaves -> Nat] /\ token \in [Holders -> Nat]
      /\ Registered \subseteq Children /\ Children \subseteq Leaves
      /\ \A s \in VaultStrategies : s # Allocator => s \in Leaves \ Children
      /\ UNCHANGED active
  BY ChildrenType, AllocatorConstants DEF Books, TypeOK, Typed, StrategiesTypeOK, VaultStrategies,
     KeeperStep, YieldStep, TroubleStep, routeVars
<1> DEFINE Moves == \/ \E c \in Children, n \in KeeperAmounts : DrainChild(c, n) \/ FundChild(c, n)
                    \/ \E c \in Children : RebalanceStep(c)
                    \/ Rebalance
<1>2. CASE KeeperStep
  <2>1. AdminStep
    BY <1>2 DEF KeeperStep
  <2>2. EmptyOutside'
    BY <1>1, <2>1, AdminKeepsOutside DEF Gathered
  <2>3. \A s \in VaultStrategies : s # Allocator => position'[s] = position[s]
    BY <1>1, <2>1, AdminLeavesOthers
  <2>4. CASE active = Allocator
    BY <1>1, <2>2, <2>3, <2>4 DEF Gathered, Apart, Idle
  <2>5. CASE active # Allocator
    <3>1. Native = 0 /\ \A c \in Children : position[c] = 0
      BY <2>5 DEF Gathered, Idle, VaultStrategies
    <3>2. Native' = 0 /\ \A c \in Children : position'[c] = 0
      <4>1. CASE Moves
        BY <1>1, <3>1, <4>1, KeeperMovesNothing
      <4>2. CASE UNCHANGED strategyVars
        BY <3>1, <4>2 DEF Native, strategyVars
      <4> QED BY <2>1, <4>1, <4>2 DEF AdminStep, AddChild, RemoveChild, ForceRemoveChild, Evict,
              SetPaused, SetTargetWeights
    <3> QED BY <1>1, <2>2, <2>3, <3>2 DEF Gathered, Apart, Idle
  <2> QED BY <2>4, <2>5
<1>3. CASE YieldStep
  <2>1. UNCHANGED allocatorVars
    BY <1>3 DEF YieldStep
  <2>2. Native' = Native /\ \A c \in Leaves : position[c] = 0 => position'[c] = 0
    <3>1. ASSUME NEW m \in MockStrategies, NEW n \in YieldAmounts, 0 < position[m], InjectYield(m, n)
          PROVE  Native' = Native /\ \A c \in Leaves : position[c] = 0 => position'[c] = 0
      BY <1>1, <3>1 DEF InjectYield, Native
    <3>2. ASSUME NEW m \in MockStrategies, Mint(m, position[m] - token[m])
          PROVE  position' = position /\ Native' = Native
      BY <1>1, <3>2, HoldersApart DEF Mint, Native, Leaves
    <3>3. ASSUME AccrueInterest PROVE position' = position /\ Native' = Native
      BY <3>3 DEF AccrueInterest, Native
    <3> QED BY <1>3, <3>1, <3>2, <3>3 DEF YieldStep
  <2>3. EmptyOutside'
    BY <1>1, <2>1, <2>2 DEF Gathered, EmptyOutside, Registered, allocatorVars
  <2>4. ASSUME NEW s \in VaultStrategies, Idle(s) PROVE Idle(s)'
    BY <1>1, <2>2, <2>4 DEF Idle
  <2> QED BY <1>1, <2>3, <2>4 DEF Gathered, Apart
<1>4. CASE TroubleStep
  <2>1. UNCHANGED <<slots, strategyVars>>
    BY <1>4 DEF TroubleStep, ChildTrouble, Wedge, Recover
  <2>2. \A s : Idle(s)' <=> Idle(s)
    BY <2>1 DEF Idle, Native, strategyVars
  <2>3. EmptyOutside'
    BY <2>1 DEF Gathered, EmptyOutside, Registered, strategyVars
  <2> QED BY <1>1, <2>2, <2>3 DEF Gathered, Apart
<1> QED BY <1>2, <1>3, <1>4

(* Every call keeps the funds together.                                    *)
LEMMA StepApart ==
    ASSUME Books, Gathered, Evictable = {}, BlendStrategies \subseteq Children, Next
    PROVE  Apart'
<1>1. /\ \A u \in Users : AmountsOf(u) \subseteq Nat
      /\ \A id \in DOMAIN pending : pending[id].shares \in Nat /\ pending[id].owner \in Users
  BY VaultConstants, HoldersApart, BooksParts, QueueFacts DEF AmountsOf, Books, TypeOK, Parts, Queued
<1>2. CASE RedeemStep
  BY <1>1, <1>2, PaymentApart DEF RedeemStep, Redeem, PaysOut, routeVars
<1>3. CASE QueueStep
  <2>1. ASSUME NEW id \in DOMAIN pending, ClaimRedeem(id) PROVE Apart'
    BY <1>1, <2>1, PaymentApart DEF ClaimRedeem, PaysOut, routeVars
  <2> QED BY <1>3, <2>1, UntouchedApart DEF QueueStep, RequestRedeem, CancelRequest, routeVars
<1>4. CASE ShareStep
  BY <1>4, DepositApart, UntouchedApart DEF ShareStep, TransferShares, routeVars
<1> QED BY <1>2, <1>3, <1>4, GovernanceApart, BelowApart DEF Next, UserStep

(* Only the active strategy holds funds, so that price-per-share leaves    *)
(* nothing out: a child that may stop to answer is authoritative, none is  *)
(* forced out, and what rounds is below the allocator.                     *)
THEOREM OnlyTheActiveHoldsFunds ==
    ASSUME Evictable = {}, BlendStrategies \subseteq Children, RegisteredAsAuthoritative(Fragile)
    PROVE  Spec => []OnlyActiveHoldsFunds
<1> DEFINE IInv == Books /\ Gathered
<1>1. Init => IInv
  <2> SUFFICES ASSUME Init PROVE Gathered
    BY InitBooks
  <2>1. \A s \in VaultStrategies : Idle(s)
    BY HoldersApart, AllocatorConstants DEF Init, Idle, Native
  <2>2. EmptyOutside
    BY AllocatorConstants DEF Init, EmptyOutside
  <2>3. AuthoritativeIn(Fragile)
    BY DEF Init, AllocatorInit, AuthoritativeIn, Registered, RegisteredAsAuthoritative
  <2> QED BY <2>1, <2>2, <2>3 DEF Gathered
<1>2. IInv /\ [Next]_vars => IInv'
  <2> SUFFICES ASSUME IInv, [Next]_vars PROVE Gathered'
    BY StepKeepsBooks
  <2>1. CASE Next
    BY <2>1, StepApart, AuthorityKept DEF Apart, Gathered
  <2>2. CASE UNCHANGED vars
    <3>1. Apart'
      BY <2>2, UntouchedApart DEF vars, routeVars
    <3>2. AuthoritativeIn(Fragile)'
      BY <2>2 DEF vars, allocatorVars, Gathered, AuthoritativeIn, Registered
    <3> QED BY <3>1, <3>2 DEF Apart, Gathered
  <2> QED BY <2>1, <2>2
<1>3. IInv => OnlyActiveHoldsFunds
  BY IdleIsWorthless DEF Gathered, OnlyActiveHoldsFunds, Books
<1> QED BY <1>1, <1>2, <1>3, PTL DEF Spec
-------------------------------------------------------------------------------
(* Redeems that the views route *)

(* What p shares are worth rises by at most one unit when n other shares   *)
(* are paid their worth, rounded down, out of what the strategy has.       *)
LEMMA OwedAfterPayment ==
    ASSUME NEW a \in Nat, NEW s \in Nat, NEW n \in Nat, NEW p \in Nat, p + n <= s,
           NEW o \in Nat, o = ConvertToAssets(n, a, s), o <= a
    PROVE  ConvertToAssets(p, a - o, s - n) <= ConvertToAssets(p, a, s) + 1
<1> DEFINE A == a + VIRTUAL_ASSETS
           S == s + VIRTUAL_SHARES
           B == a - o + VIRTUAL_ASSETS
           R == s - n + VIRTUAL_SHARES
           q == ConvertToAssets(p, a, s)
           r == ConvertToAssets(p, a - o, s - n)
<1>1. /\ A \in Nat \ {0} /\ S \in Nat \ {0} /\ B \in Nat \ {0} /\ R \in Nat \ {0}
      /\ B = A - o /\ R = S - n /\ p < R /\ a - o \in Nat /\ s - n \in Nat
  BY VirtualOffsets
<1>2. q \in Nat /\ r \in Nat
  BY <1>1, ConversionsType
<1>3. n * A \in Nat /\ p * A \in Nat /\ p * B \in Nat
  BY <1>1, ProductType
<1>4. o = (n * A) \div S /\ q = (p * A) \div S /\ r = (p * B) \div R
  BY DEF ConvertToAssets
<1> HIDE DEF A, S, B, R, q, r
<1>5. n * A < o * S + S /\ p * A < q * S + S /\ r * R <= p * B
  BY <1>1, <1>3, <1>4, DivisionBounds
<1> SUFFICES ASSUME r >= q + 2 PROVE FALSE
  BY <1>2 DEF q, r
<1>6. (q + 2) * R <= p * B
  <2>1. (q + 2) * R <= r * R
    BY <1>1, <1>2, ProductGrows
  <2> QED BY <1>1, <1>2, <1>3, <1>5, <2>1
<1>7. (p * B) * S <= p * (A * R) + p * S
  <2>1. B * S = A * S - o * S /\ A * R = A * S - n * A
    BY <1>1
  <2>2. /\ B * S \in Nat /\ A * R \in Nat /\ o * S \in Nat /\ A * S \in Nat
        /\ A * R + S \in Nat
    BY <1>1, ProductType
  <2>3. B * S <= A * R + S
    BY <1>1, <1>3, <1>5, <2>1, <2>2
  <2>4. (B * S) * p <= (A * R + S) * p
    BY <2>2, <2>3, ProductGrows
  <2>5. (p * B) * S = (B * S) * p /\ (A * R + S) * p = p * (A * R) + p * S
    BY <1>1
  <2> QED BY <2>4, <2>5
<1>8. p * (A * R) <= (q * S + S) * R
  <2>1. q * S + S \in Nat /\ p * A <= q * S + S
    BY <1>1, <1>2, <1>3, <1>5
  <2>2. (p * A) * R <= (q * S + S) * R
    BY <1>1, <1>3, <2>1, ProductGrows
  <2>3. (p * A) * R = p * (A * R)
    BY <1>1
  <2> QED BY <2>2, <2>3
<1>9. ((q + 2) * R) * S <= (p * B) * S
  <2>1. (q + 2) * R \in Nat
    BY <1>1, <1>2
  <2> QED BY <1>1, <1>3, <1>6, <2>1, ProductGrows
<1>10. ((q + 2) * R) * S = (q * S + S) * R + R * S
  <2>1. (q + 2) * R = (q * R + R) + R
    BY <1>1, <1>2
  <2>2. ((q * R + R) + R) * S = (q * R + R) * S + R * S
    BY <1>1, <1>2, ProductType
  <2>3. (q * R + R) * S = (q * S + S) * R
    BY <1>1, <1>2
  <2> QED BY <2>1, <2>2, <2>3
<1>11. R * S <= p * S
  <2>1. /\ (q * S + S) * R \in Nat /\ R * S \in Nat /\ p * S \in Nat
        /\ (p * B) * S \in Nat /\ p * (A * R) \in Nat
    <3>1. q * S + S \in Nat /\ A * R \in Nat
      BY <1>1, <1>2, ProductType
    <3> QED BY <1>1, <1>3, <3>1, ProductType
  <2>2. \A v, w, x, y, z \in Nat : v + w <= x /\ x <= y + z /\ y <= v => w <= z
    OBVIOUS
  <2>3. (q * S + S) * R + R * S <= (p * B) * S
    BY <1>9, <1>10
  <2> QED BY <1>7, <1>8, <2>1, <2>2, <2>3, Zenon
<1>12. R * S = p * S + (R - p) * S /\ (R - p) * S \in Nat \ {0} /\ p * S \in Nat
  <2>1. R - p \in Nat \ {0}
    BY <1>1
  <2> QED BY <1>1, <2>1
<1> QED BY <1>11, <1>12

(* An instant redemption from the allocator comes out of its buffer.       *)
LEMMA PaidFromBuffer ==
    ASSUME TypeOK, active = Allocator, NEW amount \in Nat,
           NEW d \in StrategyDeliverable(active, amount),
           NEW u \in Users, PayOut(active, d, u), UNCHANGED <<allocatorVars, active>>
    PROVE  /\ d = amount /\ TotalAssets' = TotalAssets - d
           /\ Buffer' = Buffer - d /\ Buffer \in Nat /\ d <= Buffer /\ Buffer <= TotalAssets
<1>1. /\ Typed /\ token \in [Holders -> Nat]
  BY DEF TypeOK, StrategiesTypeOK, Typed
<1>2. d = amount /\ d <= Native /\ d \in Nat
  BY DEF StrategyDeliverable, AllocatorDeliverable
<1>3. /\ position' = position /\ bRate' = bRate
      /\ Allocator \in Holders /\ Vault \in Holders /\ u \in Holders
      /\ Allocator # Vault /\ Allocator # u /\ Allocator \notin BlendStrategies
  BY HoldersApart DEF PayOut, PositionsDelivered, Leaves
<1>4. Native' = Native - d /\ Native \in Nat
  <2>1. token' = Transfer(Transfer(token, Allocator, Vault, d), Vault, u, d)
    BY <1>3 DEF PayOut, TokensDelivered
  <2> QED BY <1>1, <1>2, <1>3, <2>1 DEF Transfer, Native
<1>5. Total(ChildValues', Registered') = Total(ChildValues, Registered)
  <2>1. Registered' = Registered
    BY DEF allocatorVars, Registered
  <2>2. ChildValues' = ChildValues
    BY <1>3, <2>1 DEF ChildValues, ChildValue, Value, allocatorVars
  <2> QED BY <2>1, <2>2
<1>6. Total(ChildValues, Registered) \in Nat
  <2>1. IsFiniteSet(Registered) /\ \A c \in Registered : ChildValues[c] \in Nat
    BY <1>1, ChildrenType, ChildValueType DEF Typed, ChildValues
  <2> QED BY <2>1, TotalType
<1>7. /\ TotalAssets = Total(ChildValues, Registered) + Native /\ Buffer = Native
      /\ TotalAssets' = Total(ChildValues', Registered') + Native' /\ Buffer' = Native'
  <2>1. active = Allocator /\ active' = Allocator
    OBVIOUS
  <2>2. TotalAssets = AllocatorValue /\ TotalAssets' = AllocatorValue'
    BY <2>1 DEF TotalAssets, StrategyValue, Value
  <2>3. Buffer = Native /\ Buffer' = Native'
    BY <2>1 DEF Buffer
  <2> QED BY <2>2, <2>3 DEF AllocatorValue
<1>8. TotalAssets' = TotalAssets - d /\ Buffer' = Buffer - d
  BY <1>2, <1>4, <1>5, <1>6, <1>7
<1>9. Buffer \in Nat /\ d <= Buffer /\ Buffer <= TotalAssets
  BY <1>2, <1>4, <1>6, <1>7
<1> QED BY <1>2, <1>8, <1>9

(* A redeem that the views let through leaves the buffer with what the     *)
(* queue is owed, but for one unit.                                        *)
LEMMA RoutedLeavesTheQueue ==
    ASSUME Books, active = Allocator, NEW u \in Users, NEW n \in AmountsOf(u),
           NEW m \in MinOuts, RoutedInstant(n), Redeem(u, n, m)
    PROVE  PendingOwed' <= Buffer' + 1
<1> DEFINE o == ConvertToAssets(n, TotalAssets, supply)
           p == totalPendingShares
<1>1. /\ TypeOK /\ Parts /\ TotalAssets \in Nat /\ supply \in Nat /\ n \in Nat /\ p \in Nat
  BY BooksParts, AssetsType, VaultConstants, HoldersApart DEF Books, TypeOK, AmountsOf
<1>2. o \in Nat /\ PendingOwed \in Nat
  BY <1>1, ConversionsType DEF PendingOwed
<1>3. PICK d \in StrategyDeliverable(active, o) : PayOut(active, d, u)
  BY DEF Redeem
<1>4. /\ n <= shares[u] /\ supply' = supply - n /\ p' = p /\ UNCHANGED <<allocatorVars, active>>
  BY DEF Redeem, BurnShares, queueVars, routeVars
<1>5. d = o /\ d > 0
  BY <1>3 DEF StrategyDeliverable, AllocatorDeliverable
<1> HIDE DEF o
<1>6. /\ TotalAssets' = TotalAssets - o /\ Buffer' = Buffer - o
      /\ Buffer \in Nat /\ o <= Buffer /\ Buffer <= TotalAssets
  BY <1>1, <1>2, <1>3, <1>4, <1>5, PaidFromBuffer
<1>7. PendingOwed + o <= Buffer
  BY <1>2, <1>5, <1>6 DEF RoutedInstant, InstantRedeemable, o
<1>8. p + n <= supply
  <2>1. /\ p <= shares[Vault] /\ shares \in [ShareHolders -> Nat]
        /\ supply = Total(shares, ShareHolders)
    BY <1>1 DEF Parts, SharesKept, SharesTyped
  <2>2. u \in ShareHolders /\ Vault \in ShareHolders /\ u # Vault
    BY HoldersApart
  <2>3. /\ supply = Total(shares, ShareHolders \ {Vault}) + shares[Vault]
        /\ IsFiniteSet(ShareHolders \ {Vault})
    BY <2>1, <2>2, HoldersApart, TotalSplit
  <2>4. shares[u] <= Total(shares, ShareHolders \ {Vault})
    BY <2>1, <2>2, <2>3, TotalCovers
  <2>5. Total(shares, ShareHolders \ {Vault}) \in Nat /\ shares[u] \in Nat /\ shares[Vault] \in Nat
    BY <2>1, <2>2, HoldersApart, TotalSplit
  <2> QED BY <1>1, <1>4, <2>1, <2>3, <2>4, <2>5
<1>9. PendingOwed' = ConvertToAssets(p, TotalAssets - o, supply - n)
  BY <1>4, <1>6 DEF PendingOwed, ConvertToAssets
<1>10. PendingOwed' <= PendingOwed + 1 /\ PendingOwed' \in Nat
  <2>1. TotalAssets - o \in Nat /\ supply - n \in Nat /\ o <= TotalAssets
    BY <1>1, <1>2, <1>6, <1>8
  <2>2. ConvertToAssets(p, TotalAssets - o, supply - n)
            <= ConvertToAssets(p, TotalAssets, supply) + 1
    BY <1>1, <1>2, <1>8, <2>1, OwedAfterPayment DEF o
  <2> QED BY <1>1, <1>9, <2>1, <2>2, ConversionsType DEF PendingOwed
<1> QED BY <1>2, <1>6, <1>7, <1>10

(* Redeems that the view lets through never take from the buffer what the  *)
(* queue is owed, whoever sends them and whatever came before.             *)
THEOREM RoutedRedeemsKeepTheQueueCovered == Spec => QueueStaysCovered
<1>1. Books /\ [Next]_vars =>
        [(RoutedRedeem /\ active = Allocator) => PendingOwed' <= Buffer' + 1]_vars
  BY RoutedLeavesTheQueue DEF RoutedRedeem
<1> QED BY <1>1, InitBooks, StepKeepsBooks, PTL DEF Spec, QueueStaysCovered

-------------------------------------------------------------------------------
(* The escape hatch *)

\* All that cancel_request asks for, and the state it leaves.
CancelGuard(id) == id \in Queued /\ pending[id].shares <= shares[Vault]

Cancelled(id) ==
    <<strategyVars, allocatorVars,
      <<Transfer(shares, Vault, pending[id].owner, pending[id].shares), supply>>,
      <<[x \in Queued \ {id} |-> pending[x]], nextRequestId,
        totalPendingShares - pending[id].shares>>,
      routeVars>>

(* cancel_request comes down to its guard and an assignment to each        *)
(* variable, none of which asks a strategy for anything.                   *)
LEMMA CancellingIsItsGuard ==
    ASSUME NEW id
    PROVE  CancelRequest(id) <=> CancelGuard(id) /\ vars' = Cancelled(id)
BY DEF CancelRequest, CancelGuard, Cancelled, Dequeue, MoveShares, Queued, vars,
   strategyVars, allocatorVars, shareVars, queueVars, routeVars

(* A queued request has an owner to return to, and its shares are there:   *)
(* no other request, claim, transfer or strategy can take them. So nothing *)
(* stands in the way of cancel_request.                                    *)
THEOREM NothingBlocksCancelling ==
    Spec => [](\A id \in Queued : pending[id].owner \in Users /\ CancelGuard(id))
<1>1. Books => \A id \in Queued : pending[id].owner \in Users /\ CancelGuard(id)
  <2> SUFFICES ASSUME Books, NEW id \in Queued
               PROVE  pending[id].owner \in Users /\ CancelGuard(id)
    OBVIOUS
  <2>1. /\ IsFiniteSet(Queued) /\ pending[id].owner \in Users
        /\ \A x \in Queued : PendingShares[x] \in Nat
        /\ PendingShares[id] = pending[id].shares
        /\ totalPendingShares = Total(PendingShares, Queued)
        /\ totalPendingShares \in Nat /\ shares[Vault] \in Nat
        /\ totalPendingShares <= shares[Vault]
    BY BooksParts, QueueFacts, HoldersApart DEF Parts, QueueKept, SharesKept, SharesTyped
  <2>2. PendingShares[id] <= totalPendingShares
    BY <2>1, TotalCovers
  <2> QED BY <2>1, <2>2 DEF CancelGuard
<1> QED BY <1>1, InitBooks, StepKeepsBooks, PTL DEF Spec

-------------------------------------------------------------------------------
(* Round trips *)

(* Depositing and redeeming at once, or redeeming and depositing at once,  *)
(* returns no more than was put in: both conversions of the contract round *)
(* against the caller (deposit, redeem).                                   *)
THEOREM RoundTripsGainNothing ==
    ASSUME NEW a \in Nat, NEW s \in Nat, NEW n \in Nat
    PROVE  /\ LET minted == ConvertToShares(n, a, s)
              IN  ConvertToAssets(minted, a + n, s + minted) <= n
           /\ LET paid == ConvertToAssets(n, a, s)
              IN  n <= s /\ paid <= a => ConvertToShares(paid, a - paid, s - n) <= n
<1> DEFINE A == a + VIRTUAL_ASSETS
           S == s + VIRTUAL_SHARES
           m == ConvertToShares(n, a, s)
           o == ConvertToAssets(n, a, s)
<1>1. A \in Nat \ {0} /\ S \in Nat \ {0} /\ m \in Nat /\ o \in Nat
  <2>1. A \in Nat \ {0} /\ S \in Nat \ {0}
    BY VirtualOffsets
  <2> QED BY <2>1, ConversionsType
<1>2. m * A <= n * S /\ o * S <= n * A
  <2>1. n * S \in Nat /\ n * A \in Nat /\ m = (n * S) \div A /\ o = (n * A) \div S
    BY <1>1, ProductType DEF ConvertToShares, ConvertToAssets
  <2> HIDE DEF A, S, m, o
  <2> QED BY <1>1, <2>1, DivisionBounds
<1>3. ASSUME NEW x \in Nat, NEW y \in Nat, NEW z \in Nat \ {0}, x <= y * z
      PROVE  x \div z <= y
  <2>1. (x \div z) * z <= x /\ x \div z \in Nat
    BY <1>3, DivisionBounds, QuotientType
  <2> DEFINE w == x \div z
  <2> HIDE DEF w
  <2> SUFFICES ASSUME w > y PROVE FALSE
    BY <2>1 DEF w
  <2>2. w * z = y * z + (w - y) * z /\ (w - y) * z \in Nat \ {0} /\ y * z \in Nat
    <3>1. w - y \in Nat \ {0} /\ w \in Nat
      BY <2>1 DEF w
    <3> QED BY <3>1
  <2> QED BY <1>3, <2>1, <2>2 DEF w
<1>4. ConvertToAssets(m, a + n, s + m) <= n
  <2>1. /\ a + n + VIRTUAL_ASSETS = A + n /\ s + m + VIRTUAL_SHARES = S + m
        /\ S + m \in Nat \ {0} /\ A + n \in Nat
    BY <1>1, VirtualOffsets
  <2> HIDE DEF A, S, m, o
  <2>2. m * (A + n) \in Nat /\ m * (A + n) <= n * (S + m)
    <3>1. m * (A + n) = m * A + m * n /\ n * (S + m) = n * S + m * n
      BY <1>1
    <3>2. m * A \in Nat /\ m * n \in Nat /\ n * S \in Nat
      BY <1>1, ProductType
    <3> QED BY <1>2, <3>1, <3>2
  <2> QED BY <1>3, <2>1, <2>2 DEF ConvertToAssets
<1>5. ASSUME n <= s, o <= a PROVE ConvertToShares(o, a - o, s - n) <= n
  <2>1. /\ a - o + VIRTUAL_ASSETS = A - o /\ s - n + VIRTUAL_SHARES = S - n
        /\ A - o \in Nat \ {0} /\ S - n \in Nat
    BY <1>1, <1>5, VirtualOffsets
  <2> HIDE DEF A, S, m, o
  <2>2. o * (S - n) \in Nat /\ o * (S - n) <= n * (A - o)
    <3>1. o * (S - n) = o * S - o * n /\ n * (A - o) = n * A - o * n
      BY <1>1
    <3>2. o * S \in Nat /\ o * n \in Nat /\ n * A \in Nat /\ o * (S - n) \in Nat
      BY <1>1, <2>1, ProductType
    <3> QED BY <1>2, <3>1, <3>2
  <2> QED BY <1>3, <2>1, <2>2 DEF ConvertToShares
<1> QED BY <1>4, <1>5
=============================================================================
