# Verification of the Aptopia wallet's services

This directory holds TLA+ specifications of the program logic of this
repository, TLC configurations that model-check them, and TLAPS proofs.  The
source is the reference: where a document and the code disagree the modules
follow the code, and the disagreement is listed under *Findings*.

## 1. The system and its parts

The repository has three programs of its own logic.

**A. The yield vault** (`services/vault/crates`), Soroban contracts.  Every
contract call is one atomic transaction: an error reverts everything.

| part | state | operations |
|---|---|---|
| vault (`vault/src/lib.rs`) | share balances and supply, active strategy, strategy registry, pending requests, request counter, `TotalPendingShares` | `deposit`, `redeem`, `request_redeem`, `claim_redeem`, `cancel_request`, share transfers, `register_strategy`, `set_active_strategy`, `rebalance`; views `total_assets`, `preview_*`, `instant_redeemable_assets` |
| allocator (`allocator-strategy/src/lib.rs`) | children with weights and authority, native share, pause; its own token balance is the redemption buffer | `add_child`, `remove_child`, `force_remove_child`, `set_target_weights`, `set_paused`, `drain_child`, `fund_child`, `rebalance_step`, `rebalance`; as a strategy `deposit`, `withdraw`, `current_value` |
| leaf strategies (`mock-`, `blend-`, `soroswap-`, `defindex-strategy`) | a recorded balance, bTokens, LP tokens, or vault shares | `deposit`, `withdraw`, `current_value`, `harvest` |
| vault API (`services/vault/api`) | a cache | builds and relays transactions |

The vault calls the active strategy, which may be the allocator, which calls
its children.  What is hard: rounding that must never favour the caller, the
order of users' and keeper's transactions, a queue whose claims are served from
a buffer that others may empty, children that deliver less than asked or cannot
be read, rotations between strategies.  Correct means: shares and escrow are
accounted for, nobody's shares lose worth through others' calls, every queued
request can be settled, no funds are left where the price does not see them.

**B. The trading agent** (`services/agent`), a Node process over MongoDB.

| part | state | operations |
|---|---|---|
| worker (`services/worker-manager.ts`, `strategy-engine.ts`, `trade-routing.ts`, `daily-spend.ts`) | in memory: intervals, last signal, cooldown, direction of the open suggestion; in the database: limits, spending of the day, strategies with their last run | start, stop, restart of the server; a tick: load, reset the day, read the balance, price, decide, swap, record, notify |
| suggestions (`pending-tier2.ts`) | one suggestion per agent, in memory | made by a tick; confirmed or rejected by HTTP (`routes/v1.ts`) or Telegram (`bot.ts`) |
| rules, trustline, revocation (`routes/v1.ts`, `bot.ts`, `revoke-agent.ts`, `stellar-service.ts`) | the agent's document, its account on the chain | change the limits, set up the trustline, pay everything out and disable |

What is hard: everything interleaves at `await`; a tick may overlap the next one,
a confirmation, a change of rules or a revocation, and acts on what it loaded
before.  Correct means: a suggestion is executed at most once, an agent that may
trade is polled, a revoked agent comes to rest and stays there, and what is bought
between two resets of the day's counter overruns the budget by no more than the
handlers that were in flight.

**C. The wallet's background worker** (`extension/extension/src/background`), a
browser extension's service worker.

| part | state | operations |
|---|---|---|
| request queues (`freighterApiMessageListener.ts`, `popupMessageListener.ts`, `queueCleanup.ts`, `handlers/*`) | module-level arrays: one queue per type, the answer handlers, the requests on screen; the allow list in storage | a dapp asks; a popup is created, approves, rejects, is closed; the handler signs or grants; the cleaner runs; the worker is stopped |
| session (`store.ts`, `ducks/session.ts`, `helpers/session.ts`, `login-all-accounts.ts`, `store-account.ts`) | the saved redux state (active account, accounts, hash key), the encrypted temporary store, the key store ids, the timer | unlock, create, add and switch accounts, sign, sign out, time out |

What is hard: several requests at once, windows closed at any time, a cleaner
that drops old requests, secrets that are read and written back one by one while
other messages run, a worker that the browser stops and restarts.  Correct
means: what is signed is what was approved, by the account that was shown, once;
every dapp is answered; the session says "unlocked" only when its secrets are
there, and ends.

The rest (the other popup views, the Telegram menus, the docs site, the shared
message wrappers) keeps no state with rules of its own.  `PROJECT.json` lists
every part with its status, and every hazard with the properties that cover it.

## 2. Plan

1. Done: the vault and the allocator; the trading agent; the wallet's request
   queues; the wallet's session.
2. Next: the strategies of an agent under concurrent edits (`PUT /rules` replaces
   the whole array and can break "one enabled accumulate strategy", which the
   other routes guard); the authentication challenge; Soroswap's
   constant-product arithmetic against a reference definition; the caches of the
   vault API; the replacement of a wallet and the migration of old accounts.
3. Proofs: every safety property that a run checks is proved but
   `CancelAlwaysPossible`, of which the guard is; of three of the five liveness
   properties that hold the safety half is (section 5).  Next: the parts of item 2
   as they are modelled.

## 3. Modules

| module | models |
|---|---|
| `Tally` | sums over finite sets, without recursion |
| `ShareMath` | `convert_to_shares`, `convert_to_assets` |
| `Strategies` | token ledger, Mock and Blend strategies, yield |
| `Allocator` | the allocator contract, as a strategy and for its admin |
| `BakuVault` | the vault contract over the strategies: the composition of all of the above |
| `BakuVaultProps` | the vault's properties |
| `RedemptionQueue` | the abstract specification of asynchronous redemption |
| `QueueService` | the vault with a draining operator and owners that retry, whose users redeem as the repository's client does: without a look at the views |
| `AllocatorSpec` | the allocator alone, with a reduced vault, and its properties |
| `RebalanceSweep` | the keeper's sweep of `rebalance_step` |
| `StrategyEngine` | which strategies fire at a price, and which action is selected |
| `TradeRouting` | the planned amount and the tier of a trade |
| `TradingAgent` | one agent: ticks, the user's requests, revocation, the clock, restarts, over the two above; its properties |
| `SigningQueues` | the background's queues, popups, handlers of approvals, the cleaner; their properties |
| `WalletSession` | the session, the temporary store and the calls that change them; their properties |
| `MCVault`, `MCService`, `MCAllocator`, `MCSweep`, `MCAgent`, `MCQueues` | instances for TLC (`WalletSession` needs none) |
| `TallyProofs`, `AllocatorProofs` | lemmas: sums; divisions, strategies, the allocator's operations, weights and targets |
| `AllocatorSpecProofs`, `RebalanceSweepProofs`, `BakuVaultProofs`, `TradingAgentProofs`, `SigningQueuesProofs`, `WalletSessionProofs` | theorems about the module of that name (`BakuVaultProofs`: about `BakuVaultProps`) |

### Correspondence: the vault

One action is one contract call.  An error return or a trap reverts the
transaction, so each check of the code, in whatever order, is a guard; there is
no intermediate state to observe, and CEI order inside a call has no counterpart
but the order in which the ledgers are threaded through the operators
(`Transfer`, then `StrategyDeposit`, and so on).  A strategy call is therefore an
operator over the ledgers (`Deliverable`, `Credit`, `Debit`, `AllocatorDeposit`),
not an action.  Authorisation appears as who an action is quantified over: users
call for themselves, the admin's calls name no actor.  Contract storage maps to
variables one for one: `shares`, `supply`, `pending`, `nextRequestId`,
`totalPendingShares`, `active`, `registry`; `slots`, `nativeBps`, `paused`;
`position` (the mock's recorded balance or the bTokens), `token` (all balances of
the underlying), `bRate` (the pool's rate, external).  `wedged` is the set of
children whose calls trap at present; an authoritative one makes
`current_value` trap (`Readable`), another counts as empty.

The allocator's target weights, native share, drains, fundings and both passes
of `rebalance` use the code's integer divisions.  A Blend withdrawal delivers
any amount up to what was asked, because the strategy returns the balance
difference it measured.  The mock's `inject_yield` and the transfer of the
tokens that back it are two transactions, as in its tests.

### Correspondence: the agent and the wallet

Both are single-threaded event loops, so an action is the stretch of a handler
between two awaits, and a handler is a record with the await it is at (`pc`) and
what it carries over it: the document a tick loaded, the amount it decided on,
the store a message hydrated, the list it read.  Nothing else is remembered.  An
await that may fail is an alternative (`TickFails`, `CallEnds`, the failing
branches of a revocation's steps, `CallFails` of the session).

`TradingAgent`: `agent` is the document, `worker`, `lastSignal`, `pendingDir`,
`pendingTrade` and `cooling` the maps in memory, `tick` and `call` the handlers.
A swap may land and be reported as failed.  The price feed may take a payment from
the agent's account before it answers (`PayForPrice`).  A revocation whose recovery
fails in the database as well (`revoke-agent.ts:39`, `:42`) is `Lost`: nothing
polls the agent that it leaves active.  `bought` and `resets` are history: the buys
recorded since midnight, and how often the day's counter was reset since then.
HTTP and Telegram requests of one
kind take the same steps and are one handler; a user's request is made once.
Prices are what the feed answers; the exchange rate is one and the time since
the last DCA run is one bit, since no property is about amounts received or
durations.  An edit changes the limits; the strategies themselves are constant.

`SigningQueues`: a request is its uuid; `items` is the union of the four typed
queues (a request is in the one of its kind), `responses` the response queue,
`active` the set of uuids that a popup has marked as on screen.  `answer` is the dapp's
promise, of which the first resolution counts.  Signing takes the entry out,
signs and answers in one stretch, so it is one action with the code's early
returns as alternatives; adding a token and granting access have awaits inside
and are several.  A popup that is reloaded may approve again while its first
approval is being handled, so a request has several handlers (`Approvals`,
`call[<<r, i>>]`).  A payload signed on a hardware wallet is handed to the dapp
without the queue entry being touched (`HandleSignedHwPayload`); `signatures`
counts what the wallet's keys sign, `handed` what a dapp was handed.  A popup sets
its mark when it is mounted and takes it back when it goes, if that message gets
through (`Mount`, `Unmount`): closing a window leaves the mark as it is.  A window
may be refused with an error or simply not be there (`WindowRefused`,
`WindowMissing`).  There is no clock: the cleaner may find any entries expired,
and the answer handlers of any of these, which were created later.  A domain on
the allow list may be asked again, as it is when the wallet is locked.

`WalletSession`: `stored` is the state in `storage.session`, and a call carries
its own copy, which every dispatch saves whole.  `temp` maps each secret to the
hash key it is encrypted with; a secret can be read with that key only.  Hash
keys are numbered as they are derived.  `loginToAllAccounts` and `storeAccount`
are shared by several messages, as in the code (`part` says which a call is in).
The writes of the key store's list, of its id and of its name are steps of their
own.  At most one call of each type runs at a time, and up to `MaxDisturbances`
times a call starts, a timer fires or the worker stops while another call is
running, or an await of a call fails (`CallFails`, which in `storeAccount`'s part of
an addition clears the session first; `SkipSecret`, a login's secret that could not
be stored).  `undisturbed` says that none of this has happened yet: every call ran
alone, to its end and without a failure.

### Constants and bounds

The contract's constants are parameters with the assumptions the proofs need:
`VIRTUAL_SHARES`, `VIRTUAL_ASSETS`, `MIN_REDEEM_ASSETS`, `SCALAR_12`,
`MAX_CHILDREN`, `BPS_DENOM`.  TLC takes small values (2, 1, 1, 1 or 2, 1 to 5, 3 to
10), at which rounding happens on almost every conversion.  Bounds that are not in
the code: `MaxRequests` (ids; the code's are 64-bit), `MaxSupply` (the supply cannot
be bounded by the price since rounding can reset it; i128 in the code), `MaxTokens`
(yield stops there), `MaxRate`, and for the sweep `MaxHeld` and `MaxSweeps`.  Two
users, one to three children and four to six tokens suffice for every interleaving
of a request with another user's redemption, of a keeper's move with both, and for
every rounding remainder of the small divisors. The agent's bounds are `MaxDay`,
`MaxPrompts` and `MaxRestarts`, two overlapping ticks, and the requests of each run;
two ticks and two confirmations are what a race for one suggestion takes, and a
third party is the rejection.  Amounts are one to three, with tier limits that make
a sale a suggestion and a purchase automatic; in `agent_requests` the account holds
three days' budgets, one more than two ticks may spend.  `PriceFee`, what the feed
asks for a price, is one in the runs about revocation and zero where the budget is
the question, and `NetworkFails` lets a revocation's payments fail by themselves in
`agent_revoked` only: the counterexample `revoked_not_empty` needs no failing
network.  One suggestion per run is what the races are about; the proofs cover any
number.  `USDC_BALANCE_RESERVE` and `MIN_PLANNED_USDC` are the code's constants,
scaled.  The queues have two requests that range over all six kinds and two domains,
the first with two approvals handled at a time and the second with one
(`MCApprovals`), and `MaxRestarts` one; every interference in that module is between
two requests.  The session has `MaxAccounts` 3, `MaxCalls` 6, `MaxDisturbances` 1
(one overlap, one failure or one loss of the worker): create, add, sign out, log in,
switch and sign fit into six calls, and the third account is there for the list
positions to differ.

The proofs have no such bounds but `MaxRequests`, `MaxSupply`, `MaxTokens`,
`MaxRate`, `MaxHeld`, `MaxSweeps`, `MaxDay`, `MaxPrompts`, `MaxRestarts`,
`MaxAccounts`, `MaxCalls` and `MaxDisturbances`, which may be any naturals, and the
sets may be any sets, finite where something is summed over them (users,
strategies, an agent's handlers, the limits it may be given).

## 4. Runs

| run | shows |
|---|---|
| `vault_queue` | types, escrow, supply, solvency, the worth of queued requests and the refinement of `RedemptionQueue`, with two holders, yield and a working keeper; a redeem that the view lets through leaves in the buffer what the queue is owed |
| `vault_rotation` | rotations leave no funds behind, no call lowers the price; a trapping child stops all pricing; requests can always be cancelled |
| `vault_blend` | with pools that round and deliver short, one a strategy of the vault and one a child of the allocator, remaining holders lose at most rounding dust |
| `allocator_keeper` | a rebalance can always be paid for and hits its targets, nothing is abandoned, weights stay complete until an order names a child twice, no move of the admin changes the value |
| `sweep_twice` | two sweeps of `rebalance_step` restore any basket, in any order, and more leave it restored |
| `agent_revoked` | a tick, a confirmation, an edit, a revocation and a restart interleave: an agent that may trade is polled unless the database fails the recovery of a failed revocation, a revoked one comes to rest and stays there |
| `agent_requests` | two ticks, two confirmations, a rejection and the trustline set-up over two days: one swap per suggestion, an open suggestion blocks the next, and between two resets of the day's counter no more is recorded as bought than one budget per overlapping tick and one tier-2 trade per confirmed suggestion, whatever a late reset erases from the counter |
| `signing_queue` | two requests of every kind: yes only for what was approved, one signature per payload and one answer handed over although an approval is repeated while the first is handled, a window for whoever waits, nothing dropped while on screen, every dapp answered, queues empty in the end |
| `wallet_session` | calls that create, add, unlock, switch, sign and lock, any of whose awaits may fail: unlocked only with complete secrets, secrets of this session only, signatures by the account shown, every session ends |
| `queue_starved`, `revoked_not_empty`, `declined_by_another` | counterexamples, see section 6 |

Deadlock is not checked: contracts, servers and background workers only react,
and a state in which no call of the bounded inputs succeeds is no fault.

### Fairness

Safety runs assume none.  `queue_starved` assumes weak fairness of the operator's
draining (`request_redeem`'s doc comment relies on it) and strong fairness of each
owner's claim, who sends it again and again; its counterexample holds even so, for
the claim succeeds at no moment of it.  `sweep_twice` assumes that the
keeper goes on with its sweep.  `agent_revoked` assumes that every await of a
handler ends, by an answer, an error or a time-out (the HTTP clients and the
Stellar transactions have time-outs); not that any trade succeeds.
`signing_queue` assumes that the browser answers `windows.create`, that a window
is closed in the end (a popup closes itself after a decision), and that some tick of
the cleaner's interval finds everything expired; the user need not decide anything,
and a closed popup's mark need not be taken back.
`wallet_session` assumes that awaits of storage and of the wallet SDK end and
that the browser's alarm fires.

## 5. Proofs

All proofs are checked by TLAPS for arbitrary values of the constants under the
named assumptions of the modules: `AddressesDistinct`, `AddressesFinite`,
`RateBounds` (`Strategies`), `AllocatorConstants`, `BasketsWellFormed`,
`OrdersWellFormed` (`Allocator`), `AllocatorAlone` (`AllocatorSpec`),
`SweepBounds` (`RebalanceSweep`), `VirtualOffsets` (`ShareMath`),
`VaultConstants` (`BakuVault`), `AgentAssumption` (`TradingAgent`; an agent
starts as it is created, with nothing spent), `QueuesAssumption`
(`SigningQueues`) and `SessionAssumption` (`WalletSession`).  They give types,
distinct addresses and positive divisors.  TLC evaluates each on a run.  Where a
theorem has a hypothesis of its own, the run of its property satisfies it.

Sums are cardinalities of sets of units (`Tally`), so their laws follow from
those of finite sets without induction over data; the lemmas that need
induction (`TotalScaled`, `TotalPlus`, `GreatestOfSome`) take a minimal
counterexample instead.

### The vault (`BakuVaultProofs`)

* `TypeCorrect`, `EscrowSound`, `SupplySound`.  The type invariant is not
  inductive: that the supply stays natural after a burn needs that no one holds
  more than the supply, which is `SupplyAccounted`; that the count of pending
  shares stays natural needs `EscrowCoversQueue`.  Their conjunction `Books` is
  inductive.  One lemma per call proves its step; the share token, the queue's
  storage, payments and strategy deposits have lemmas of their own, and
  `AllocatorProofs` does the same for the admin's operations.
* `Solvency`, with the contract's `VIRTUAL_ASSETS = 1`: each conversion rounds
  down, sums of proportional amounts are proportional, and the virtual shares
  absorb what is left.  With more virtual assets than one it would not hold for
  small amounts.
* `QueueImplemented`: the vault refines `RedemptionQueue`; deposits issue free
  shares, redemptions spend them, transfers give or lose them, requests, claims
  and cancellations are the abstract ones, everything else stutters.
* `SharePriceNeverFalls`, without Blend strategies: a deposit mints, and a
  redemption pays, rounded down, so either moves value and supply in a
  proportion that favours those who stay, provided that the strategy's value
  moves by exactly what is paid.  That is the work: `MoveFundsKeepsValue` shows
  that what leaves a mock or the buffer arrives in another, for a deposit that
  fans out and for each of the keeper's moves.
* `LossesAreDust`, without hypotheses: for any basket and any pools a call costs
  the holders at most the worth of one bToken, rounded up, of every Blend position
  it may change (`Rounding`: the active strategy, or the Blend children of the
  allocator's basket).  `SuppliedWorth` and `WithdrawnWorth` bound what one rounding
  costs; the losses of the children that a deposit funds add up over the basket.
  The exceptions that the property names are real: a rotation out of a pool that
  delivers short, and a child that traps or is forced out.
* `RequestsStayWorthClaiming`: the price argument again, for the shares of each
  request, from the floor that `request_redeem` checks.  A child that traps or is
  forced out, or a pool that rounds, can push a request below it.
* `NothingIsPricedBlind`, without hypotheses: every call that mints or burns
  reads the active strategy's value first.
* `OnlyTheActiveHoldsFunds`: `Gathered` says that every other strategy of the
  vault is idle, that children outside of the basket are empty, and that children
  which may trap are authoritative.  `rebalance` of the vault takes what the old
  strategy reports; that nothing is left behind then needs the allocator's buffer
  to be all it reports (`BufferIsAll`), so nothing may be worth zero but be there.
  Hence the hypotheses: no child is forced out, children that may trap are
  registered as authoritative, and Blend strategies are children (a pool that
  delivers short leaves funds behind, section 6).
* `RoutedRedeemsKeepTheQueueCovered`, without hypotheses: `instant_redeemable_assets`
  subtracts what the queue is owed from the buffer, and a redeem that it lets through
  leaves that (`vault/src/lib.rs:616`).  Nothing makes a client ask it, and the
  repository's does not (section 6).  It says so with one unit to spare, and must:
  the redeem is paid rounded down, what it leaves raises the price of the shares
  that wait, and their worth, rounded down in turn, may grow by one
  (`OwedAfterPayment`; without the unit TLC finds the state).  That whatever is paid
  comes out of the buffer is `PaidFromBuffer`.
* `NothingBlocksCancelling`: `cancel_request` is its guard (`CancelGuard`: the
  request is there and the vault holds its shares) and an assignment to each
  variable, none of which looks at a strategy (`CancellingIsItsGuard`).  For every
  queued request of every reachable state the guard holds, with an owner to return
  the shares to.  `CancelAlwaysPossible` follows by the definition of ENABLED, which
  is the one step the provers do not take.
* `RoundTripsGainNothing`: of the two conversions composed, for any amounts.

### The allocator (`AllocatorSpecProofs`, `RebalanceSweepProofs`)

* `AllocatorTypes`: amounts that are moved are there to be moved.
* `RebalancesAreFunded`, without hypotheses: the weights never exceed the whole
  (`WeightsWithin`, inductive), each target is rounded down, so the targets are
  together within the value (`TargetsWithin`), which is buffer and children; what
  the children lack is then covered by the buffer and the others' excesses
  (`DeficitsCovered`).
* `BasketsAreComplete`, without hypotheses: weights and native share never exceed
  the whole, and fall short of it only from an order on that names a child twice
  (section 6).  The entries of an order that does not, and the weights it sets, are
  the same numbers; in one that does a later entry overwrites an earlier one, and what
  is stored may add up to less.
* `RebalancesHitTargets`: for every mock that can be called.
* `NothingIsAbandoned`: children outside of the basket are empty (`EmptyOutside`);
  that `remove_child` keeps this needs that the value it reads is the truth, which
  a non-authoritative child that traps breaks.  `WorthNothing` (the rate never
  falls below its scale) takes value zero to position zero.
* `KeeperKeepsTheValue`, for authoritative mock children, from `EmptyOutside` and
  `MoveFundsKeepsValue`: an added child brings nothing, a removed one takes nothing.
* `SecondSweepRestores`, for mock children that all have a weight: no child that a
  sweep has visited is above its target, since a visit moves neither the targets
  nor the other children; so after one sweep none is, every excess is zero, and
  `DeficitsCovered` leaves each deficit within the buffer (`BufferCoversAll`).  The
  sweep passes children without a weight by (`allocator-strategy/src/lib.rs:251`),
  so one that still holds funds is never drained.
* `SweepingOnConverges`, under the same hypotheses: what two sweeps have restored
  no further visit disturbs (`VisitKeepsRestored`).

### The trading agent (`TradingAgentProofs`)

For any number of ticks and requests that overlap, edits, failures and restarts.

* `SuggestionsExecutedOnce`, `SuggestionsBlock`, `TradingAgentsArePolled`,
  `RevokedAgentsRest`.  That a suggestion is executed once is not inductive: it
  needs that one that can be confirmed was made and has not been executed, nor any
  that is still to be made (`SuggestionsInv`).  That agents are polled needs that
  only a revocation's own handler is at a revocation's steps (`RevocationsInv`).  It
  holds until a revocation is `Lost`, and an edit or a restart makes it hold again.
* `AgentTypes`: a record's fields follow from the await a handler is at.
* `OverrunIsBounded`: every handler has a claim on the day's spending, which is
  what it may still add.  A tick claims the rest of the budget it loaded until it
  has decided, and then its trade; a confirmation claims its trade.  What the counter
  shows and what is claimed together never exceed one budget for each tick and one
  tier-2 trade for each suggestion confirmed (`BudgetInv`), although a stale
  document may be charged: when a tick loads the document its claim and what is
  spent are one budget, the other ticks claim one each at most, and the confirmations
  no more than the suggestions confirmed.  So each reset erases at most that much,
  and what has been bought since midnight is what the resets erased and what the
  counter shows (`DayInv`).
* `RevokedComesNearerToRest`: `TickWork` and `CallWork` count the awaits that a
  handler still has before it; while the agent is revoked every step of a handler
  leaves it fewer or none, no other step changes the count, and the agent is never
  activated again.  No awaits left is `AtRest` (`RestMeansNoWork`): this is the
  variant of the liveness property `RevokedComesToRest`.
* `RestIsForGood`: once at rest, a revoked agent stays there, so what
  `RevokedComesToRest` asks of fairness is only that it comes to rest once.

### The wallet (`SigningQueuesProofs`, `WalletSessionProofs`)

For any number of requests, domains and accounts.

* `QueueTypes`, `GrantsAreApproved`, `PayloadsSignedOnce`,
  `WaitingDappsHaveWindows`.  What has a window, a handler or an answer was asked
  for (`MadeInv`); what is being handled was approved, and the allow list, with
  every copy of it that a handler is about to write back, holds only domains the
  user approved a request of (`GrantInv`); an entry still in its queue has not been
  signed by the wallet, and a response still in its own has been handed nothing
  (`SignedInv`), so neither can happen twice, however many handlers of a request run
  and whatever a hardware wallet has signed.  `WaitingHasWindow` is inductive beside
  the types.
* `ShownRequestsAreKept`: whatever takes an entry of a request on screen settles
  its answer or is a handler of its own; the cleaner asks for the mark first.
* `AnsweredOncePopupsClose`: a popup that is closed has answered its dapp
  (`WaitingHasWindow`), and requests do not change their kind, so
  `SigningAnswered` asks only that popups are closed in the end.
* `SessionTypes`, `SessionUnlocksAfterSecrets`, for calls that overlap in any way.
  A call that is past its last write carries a key that is in `written`, and the
  state it carries, which it may save long after others have changed the store,
  says unlocked only with such a key (`UnlockInv`).  A login is past a secret also
  when storing it failed, as in the code (`login-all-accounts.ts:93`).
* `SecretsFollowTheSession`, `ShownAccountSigns`, for calls that ran alone, to their
  end and without a failure. `AloneInv` says where such a call finds the stores at
  each of its awaits (`PhaseOf`), and what a call leaves behind (`Settled`): the
  accounts on the list are the keyring's, and each has a secret of this session.
  What the key store's id names may differ from the account on show after an unlock;
  it signs nothing then, because an unlock stores no secret under such an id
  (`KeyIdHarmless`).

### Only model-checked

TLAPS 1.4 has no rules for fairness or ENABLED.

* `SweepingConverges`, `RevokedComesToRest`, `SigningAnswered`: the safety half is
  proved, from a premise that something happens at all (two sweeps are completed,
  the agent comes to rest once, popups are closed).  That the premise holds under
  the fairness of section 4 is left to TLC.
* `QueuesDrain`, `SessionEnds`: wholly.
* `CancelAlwaysPossible`: that an action with a true guard and an assignment to
  each variable is enabled.

## 6. Findings

Three are runs:

1. `queue_starved`: `redeem` takes from the buffer whatever waits in the queue, and
   the repository's client never asks `instant_redeemable_assets`: it builds a
   `redeem` for every withdrawal (`services/vault/api/src/routes/vault.ts:280-318`
   and the YieldHub page it serves).  So instant redeems keep a queued claim unpaid
   for ever although the operator drains again and again, against the comment at
   `vault/src/lib.rs:623-626`, by which queued claims have priority and the dApp
   routes.
2. `revoked_not_empty`: `transferAllAssets` pays the amount it read at the start
   and skips a payment that fails, also one that fails because a swap took the USDC
   in between; the agent is then disabled with the rest in it.
3. `declined_by_another`: closing any window of the browser tells every dapp that
   waits for a signature that its user rejected the request, while its popup is
   still on screen.

What else the models show of the code.  Of these the modules have the behaviour,
but no run of its own:

* Vault.  One sweep of `rebalance_step` does not complete a restore when an
  underweight child precedes the overweight one that pays for it, against the
  comment at `allocator-strategy/src/lib.rs:251`; a second sweep does.  `rebalance`
  of the vault accepts any positive delivery, so a rotation out of a Blend pool
  short of liquidity leaves funds with an inactive strategy (`vault/src/lib.rs:436`
  says the drain is total).  `set_target_weights` accepts an order that names a
  child twice and stores weights that do not add up, and the constructor accepts such
  a basket (`allocator-strategy/src/lib.rs:56-65`).  `fund_child` funds
  non-authoritative children, which a failed reading then prices at zero.
* Agent.  The daily cap does not hold: two overlapping ticks, or a tick and a
  confirmation, each spend what was left when they loaded the document, and the
  second of two overlapping daily resets erases what has been spent.  With a late
  reset a budget is spent once more on each side of it: `agent_requests` bounds what
  is recorded between two resets, not in a day.  A swap that lands although its
  answer is an error is not recorded at all, nor is what the price feed is paid.  A
  failed revocation starts the worker again, but not when the update of its catch
  branch (`revoke-agent.ts:39`) or the look at the document (`:42`) fails as well:
  then the agent stays active and unpolled, against the comment at `:15`.  A host
  name that cannot be resolved (`ENOTFOUND`) counts as an account that does not
  exist, so a revocation during an outage disables the agent with everything still
  in it.  The button of an older suggestion confirms the newest one.  A balance that
  cannot be read counts as zero, yet the signal of that tick is remembered, so the
  next one makes no suggestion.  A revocation of a worker that is already stopped
  forgets the suggestion but not its direction.
* Queues.  The popup sends `REJECT_ACCESS` for every kind of request, and
  `handleSignedHwPayload` takes only the answer handler, so the queue entries stay
  until they expire; an approval after a hardware signature signs the same payload
  with the wallet's key too, though no dapp hears of it.  An entry whose closed
  popup did not get its last message through stays marked, and the cleaner spares it
  for ever.  A listed domain is asked again when the wallet is locked.  Requests for
  access have no listener for closed windows: such a dapp waits until the cleaner
  has dropped its handler, and longer.
* Session.  A handler that resumes after a sign-out or a time-out saves its old
  state, hash key and all, over the new one; a worker stopped between the two writes
  of a switch leaves the key store and the shown account apart; one stopped before
  the timer starts leaves a session without an alarm.  Two calls that each read the
  temporary store and write all of it back lose one another's secrets. A login goes
  on when a secret cannot be stored: the wallet says unlocked, and that account
  cannot sign until the next login.  When storing an added account fails, or the
  worker is stopped, between the dispatch that lists the account and the write of
  the key store's list, the two lists no longer match by position, and a later
  switch makes another account's key store the active one.  This is why three of the
  session's properties are stated for calls that ran alone and did not fail.
  Unlocking stores the secrets under the accounts' public keys only, while signing
  for a dapp looks under the id of the key store: after an unlock it answers
  "Session timed out" until an account is added.

## 7. Not modelled

Within the modelled contracts: `set_vault` and the apy setters, events,
instance-storage lifetimes, resource limits, i128 overflow (checked arithmetic
reverts the call) and reentrancy (the host forbids it).  A basket whose constructor
was given a child twice cannot be represented: a basket is a function of its
children.

Within the agent: the x402 exchange but for the payment it may make, edits of single
strategies and `PUT /rules`' rewriting of them (how a save merges concurrent changes
of an array is up to the database library), the low-balance alert, logs and metrics,
the creation of agents, the menus.

Within the wallet: a login whose last dispatch fails (it clears the session and then
starts it), which is a time-out but for the alarm; a wrong password (a login's
failing await); replacing a wallet (`recoverAccount`, `createAccount` over an old
one) and the migration of accounts, which depend on what the external wallet SDK
does with a second mnemonic; `importAccount`, which takes `addAccount`'s steps but
for one SDK call; hardware wallets beyond their signature; the SDK's in-memory
keyring, which lets the popup sign while the worker lives; names of accounts;
settings, assets and caches, which are single reads and writes of storage; and
`REJECT_TRANSACTION`, which nothing sends.

Most of the repository's TypeScript is the popup's views, network clients,
translations, styles and test stubs, which render or forward what the background
and the services decide.  They keep no state whose steps could be specified, so
the share of the lines that the modules translate is small, and stays so.

Everything marked `not_modelled` in `PROJECT.json` is left out for the reason
given there.
