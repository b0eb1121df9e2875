----------------------------- MODULE TradingAgent -----------------------------
(***************************************************************************)
(* One trading agent of services/agent: its document in the database, its  *)
(* account on the chain, the memory the server keeps about it, and the     *)
(* handlers that run on them.  A handler is an async function: it is       *)
(* interrupted at every await and reads nothing again afterwards, so each  *)
(* action below is one stretch between two awaits, and what a handler      *)
(* remembers is the record it carries.                                     *)
(*                                                                         *)
(* setInterval starts a tick whether or not the last one has finished, so  *)
(* there are several Ticks.  A Call is one request of a user, by Telegram  *)
(* or by HTTP, and is made once.                                           *)
(***************************************************************************)
EXTENDS StrategyEngine, TradeRouting

CONSTANTS
    Ticks,          \* runs of the worker's interval that may overlap
    Calls,          \* requests of the user
    Handler,        \* the handler that serves each of them
    Strategies,     \* the strategies of the agent, in their order
    Prices,         \* prices of XLM the feed answers with
    Limits,         \* limits the user may set
    InitialAgent, InitialUsdc,
    PriceFee,       \* USDC that the price feed may ask for an answer, or 0
    NetworkFails,   \* whether the network may fail a revocation by itself
    MaxDay, MaxPrompts, MaxRestarts

Handlers == {"confirm", "reject", "edit", "trustline", "revoke"}
Directions == {"buy_xlm", "sell_xlm"}
Signals == Directions \cup {"none"}

\* What the handlers read of an agent's document; due: the interval of its DCA
\* strategy has passed since the last run.
Documents ==
    [active : BOOLEAN, ready : BOOLEAN, confirm : BOOLEAN, due : BOOLEAN,
     spentToday : Nat, lastReset : Nat, tier1Max : Nat, tier2Max : Nat, dailyBudget : Nat]

ASSUME AgentAssumption ==
    /\ IsFiniteSet(Ticks) /\ IsFiniteSet(Calls) /\ IsFiniteSet(Limits)
    /\ Strategies \in Seq([type : StrategyTypes, enabled : BOOLEAN, threshold : Nat, amount : Nat])
    /\ Prices \subseteq Nat
    /\ InitialAgent \in Documents /\ InitialAgent.spentToday = 0
    /\ Limits \subseteq [tier1Max : Nat, tier2Max : Nat, dailyBudget : Nat]
    /\ Handler \in [Calls -> Handlers]
    /\ InitialUsdc \in Nat /\ PriceFee \in Nat /\ NetworkFails \in BOOLEAN
    /\ MaxDay \in Nat /\ MaxPrompts \in Nat /\ MaxRestarts \in Nat

VARIABLES
    agent,          \* the document: status, limits, spending, last DCA run
    usdc, xlm,      \* what the agent's account can spend
    day,            \* the UTC day
    bought,         \* history: USDC recorded as spent since midnight
    resets,         \* history: resets of spentToday saved since midnight
    worker,         \* activeWorkers has the agent
    lastSignal,     \* lastSignalByAgent
    pendingDir,     \* pendingTier2ByAgent of the worker manager
    pendingTrade,   \* the suggestion of pending-tier2.ts
    cooling,        \* lastTier1AutoTradeAtByAgent is less than 30 s old
    tick, call,     \* the handlers that are running
    prompts,        \* suggestions made
    executed,       \* swaps sent for each suggestion
    restarts

memory == <<worker, lastSignal, pendingDir, pendingTrade, cooling>>
funds == <<usdc, xlm>>
history == <<prompts, executed>>
today == <<day, bought, resets>>
vars == <<agent, funds, today, memory, tick, call, history, restarts>>

NoTrade == [dir |-> "none", amount |-> 0, prompt |-> 0]
Idle == [pc |-> "idle"]
Done == [pc |-> "done"]
Lost == [pc |-> "lost"]

Init ==
    /\ agent = InitialAgent
    /\ usdc = InitialUsdc /\ xlm = 0
    /\ day = InitialAgent.lastReset /\ bought = 0 /\ resets = 0
    /\ worker = (agent.active /\ agent.ready)
    /\ lastSignal = "none" /\ pendingDir = "none" /\ pendingTrade = NoTrade
    /\ cooling = FALSE
    /\ tick = [t \in Ticks |-> Idle]
    /\ call = [c \in Calls |-> Idle]
    /\ prompts = 0 /\ executed = [p \in 1 .. MaxPrompts |-> 0]
    /\ restarts = 0

-----------------------------------------------------------------------------
(* The chain: a path payment within the account, at a rate of one.  A swap *)
(* can fail, and it can land although the answer is an error.              *)
Swapped(dir, amount) ==
    IF dir = "buy_xlm"
    THEN usdc >= amount /\ usdc' = usdc - amount /\ xlm' = xlm + amount
    ELSE xlm >= amount /\ xlm' = xlm - amount /\ usdc' = usdc + amount

-----------------------------------------------------------------------------
(* Starting and stopping the worker.                                       *)
StartAgentWorker == worker' = TRUE /\ UNCHANGED <<lastSignal, cooling>>

\* Forgets the suggestion itself.
ClearDirectionOnly == pendingDir' = "none" /\ UNCHANGED pendingTrade

ClearTier2 == pendingDir' = "none" /\ pendingTrade' = NoTrade

StopAgentWorker ==
    /\ worker' = FALSE
    /\ IF worker THEN lastSignal' = "none" /\ pendingDir' = "none" /\ cooling' = FALSE
                 ELSE UNCHANGED <<lastSignal, pendingDir, cooling>>

-----------------------------------------------------------------------------
(* A tick of the worker.                                                   *)
NeedsDailyReset(doc) == doc.lastReset < day
WithReset(doc) == [doc EXCEPT !.spentToday = 0, !.lastReset = day]

TickGoes(t, to) == tick' = [tick EXCEPT ![t] = to]

\* Without a time-out on the swap.
TickFailsUnlessSwapping(t) ==
    /\ tick[t].pc \notin {"idle", "swap"}
    /\ TickGoes(t, Idle)
    /\ UNCHANGED <<agent, funds, today, memory, call, history, restarts>>

\* Any database or network call of a tick can fail; the tick ends there.
TickFails(t) ==
    /\ tick[t].pc # "idle"
    /\ TickGoes(t, Idle)
    /\ UNCHANGED <<agent, funds, today, memory, call, history, restarts>>

Fire(t) ==
    /\ worker /\ tick[t].pc = "idle"
    /\ TickGoes(t, [pc |-> "fired"])
    /\ UNCHANGED <<agent, funds, today, memory, call, history, restarts>>

\* Does not look at the status of the agent it loads.
LoadAnyAgent(t) ==
    /\ tick[t].pc = "fired"
    /\ TickGoes(t, [pc |-> "balance", snap |-> agent])
    /\ UNCHANGED <<agent, funds, today, memory, call, history, restarts>>

LoadAgent(t) ==
    /\ tick[t].pc = "fired"
    /\ TickGoes(t, IF ~agent.active \/ ~agent.ready THEN Idle
                   ELSE IF NeedsDailyReset(agent)
                   THEN [pc |-> "reset", snap |-> WithReset(agent)]
                   ELSE [pc |-> "balance", snap |-> agent])
    /\ UNCHANGED <<agent, funds, today, memory, call, history, restarts>>

\* Saves zero and the time at which the tick found the reset due, which may be
\* long ago: what other handlers have recorded meanwhile is lost.
ResetDailySpend(t) ==
    /\ tick[t].pc = "reset"
    /\ agent' = [agent EXCEPT !.spentToday = 0, !.lastReset = tick[t].snap.lastReset]
    /\ resets' = resets + 1
    /\ TickGoes(t, [pc |-> "balance", snap |-> tick[t].snap])
    /\ UNCHANGED <<funds, day, bought, memory, call, history, restarts>>

\* A balance that cannot be read counts as zero.
GetBalance(t) ==
    /\ tick[t].pc = "balance"
    /\ \E seen \in {usdc, 0} :
          TickGoes(t, [pc |-> "price", snap |-> tick[t].snap, usdc |-> seen])
    /\ UNCHANGED <<agent, funds, today, memory, call, history, restarts>>

\* fetchPrice: the feed may answer at once or ask for a payment first, which the
\* daily budget does not count.
PayForPrice(t) ==
    /\ tick[t].pc = "price"
    /\ PriceFee > 0 /\ usdc >= PriceFee
    /\ usdc' = usdc - PriceFee
    /\ TickGoes(t, [tick[t] EXCEPT !.pc = "paid"])
    /\ UNCHANGED <<agent, xlm, today, memory, call, history, restarts>>

\* The action the strategies agree on at price p, with its amount and route.
Plan(snap, balance, p) ==
    LET firing  == EvaluateStrategies(Strategies, snap.due, p)
        s       == SelectAction(Strategies, firing)
        planned == PlannedBuy(snap, balance, s.amount)
    IN IF firing = {} THEN [dir |-> "none", amount |-> 0, type |-> "none", route |-> "skip"]
       ELSE IF Direction(s) = "buy_xlm"
       THEN [dir |-> "buy_xlm", amount |-> planned, type |-> s.type,
             route |-> RouteBuy(snap, planned)]
       ELSE [dir |-> "sell_xlm", amount |-> s.amount, type |-> s.type,
             route |-> RouteSell(snap, s.amount, p)]

Automatic(plan, snap) ==
    plan.route = "tier1_auto" \/ (plan.route = "tier2_confirm" /\ ~snap.confirm)

\* A suggestion is made on entering the zone, unless one is pending.
MayPrompt(plan) ==
    plan.route = "tier2_confirm" /\ lastSignal # plan.dir /\ pendingDir # plan.dir

\* From the answer of the price feed to the next await.
Decide(t, p) ==
    /\ tick[t].pc \in {"price", "paid"}
    /\ LET snap == tick[t].snap
           plan == Plan(snap, tick[t].usdc, p)
           auto == Automatic(plan, snap)
           hot  == lastSignal = plan.dir /\ cooling
       IN /\ lastSignal' = plan.dir
          /\ UNCHANGED <<worker, cooling>>
          /\ \/ /\ plan.dir = "none" /\ ClearTier2
                /\ TickGoes(t, Idle) /\ UNCHANGED history
             \/ /\ auto /\ ~hot
                /\ TickGoes(t, [pc |-> "swap", dir |-> plan.dir, amount |-> plan.amount,
                                type |-> plan.type])
                /\ UNCHANGED <<pendingDir, pendingTrade, history>>
             \/ /\ ~auto /\ MayPrompt(plan) /\ prompts < MaxPrompts
                /\ prompts' = prompts + 1 /\ UNCHANGED executed
                /\ pendingDir' = plan.dir
                /\ pendingTrade' = [dir |-> plan.dir, amount |-> plan.amount, prompt |-> prompts']
                /\ TickGoes(t, Idle)
             \/ /\ plan.dir # "none"
                /\ IF auto THEN hot ELSE ~MayPrompt(plan)
                /\ TickGoes(t, Idle) /\ UNCHANGED <<pendingDir, pendingTrade, history>>
    /\ UNCHANGED <<agent, funds, today, call, restarts>>

ExecuteSwap(t) ==
    /\ tick[t].pc = "swap"
    /\ Swapped(tick[t].dir, tick[t].amount)
    /\ \/ TickGoes(t, [tick[t] EXCEPT !.pc = "record"])
       \/ TickGoes(t, Idle)
    /\ UNCHANGED <<agent, today, memory, call, history, restarts>>

AfterRecord(t) == IF tick[t].type = "dca" THEN "mark" ELSE "notify"

\* Adds a buy to what was spent today.
RecordSpending(dir, amount) ==
    /\ IF dir = "buy_xlm"
       THEN agent' = [agent EXCEPT !.spentToday = @ + amount] /\ bought' = bought + amount
       ELSE UNCHANGED <<agent, bought>>
    /\ UNCHANGED <<day, resets>>

RecordTrade(t) ==
    /\ tick[t].pc = "record"
    /\ RecordSpending(tick[t].dir, tick[t].amount)
    /\ TickGoes(t, [tick[t] EXCEPT !.pc = AfterRecord(t)])
    /\ UNCHANGED <<funds, memory, call, history, restarts>>

MarkDcaRun(t) ==
    /\ tick[t].pc = "mark"
    /\ agent' = [agent EXCEPT !.due = FALSE]
    /\ TickGoes(t, [tick[t] EXCEPT !.pc = "notify"])
    /\ UNCHANGED <<funds, today, memory, call, history, restarts>>

\* The log entry and the Telegram message, and then the cooldown.
Notify(t) ==
    /\ tick[t].pc = "notify"
    /\ cooling' = TRUE
    /\ TickGoes(t, Idle)
    /\ UNCHANGED <<agent, funds, today, worker, lastSignal, pendingDir, pendingTrade,
                   call, history, restarts>>
-----------------------------------------------------------------------------
(* The user's requests.  Each begins by loading the document; a rejection   *)
(* makes no use of it.                                                     *)
CallGoes(c, to) == call' = [call EXCEPT ![c] = to]

LoadForCall(c) ==
    /\ call[c].pc = "idle" /\ Handler[c] # "reject"
    /\ CallGoes(c, [pc |-> Handler[c], snap |-> agent])
    /\ UNCHANGED <<agent, funds, today, memory, tick, history, restarts>>

\* A request that finds nothing to do, or whose next call fails.
CallEnds(c) ==
    /\ call[c].pc \in {"confirm", "edit", "trustline", "swap", "record", "setup"}
    /\ CallGoes(c, Done)
    /\ UNCHANGED <<agent, funds, today, memory, tick, history, restarts>>

\* Does not look whether there is a suggestion.
ConfirmAnything(c) ==
    /\ call[c].pc = "confirm" /\ call[c].snap.active
    /\ CallGoes(c, [pc |-> "swap", trade |-> pendingTrade])
    /\ ClearTier2
    /\ UNCHANGED <<agent, funds, today, worker, lastSignal, cooling, tick, history, restarts>>

\* Clears the suggestion only when the swap is over.
ConfirmUnclaimed(c) ==
    /\ call[c].pc = "confirm" /\ call[c].snap.active
    /\ pendingTrade # NoTrade
    /\ CallGoes(c, [pc |-> "swap", trade |-> pendingTrade])
    /\ executed' = [executed EXCEPT ![pendingTrade.prompt] = @ + 1]
    /\ UNCHANGED <<agent, funds, today, memory, tick, prompts, restarts>>

\* Confirm takes the suggestion and clears it before it awaits the swap.
Confirm(c) ==
    /\ call[c].pc = "confirm" /\ call[c].snap.active
    /\ pendingTrade # NoTrade
    /\ CallGoes(c, [pc |-> "swap", trade |-> pendingTrade])
    /\ ClearTier2
    /\ executed' = [executed EXCEPT ![pendingTrade.prompt] = @ + 1]
    /\ UNCHANGED <<agent, funds, today, worker, lastSignal, cooling, tick, prompts, restarts>>

ConfirmedSwap(c) ==
    /\ call[c].pc = "swap"
    /\ Swapped(call[c].trade.dir, call[c].trade.amount)
    /\ \/ CallGoes(c, [pc |-> "record", trade |-> call[c].trade])
       \/ CallGoes(c, Done)
    /\ UNCHANGED <<agent, today, memory, tick, history, restarts>>

RecordConfirmed(c) ==
    /\ call[c].pc = "record"
    /\ RecordSpending(call[c].trade.dir, call[c].trade.amount)
    /\ CallGoes(c, Done)
    /\ UNCHANGED <<funds, memory, tick, history, restarts>>

Reject(c) ==
    /\ Handler[c] = "reject" /\ call[c].pc = "idle"
    /\ ClearTier2
    /\ CallGoes(c, Done)
    /\ UNCHANGED <<agent, funds, today, worker, lastSignal, cooling, tick, history, restarts>>

\* An edit saves the limits it changes and restarts the interval of an agent
\* that was trading when the request loaded it.
Edit(c, limits) ==
    /\ call[c].pc = "edit"
    /\ agent' = [agent EXCEPT !.tier1Max = limits.tier1Max, !.tier2Max = limits.tier2Max,
                              !.dailyBudget = limits.dailyBudget]
    /\ IF call[c].snap.active /\ call[c].snap.ready THEN StartAgentWorker
       ELSE UNCHANGED <<worker, lastSignal, cooling>>
    /\ CallGoes(c, Done)
    /\ UNCHANGED <<funds, today, pendingDir, pendingTrade, tick, history, restarts>>

CreateTrustline(c) ==
    /\ call[c].pc = "trustline" /\ call[c].snap.active /\ ~call[c].snap.ready
    /\ CallGoes(c, [pc |-> "setup"])
    /\ UNCHANGED <<agent, funds, today, memory, tick, history, restarts>>

TrustlineReady(c) ==
    /\ call[c].pc = "setup"
    /\ agent' = [agent EXCEPT !.ready = TRUE]
    /\ IF agent.active THEN StartAgentWorker ELSE UNCHANGED <<worker, lastSignal, cooling>>
    /\ CallGoes(c, Done)
    /\ UNCHANGED <<funds, today, pendingDir, pendingTrade, tick, history, restarts>>
-----------------------------------------------------------------------------
(* Revocation: stop the worker, pay everything out, disable the agent.  It *)
(* is Lost when the failure of its last database call ends it.             *)
RevokePcs == {"balances", "payUsdc", "native", "payXlm", "disable", "unfunded", "recheck"}
Revoking(c) == Handler[c] = "revoke" /\ call[c].pc \in RevokePcs

RevokeBegins(c) ==
    /\ call[c].pc = "revoke"
    /\ IF call[c].snap.active
       THEN /\ StopAgentWorker /\ pendingTrade' = NoTrade
            /\ CallGoes(c, [pc |-> "balances"])
       ELSE CallGoes(c, Done) /\ UNCHANGED memory
    /\ UNCHANGED <<agent, funds, today, tick, history, restarts>>

\* The first reading of the account.  An agent without a trustline may have no
\* account yet: there is nothing to pay out.  isAccountNotFound goes by the error's
\* message, so that a host name that cannot be resolved (ENOTFOUND) counts as that.
ReadBalances(c) ==
    /\ call[c].pc = "balances"
    /\ \/ CallGoes(c, [pc |-> "payUsdc", amount |-> usdc])
       \/ (~agent.ready \/ NetworkFails) /\ CallGoes(c, [pc |-> "unfunded"])
       \/ CallGoes(c, [pc |-> "recheck"])
    /\ UNCHANGED <<agent, funds, today, memory, tick, history, restarts>>

\* A payment of the amount read before fails if less is left, and it may fail by
\* itself (the payout wallet has no trustline, the network); it is then skipped.
Fails(amount, balance) == balance < amount \/ NetworkFails

PayUsdc(c) ==
    /\ call[c].pc = "payUsdc"
    /\ \/ usdc >= call[c].amount /\ usdc' = usdc - call[c].amount
       \/ Fails(call[c].amount, usdc) /\ UNCHANGED usdc
    /\ CallGoes(c, [pc |-> "native"])
    /\ UNCHANGED <<agent, xlm, today, memory, tick, history, restarts>>

ReadNative(c) ==
    /\ call[c].pc = "native"
    /\ \/ CallGoes(c, [pc |-> "payXlm", amount |-> xlm])
       \/ NetworkFails /\ CallGoes(c, [pc |-> "disable"])
    /\ UNCHANGED <<agent, funds, today, memory, tick, history, restarts>>

PayXlm(c) ==
    /\ call[c].pc = "payXlm"
    /\ \/ xlm >= call[c].amount /\ xlm' = xlm - call[c].amount
       \/ Fails(call[c].amount, xlm) /\ UNCHANGED xlm
    /\ CallGoes(c, [pc |-> "disable"])
    /\ UNCHANGED <<agent, usdc, today, memory, tick, history, restarts>>

Disable(c) ==
    /\ call[c].pc = "disable"
    /\ \/ agent' = [agent EXCEPT !.active = FALSE] /\ CallGoes(c, Done)
       \/ UNCHANGED agent /\ CallGoes(c, [pc |-> "recheck"])
    /\ UNCHANGED <<funds, today, memory, tick, history, restarts>>

\* In the catch branch: nobody rechecks if this update fails.
DisableUnfunded(c) ==
    /\ call[c].pc = "unfunded"
    /\ \/ agent' = [agent EXCEPT !.active = FALSE] /\ CallGoes(c, Done)
       \/ UNCHANGED agent /\ CallGoes(c, Lost)
    /\ UNCHANGED <<funds, today, memory, tick, history, restarts>>

\* Only reports the failure.
LeaveStopped(c) ==
    /\ call[c].pc = "recheck"
    /\ CallGoes(c, Done)
    /\ UNCHANGED <<agent, funds, today, memory, tick, history, restarts>>

\* After a failure the worker is started again if the agent is still active, unless
\* the database fails once more.
RestartAfterFailure(c) ==
    /\ call[c].pc = "recheck"
    /\ \/ /\ IF agent.active /\ agent.ready THEN StartAgentWorker
             ELSE UNCHANGED <<worker, lastSignal, cooling>>
          /\ CallGoes(c, Done)
       \/ CallGoes(c, Lost) /\ UNCHANGED <<worker, lastSignal, cooling>>
    /\ UNCHANGED <<agent, funds, today, pendingDir, pendingTrade, tick, history, restarts>>
-----------------------------------------------------------------------------
(* The clock, and the server stopping and starting again.                  *)
Midnight ==
    /\ day < MaxDay
    /\ day' = day + 1 /\ bought' = 0 /\ resets' = 0
    /\ UNCHANGED <<agent, funds, memory, tick, call, history, restarts>>

IntervalElapses ==
    /\ ~agent.due
    /\ agent' = [agent EXCEPT !.due = TRUE]
    /\ UNCHANGED <<funds, today, memory, tick, call, history, restarts>>

CooldownEnds ==
    /\ cooling
    /\ cooling' = FALSE
    /\ UNCHANGED <<agent, funds, today, worker, lastSignal, pendingDir, pendingTrade,
                   tick, call, history, restarts>>

Restart ==
    /\ restarts < MaxRestarts
    /\ restarts' = restarts + 1
    /\ tick' = [t \in Ticks |-> Idle]
    /\ call' = [c \in Calls |-> IF call[c].pc = "idle" THEN Idle ELSE Done]
    /\ worker' = (agent.active /\ agent.ready)
    /\ lastSignal' = "none" /\ cooling' = FALSE
    /\ ClearTier2
    /\ UNCHANGED <<agent, funds, today, history>>
-----------------------------------------------------------------------------
TickStep(t) ==
    \/ LoadAgent(t) \/ ResetDailySpend(t) \/ GetBalance(t) \/ PayForPrice(t)
    \/ \E p \in Prices : Decide(t, p)
    \/ ExecuteSwap(t) \/ RecordTrade(t) \/ MarkDcaRun(t) \/ Notify(t)
    \/ TickFails(t)

RevokeStep(c) ==
    \/ RevokeBegins(c) \/ ReadBalances(c) \/ PayUsdc(c) \/ ReadNative(c) \/ PayXlm(c)
    \/ Disable(c) \/ DisableUnfunded(c) \/ RestartAfterFailure(c)

CallStep(c) ==
    \/ Confirm(c) \/ ConfirmedSwap(c) \/ RecordConfirmed(c)
    \/ \E l \in Limits : Edit(c, l)
    \/ CreateTrustline(c) \/ TrustlineReady(c)
    \/ RevokeStep(c) \/ CallEnds(c)

Next ==
    \/ \E t \in Ticks : Fire(t) \/ TickStep(t)
    \/ \E c \in Calls : LoadForCall(c) \/ Reject(c) \/ CallStep(c)
    \/ Midnight \/ IntervalElapses \/ CooldownEnds \/ Restart

Spec == Init /\ [][Next]_vars

\* Every await ends, by an answer, an error or a time-out.
Fairness ==
    /\ \A t \in Ticks : WF_vars(TickStep(t))
    /\ \A c \in Calls : WF_vars(CallStep(c))

FairSpec == Spec /\ Fairness
-----------------------------------------------------------------------------
(* The shape of the state.                                                 *)
Trades == [dir : Directions, amount : Nat, prompt : 1 .. MaxPrompts]

TickStates ==
    {Idle} \cup [pc : {"fired"}]
    \cup [pc : {"reset", "balance"}, snap : Documents]
    \cup [pc : {"price", "paid"}, snap : Documents, usdc : Nat]
    \cup [pc : {"swap", "record", "mark", "notify"}, dir : Directions, amount : Nat,
          type : StrategyTypes]

CallStates ==
    {Idle, Done, Lost}
    \cup [pc : {"setup", "balances", "native", "disable", "unfunded", "recheck"}]
    \cup [pc : Handlers, snap : Documents]
    \cup [pc : {"swap", "record"}, trade : Trades]
    \cup [pc : {"payUsdc", "payXlm"}, amount : Nat]

\* Every variable has its type; in particular a swap in flight has an amount and
\* a direction, and a suggestion is one that was made.
TypeOK ==
    /\ agent \in Documents /\ usdc \in Nat /\ xlm \in Nat
    /\ day \in Nat /\ bought \in Nat /\ resets \in Nat
    /\ worker \in BOOLEAN /\ cooling \in BOOLEAN
    /\ lastSignal \in Signals /\ pendingDir \in Signals
    /\ pendingTrade \in Trades \cup {NoTrade}
    /\ tick \in [Ticks -> TickStates] /\ call \in [Calls -> CallStates]
    /\ prompts \in 0 .. MaxPrompts /\ executed \in [1 .. MaxPrompts -> Nat]
    /\ restarts \in 0 .. MaxRestarts
-----------------------------------------------------------------------------
(* What must hold.                                                         *)

\* A suggestion is swapped once, however many confirmations of it arrive by
\* Telegram and by HTTP while the first one waits for its swap.
OnePromptOneSwap == \A p \in 1 .. MaxPrompts : executed[p] <= 1

\* The two maps that remember a suggestion agree: while one can be confirmed the
\* worker does not make another in its direction.
SuggestionBlocksPrompt == pendingTrade # NoTrade => pendingDir = pendingTrade.dir

\* An agent that may trade is polled, unless a revocation of it is under way.
Polled == agent.active /\ agent.ready => worker \/ \E c \in Calls : Revoking(c)

\* Restarts, edits, the trustline and failed revocations all bring the worker back:
\* an agent that is polled stays so, except that a revocation may fail and the
\* database call by which it would put things right as well (revoke-agent.ts:39, 42).
ActiveIsPolled ==
    Polled /\ [][Polled => Polled' \/ \E c \in Calls : call[c] # Lost /\ call'[c] = Lost]_vars

\* Nothing that was begun while the agent was active is still running.
AtRest ==
    /\ \A t \in Ticks : tick[t].pc \in {"idle", "fired"}
    /\ \A c \in Calls :
          \/ call[c].pc \in {"idle", "done", "lost"}
          \/ call[c].pc \in Handlers /\ ~call[c].snap.active

\* Once a revoked agent has come to rest its account is not traded with again,
\* although its worker may be polling (an edit may start it after the
\* revocation) and a suggestion may be pending.
RevokedStaysAtRest ==
    [][~agent.active /\ AtRest => UNCHANGED funds /\ AtRest']_vars

\* And it comes to rest for good: no handler goes on for ever with a revoked agent.
RevokedComesToRest == ~agent.active ~> [](~agent.active /\ AtRest)

\* The daily budget is checked when a buy is planned and charged when its swap is
\* over, and a reset erases what was charged before it, so it is no cap on what is
\* bought in a day.  But the overrun is bounded: from one reset to the next, whatever
\* edits and restarts come in between, the buys that are recorded are within one budget
\* for each tick that may overlap and one tier-2 trade for each confirmed suggestion.
LargestBudget == Max({l.dailyBudget : l \in Limits \cup {InitialAgent}})
LargestSuggestion == Max({l.tier2Max : l \in Limits \cup {InitialAgent}})
Confirmed == {p \in 1 .. MaxPrompts : executed[p] > 0}

BoughtBetweenResets ==
    Cardinality(Ticks) * LargestBudget + Cardinality(Confirmed) * LargestSuggestion

BudgetOverrunBounded == bought <= (resets + 1) * BoughtBetweenResets

-----------------------------------------------------------------------------
(* What the code promises and does not keep.                               *)

\* revoke-agent.ts:15: a revocation drains the transferable assets and
\* disables the agent.
RevokedIsEmpty == ~agent.active => usdc = 0
=============================================================================
