----------------------------- MODULE TradeRouting -----------------------------
(***************************************************************************)
(* How much a trade may be and who must agree to it: the daily budget, the *)
(* two tiers, the reserve (trade-routing.ts, daily-spend.ts).  Amounts are *)
(* in the smallest unit, to which floorUsdcAmount rounds.                  *)
(***************************************************************************)
EXTENDS Integers, FiniteSetsExt

CONSTANTS
    USDC_BALANCE_RESERVE,   \* kept back for fees
    MIN_PLANNED_USDC        \* smallest swap

ASSUME RoutingAssumption ==
    USDC_BALANCE_RESERVE \in Nat /\ MIN_PLANNED_USDC \in Nat \ {0}

NonNegative(n) == IF n < 0 THEN 0 ELSE n

\* Mutant: what was spent before is not subtracted.
WholeDailyBudget(agent) == agent.dailyBudget

RemainingDailyBudget(agent) == NonNegative(agent.dailyBudget - agent.spentToday)

PlannedBuy(agent, usdcBalance, requested) ==
    Min({requested, agent.tier2Max, RemainingDailyBudget(agent),
         NonNegative(usdcBalance - USDC_BALANCE_RESERVE)})

TiersConfigured(agent) ==
    agent.tier1Max > 0 /\ agent.tier2Max > 0 /\ agent.tier1Max < agent.tier2Max

\* The tier of a trade worth usd, or why there is none.
Tier(agent, usd) ==
    IF usd <= agent.tier1Max THEN "tier1_auto"
    ELSE IF usd <= agent.tier2Max THEN "tier2_confirm"
    ELSE "blocked"

RouteBuy(agent, planned) ==
    IF planned >= MIN_PLANNED_USDC /\ TiersConfigured(agent)
    THEN Tier(agent, planned) ELSE "skip"

RouteSell(agent, xlm, priceUsd) ==
    IF xlm > 0 /\ TiersConfigured(agent)
    THEN Tier(agent, xlm * priceUsd) ELSE "skip"
=============================================================================
