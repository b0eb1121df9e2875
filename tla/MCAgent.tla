-------------------------------- MODULE MCAgent --------------------------------
(* Instances of the trading agent for TLC. *)
EXTENDS TradingAgent, TLC

CONSTANTS t1, t2, confirm1, confirm2, reject1, edit1, trust1, revoke1

MCHandler ==
    [c \in Calls |->
        CASE c \in {confirm1, confirm2} -> "confirm"
          [] c = reject1 -> "reject"
          [] c = edit1 -> "edit"
          [] c = trust1 -> "trustline"
          [] OTHER -> "revoke"]

\* Buys a unit when due, within tier 1, and sells one when the price is high,
\* which takes a confirmation.
DcaAndTakeProfit ==
    << [type |-> "dca", enabled |-> TRUE, threshold |-> 0, amount |-> 1],
       [type |-> "take_profit", enabled |-> TRUE, threshold |-> 3, amount |-> 1] >>

\* The same with a buy below a price.
DipAndTakeProfit ==
    << [type |-> "dip_buy", enabled |-> TRUE, threshold |-> 1, amount |-> 1],
       [type |-> "take_profit", enabled |-> TRUE, threshold |-> 3, amount |-> 1] >>

Rules == [tier1Max |-> 1, tier2Max |-> 3, dailyBudget |-> 1]
MCLimits == {Rules}

Fresh(ready) ==
    [active |-> TRUE, ready |-> ready, confirm |-> TRUE, due |-> TRUE, spentToday |-> 0,
     lastReset |-> 0] @@ Rules

Trading == Fresh(TRUE)
Unfunded == Fresh(FALSE)

Symmetry == Permutations({t1, t2}) \cup Permutations({confirm1, confirm2})
=============================================================================
