---------------------------- MODULE StrategyEngine ----------------------------
(***************************************************************************)
(* The trading agent's strategies: which of them want to act at a price,   *)
(* and which action is taken (strategy-engine.ts, strategy-types.ts).      *)
(***************************************************************************)
EXTENDS Naturals, Sequences

StrategyTypes == {"dca", "dip_buy", "take_profit", "stop_loss"}

RoleOf == [dca |-> "accumulate", dip_buy |-> "accumulate",
           take_profit |-> "sell", stop_loss |-> "protect"]

ROLE_PRIORITY == [protect |-> 3, sell |-> 2, accumulate |-> 1]

Priority(s) == ROLE_PRIORITY[RoleOf[s.type]]
Direction(s) == IF RoleOf[s.type] = "accumulate" THEN "buy_xlm" ELSE "sell_xlm"

\* A DCA strategy runs when its interval has passed, whatever the price; the
\* others when the price is on their side of the threshold.
Fires(s, due, priceUsd) ==
    \/ s.type = "dca" /\ due
    \/ s.type \in {"dip_buy", "stop_loss"} /\ priceUsd <= s.threshold
    \/ s.type = "take_profit" /\ priceUsd >= s.threshold

\* The positions of the strategies that want to act.
EvaluateStrategies(strategies, due, priceUsd) ==
    {i \in DOMAIN strategies :
        strategies[i].enabled /\ Fires(strategies[i], due, priceUsd)}

\* The first of those at the positions with the highest priority.
SelectAction(strategies, firing) ==
    strategies[CHOOSE i \in firing :
                 \A j \in firing :
                    \/ Priority(strategies[j]) < Priority(strategies[i])
                    \/ Priority(strategies[j]) = Priority(strategies[i]) /\ i <= j]

\* Whether one more enabled strategy beside the others breaks the rule of one
\* accumulating strategy.
WouldViolateSingleAccumulate(others, type, enabled) ==
    /\ enabled /\ RoleOf[type] = "accumulate"
    /\ \E s \in others : s.enabled /\ RoleOf[s.type] = "accumulate"
=============================================================================
