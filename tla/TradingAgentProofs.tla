-------------------------- MODULE TradingAgentProofs --------------------------
(***************************************************************************)
(* The trading agent's safety, for any number of overlapping ticks and of  *)
(* requests.  First what needs the shape of the functions only: what is    *)
(* known of a suggestion that can be confirmed, and which calls are        *)
(* revocations.  Then the types, and the budget: what every handler in     *)
(* flight may still add to the day's spending is its claim, and spending   *)
(* and claims together stay within the bound.                              *)
(***************************************************************************)
EXTENDS TradingAgent, TallyProofs, SequenceTheorems

Fields == {"active", "ready", "confirm", "due", "spentToday", "lastReset",
           "tier1Max", "tier2Max", "dailyBudget"}

Shape ==
    /\ agent = [f \in Fields |-> agent[f]]
    /\ tick = [t \in Ticks |-> tick[t]]
    /\ call = [c \in Calls |-> call[c]]

\* A suggestion that can be confirmed has not been executed, and those that are
\* still to be made have not either.
SuggestionsInv ==
    /\ prompts \in 0 .. MaxPrompts
    /\ executed \in [1 .. MaxPrompts -> Nat]
    /\ \A p \in 1 .. MaxPrompts : executed[p] <= 1 /\ (p > prompts => executed[p] = 0)
    /\ pendingTrade # NoTrade =>
          /\ pendingTrade.prompt \in 1 .. prompts
          /\ executed[pendingTrade.prompt] = 0
          /\ pendingDir = pendingTrade.dir

RevocationsInv ==
    \A c \in Calls : call[c].pc \in RevokePcs \cup {"revoke"} => Handler[c] = "revoke"

\* Only call c goes on.
OnlyCall(c) == call' = [call EXCEPT ![c] = call'[c]]

LEMMA CallGoesOn ==
    ASSUME Shape, NEW c \in Calls, NEW to, CallGoes(c, to)
    PROVE  OnlyCall(c) /\ call'[c] = to
BY DEF Shape, OnlyCall, CallGoes

\* The initial state satisfies the three of them, and the agent is polled.
LEMMA InitHolds == Init => Shape /\ SuggestionsInv /\ RevocationsInv /\ Polled
<1> SUFFICES ASSUME Init PROVE Shape /\ SuggestionsInv /\ RevocationsInv /\ Polled
    OBVIOUS
<1>1. Shape
    <2>1. agent = [f \in Fields |-> agent[f]]
        BY AgentAssumption DEF Init, Documents, Fields
    <2> QED BY <2>1 DEF Init, Shape
<1>2. SuggestionsInv
    BY AgentAssumption DEF Init, SuggestionsInv, NoTrade
<1>3. RevocationsInv
    BY DEF Init, RevocationsInv, RevokePcs, Idle
<1>4. Polled
    BY DEF Init, Polled
<1> QED BY <1>1, <1>2, <1>3, <1>4

\* A step keeps the domains of the functions it updates.
LEMMA ShapeStep == Shape /\ [Next]_vars => Shape'
<1> SUFFICES ASSUME Shape, [Next]_vars PROVE Shape'
    OBVIOUS
<1> USE DEF Shape
<1>1. ASSUME NEW t \in Ticks, Fire(t) \/ TickStep(t) PROVE Shape'
    BY <1>1 DEF Fire, TickStep, LoadAgent, ResetDailySpend, GetBalance, PayForPrice, Decide, ExecuteSwap,
        RecordTrade, RecordSpending, MarkDcaRun, Notify, TickFails, TickGoes, WithReset, Fields
<1>2. ASSUME NEW c \in Calls, LoadForCall(c) \/ Reject(c) \/ CallStep(c) PROVE Shape'
    BY <1>2 DEF LoadForCall, Reject, CallStep, Confirm, ConfirmedSwap, RecordConfirmed, RecordSpending, Edit,
        CreateTrustline, TrustlineReady, RevokeStep, RevokeBegins, ReadBalances, PayUsdc,
        ReadNative, PayXlm, Disable, DisableUnfunded, RestartAfterFailure, CallEnds, CallGoes, Fields
<1>3. ASSUME Midnight \/ IntervalElapses \/ CooldownEnds \/ Restart PROVE Shape'
    BY <1>3 DEF Midnight, IntervalElapses, CooldownEnds, Restart, Fields
<1>4. ASSUME UNCHANGED vars PROVE Shape'
    BY <1>4 DEF vars
<1> QED BY <1>1, <1>2, <1>3, <1>4 DEF Next
\* No step executes a suggestion twice: a confirmation takes it away before it
\* waits for the swap, and a new suggestion has a number of its own.
LEMMA SuggestionsStep == SuggestionsInv /\ [Next]_vars => SuggestionsInv'
<1> SUFFICES ASSUME SuggestionsInv, [Next]_vars PROVE SuggestionsInv'
    OBVIOUS
<1>1. ASSUME NEW t \in Ticks, NEW p \in Prices, Decide(t, p) PROVE SuggestionsInv'
    <2>1. CASE UNCHANGED <<pendingDir, pendingTrade, history>>
        BY <2>1 DEF SuggestionsInv, history
    <2>2. CASE ClearTier2 /\ UNCHANGED history
        BY <2>2 DEF SuggestionsInv, history, ClearTier2
    <2>3. ASSUME NEW dir, NEW amount,
                 prompts < MaxPrompts, prompts' = prompts + 1, executed' = executed,
                 pendingDir' = dir,
                 pendingTrade' = [dir |-> dir, amount |-> amount, prompt |-> prompts']
          PROVE  SuggestionsInv'
        BY <2>3, AgentAssumption DEF SuggestionsInv
    <2> QED BY <1>1, <2>1, <2>2, <2>3 DEF Decide
<1>2. ASSUME NEW c \in Calls, Confirm(c) PROVE SuggestionsInv'
    BY <1>2, AgentAssumption DEF Confirm, ClearTier2, SuggestionsInv
<1>3. CASE ClearTier2 /\ UNCHANGED history
    BY <1>3 DEF SuggestionsInv, history, ClearTier2
<1>4. CASE UNCHANGED <<pendingDir, pendingTrade, history>>
    BY <1>4 DEF SuggestionsInv, history
<1>5. ASSUME NEW c \in Calls, RevokeBegins(c) PROVE SuggestionsInv'
    BY <1>5 DEF RevokeBegins, StopAgentWorker, SuggestionsInv, memory, history
<1>6. ASSUME NEW t \in Ticks, Fire(t) \/ TickStep(t) PROVE SuggestionsInv'
    <2>1. CASE \E p \in Prices : Decide(t, p)
        BY <2>1, <1>1
    <2>2. CASE ~\E p \in Prices : Decide(t, p)
        <3>1. UNCHANGED <<pendingDir, pendingTrade, history>>
            BY <1>6, <2>2 DEF Fire, TickStep, LoadAgent, ResetDailySpend, GetBalance, PayForPrice, ExecuteSwap,
               RecordTrade, RecordSpending, MarkDcaRun, Notify, TickFails, memory
        <3> QED BY <3>1, <1>4
    <2> QED BY <2>1, <2>2
<1>7. ASSUME NEW c \in Calls, LoadForCall(c) \/ Reject(c) \/ CallStep(c) PROVE SuggestionsInv'
    <2>1. CASE Confirm(c) \/ RevokeBegins(c)
        BY <2>1, <1>2, <1>5
    <2>2. CASE Reject(c)
        BY <2>2, <1>3 DEF Reject
    <2>3. CASE ~Confirm(c) /\ ~RevokeBegins(c) /\ ~Reject(c)
        <3>1. UNCHANGED <<pendingDir, pendingTrade, history>>
            BY <1>7, <2>3 DEF LoadForCall, CallStep, ConfirmedSwap, RecordConfirmed, RecordSpending, Edit,
               CreateTrustline, TrustlineReady, RevokeStep, ReadBalances, PayUsdc, ReadNative,
               PayXlm, Disable, DisableUnfunded, RestartAfterFailure, CallEnds, memory
        <3> QED BY <3>1, <1>4
    <2> QED BY <2>1, <2>2, <2>3
<1>8. ASSUME Midnight \/ IntervalElapses \/ CooldownEnds \/ Restart \/ UNCHANGED vars
      PROVE  SuggestionsInv'
    BY <1>8, <1>3, <1>4 DEF Midnight, IntervalElapses, CooldownEnds, Restart, vars, memory
<1> QED BY <1>6, <1>7, <1>8 DEF Next

\* A call that does what only a revocation does is one.
LEMMA RevocationsStep == Shape /\ RevocationsInv /\ [Next]_vars => RevocationsInv'
<1> SUFFICES ASSUME Shape, RevocationsInv, [Next]_vars PROVE RevocationsInv'
    OBVIOUS
<1> USE DEF RevocationsInv, RevokePcs
<1>1. ASSUME NEW c \in Calls, OnlyCall(c), call'[c].pc \in RevokePcs \cup {"revoke"} => Handler[c] = "revoke"
      PROVE  RevocationsInv'
    BY <1>1 DEF OnlyCall, Shape
<1>2. ASSUME UNCHANGED call PROVE RevocationsInv'
    BY <1>2
<1>3. ASSUME NEW t \in Ticks, Fire(t) \/ TickStep(t) PROVE RevocationsInv'
    BY <1>3, <1>2 DEF Fire, TickStep, LoadAgent, ResetDailySpend, GetBalance, PayForPrice, Decide, ExecuteSwap,
        RecordTrade, RecordSpending, MarkDcaRun, Notify, TickFails
<1>4. ASSUME NEW c \in Calls, LoadForCall(c) PROVE RevocationsInv'
    <2>1. OnlyCall(c) /\ call'[c].pc = Handler[c]
        BY <1>4 DEF LoadForCall, CallGoes, OnlyCall, Shape
    <2>2. Handler[c] \in RevokePcs \cup {"revoke"} => Handler[c] = "revoke"
        BY AgentAssumption DEF Handlers
    <2> QED BY <2>1, <2>2, <1>1
<1>5. ASSUME NEW c \in Calls, Reject(c) \/ CallEnds(c) \/ Confirm(c) \/ ConfirmedSwap(c) \/ RecordConfirmed(c)
             \/ (\E l \in Limits : Edit(c, l)) \/ CreateTrustline(c) \/ TrustlineReady(c)
      PROVE  RevocationsInv'
    <2>1. CASE Reject(c) \/ CallEnds(c) \/ Confirm(c) \/ ConfirmedSwap(c) \/ RecordConfirmed(c)
        <3>1. OnlyCall(c) /\ call'[c].pc \in {"done", "swap", "record"}
            BY <2>1, CallGoesOn DEF Reject, CallEnds, Confirm, ConfirmedSwap, RecordConfirmed, Done
        <3> QED BY <3>1, <1>1
    <2>2. CASE CreateTrustline(c)
        <3>1. OnlyCall(c) /\ call'[c].pc = "setup"
            BY <2>2, CallGoesOn DEF CreateTrustline
        <3> QED BY <3>1, <1>1
    <2>3. CASE TrustlineReady(c) \/ \E l \in Limits : Edit(c, l)
        <3>1. CallGoes(c, Done)
            BY <2>3 DEF TrustlineReady, Edit
        <3>2. OnlyCall(c) /\ call'[c].pc = "done"
            BY <3>1, CallGoesOn DEF Done
        <3> QED BY <3>2, <1>1
    <2> QED BY <2>1, <2>2, <2>3, <1>5
<1>6. ASSUME NEW c \in Calls, RevokeStep(c) PROVE RevocationsInv'
    <2>1. Handler[c] = "revoke"
        BY <1>6 DEF RevokeStep, RevokeBegins, ReadBalances, PayUsdc, ReadNative, PayXlm, Disable, DisableUnfunded,
           RestartAfterFailure
    <2>2. OnlyCall(c)
        BY <1>6, CallGoesOn DEF RevokeStep, RevokeBegins, ReadBalances, PayUsdc, ReadNative, PayXlm, Disable, DisableUnfunded,
           RestartAfterFailure
    <2> QED BY <2>1, <2>2, <1>1
<1>7. ASSUME Midnight \/ IntervalElapses \/ CooldownEnds \/ UNCHANGED vars PROVE RevocationsInv'
    BY <1>7 DEF Midnight, IntervalElapses, CooldownEnds, vars
<1>8. ASSUME Restart PROVE RevocationsInv'
    BY <1>8 DEF Restart, Idle, Done
<1> QED BY <1>3, <1>4, <1>5, <1>6, <1>7, <1>8 DEF Next, CallStep
\* A revocation whose last database call fails.
LosesTheWorker == \E c \in Calls : call[c] # Lost /\ call'[c] = Lost

\* An agent that may trade stays polled: whoever stops its worker is a revocation,
\* which is under way until it has disabled the agent or started the worker again,
\* or is lost.
LEMMA PolledStep ==
    Shape /\ RevocationsInv /\ Polled /\ [Next]_vars => Polled' \/ LosesTheWorker
<1> SUFFICES ASSUME Shape, RevocationsInv, Polled, [Next]_vars, ~LosesTheWorker PROVE Polled'
    OBVIOUS
<1> DEFINE Trading == agent.active /\ agent.ready
<1>1. ASSUME Trading' => Trading, worker => worker', UNCHANGED call PROVE Polled'
    BY <1>1 DEF Polled, Revoking
<1>2. ASSUME NEW c \in Calls, OnlyCall(c), Trading' => Trading, worker => worker',
             Revoking(c) => call'[c].pc \in RevokePcs
      PROVE  Polled'
    <2>1. ASSUME NEW d \in Calls, Revoking(d) PROVE Revoking(d)'
        BY <2>1, <1>2 DEF Revoking, OnlyCall, Shape
    <2> QED BY <2>1, <1>2 DEF Polled
<1>3. ASSUME ~Trading' PROVE Polled'
    BY <1>3 DEF Polled
<1>4. ASSUME worker' PROVE Polled'
    BY <1>4 DEF Polled
<1>5. ASSUME NEW t \in Ticks, Fire(t) \/ TickStep(t) PROVE Polled'
    <2>1. Trading' => Trading
        BY <1>5 DEF Fire, TickStep, LoadAgent, ResetDailySpend, GetBalance, PayForPrice, Decide, ExecuteSwap,
           RecordTrade, RecordSpending, MarkDcaRun, Notify, TickFails, WithReset, Shape, Fields
    <2>2. UNCHANGED <<call, worker>>
        BY <1>5 DEF Fire, TickStep, LoadAgent, ResetDailySpend, GetBalance, PayForPrice, Decide, ExecuteSwap,
           RecordTrade, RecordSpending, MarkDcaRun, Notify, TickFails, memory
    <2> QED BY <2>1, <2>2, <1>1
<1>6. ASSUME NEW c \in Calls,
             LoadForCall(c) \/ Reject(c) \/ CallEnds(c) \/ Confirm(c) \/ ConfirmedSwap(c)
             \/ RecordConfirmed(c) \/ (\E l \in Limits : Edit(c, l)) \/ CreateTrustline(c)
      PROVE  Polled'
    <2>1. Trading' => Trading
        BY <1>6 DEF LoadForCall, Reject, CallEnds, Confirm, ConfirmedSwap, RecordConfirmed, RecordSpending, Edit,
           CreateTrustline, Shape, Fields
    <2>2. worker => worker'
        BY <1>6 DEF LoadForCall, Reject, CallEnds, Confirm, ConfirmedSwap, RecordConfirmed, RecordSpending, Edit,
           CreateTrustline, StartAgentWorker, memory
    <2>3. call[c].pc \notin RevokePcs
        BY <1>6, AgentAssumption DEF LoadForCall, Reject, CallEnds, Confirm, ConfirmedSwap,
           RecordConfirmed, Edit, CreateTrustline, RevokePcs
    <2>4. OnlyCall(c)
        BY <1>6, CallGoesOn DEF LoadForCall, Reject, CallEnds, Confirm, ConfirmedSwap,
           RecordConfirmed, Edit, CreateTrustline
    <2> QED BY <2>1, <2>2, <2>3, <2>4, <1>2 DEF Revoking
<1>7. ASSUME NEW c \in Calls, TrustlineReady(c) PROVE Polled'
    <2>1. CASE agent.active
        BY <2>1, <1>7, <1>4 DEF TrustlineReady, StartAgentWorker
    <2>2. CASE ~agent.active
        BY <2>2, <1>7, <1>3 DEF TrustlineReady, Shape, Fields
    <2> QED BY <2>1, <2>2
<1>8. ASSUME NEW c \in Calls, RevokeBegins(c) PROVE Polled'
    <2>1. CASE call[c].snap.active
        <3>1. Revoking(c)'
            BY <2>1, <1>8, CallGoesOn DEF RevokeBegins, Revoking, RevokePcs, RevocationsInv
        <3> QED BY <3>1 DEF Polled
    <2>2. CASE ~call[c].snap.active
        <3>1. OnlyCall(c) /\ UNCHANGED agent /\ UNCHANGED worker
            BY <2>2, <1>8, CallGoesOn DEF RevokeBegins, memory
        <3>2. ~Revoking(c)
            BY <1>8 DEF RevokeBegins, Revoking, RevokePcs
        <3> QED BY <3>1, <3>2, <1>2
    <2> QED BY <2>1, <2>2
<1>9. ASSUME NEW c \in Calls, ReadBalances(c) \/ PayUsdc(c) \/ ReadNative(c) \/ PayXlm(c)
      PROVE  Polled'
    <2>1. UNCHANGED agent /\ UNCHANGED worker
        BY <1>9 DEF ReadBalances, PayUsdc, ReadNative, PayXlm, memory
    <2>2. OnlyCall(c) /\ call'[c].pc \in RevokePcs
        BY <1>9, CallGoesOn DEF ReadBalances, PayUsdc, ReadNative, PayXlm, RevokePcs
    <2> QED BY <2>1, <2>2, <1>2
<1>10. ASSUME NEW c \in Calls, Disable(c) PROVE Polled'
    <2>1. CASE agent' = [agent EXCEPT !.active = FALSE]
        BY <2>1, <1>3 DEF Shape, Fields
    <2>2. CASE UNCHANGED agent /\ CallGoes(c, [pc |-> "recheck"])
        <3>1. OnlyCall(c) /\ call'[c].pc \in RevokePcs /\ UNCHANGED worker
            BY <2>2, <1>10, CallGoesOn DEF Disable, memory, RevokePcs
        <3> QED BY <3>1, <2>2, <1>2
    <2> QED BY <2>1, <2>2, <1>10 DEF Disable
<1>11. ASSUME NEW c \in Calls, DisableUnfunded(c) \/ RestartAfterFailure(c) PROVE Polled'
    <2>1. ~CallGoes(c, Lost)
        <3>1. SUFFICES ASSUME CallGoes(c, Lost) PROVE FALSE
            OBVIOUS
        <3>2. call'[c] = Lost /\ call[c] # Lost
            BY <1>11, <3>1, CallGoesOn DEF DisableUnfunded, RestartAfterFailure, Lost
        <3> QED BY <3>2 DEF LosesTheWorker
    <2>2. CASE agent' = [agent EXCEPT !.active = FALSE]
        BY <2>2, <1>3 DEF Shape, Fields
    <2>3. CASE RestartAfterFailure(c)
        BY <2>1, <2>3, <1>3, <1>4 DEF RestartAfterFailure, StartAgentWorker
    <2> QED BY <1>11, <2>1, <2>2, <2>3 DEF DisableUnfunded
<1>12. ASSUME Midnight \/ IntervalElapses \/ CooldownEnds \/ UNCHANGED vars PROVE Polled'
    BY <1>12, <1>1 DEF Midnight, IntervalElapses, CooldownEnds, vars, memory, Shape, Fields
<1>13. ASSUME Restart PROVE Polled'
    BY <1>13 DEF Restart, Polled
<1> QED BY <1>5, <1>6, <1>7, <1>8, <1>9, <1>10, <1>11, <1>12, <1>13
        DEF Next, CallStep, RevokeStep
-----------------------------------------------------------------------------
\* A step of an agent that is revoked and at rest leaves its funds alone and leaves
\* it at rest: every handler that could trade looks at the status it has loaded.
LEMMA RestStep ==
    ASSUME Shape, Next, ~agent.active, AtRest
    PROVE  UNCHANGED funds /\ AtRest'
<1> USE DEF AtRest
<1>1. ASSUME UNCHANGED funds, UNCHANGED tick, UNCHANGED call PROVE UNCHANGED funds /\ AtRest'
    BY <1>1
<1>2. ASSUME NEW t \in Ticks, NEW to, TickGoes(t, to), to.pc \in {"idle", "fired"}, UNCHANGED call
      PROVE  AtRest'
    BY <1>2 DEF TickGoes, Shape
<1>3. ASSUME NEW c \in Calls, OnlyCall(c), UNCHANGED tick,
             \/ call'[c].pc \in {"idle", "done", "lost"}
             \/ call'[c].pc \in Handlers /\ ~call'[c].snap.active
      PROVE  AtRest'
    BY <1>3 DEF OnlyCall, Shape
<1>4. ASSUME NEW t \in Ticks, Fire(t) \/ TickStep(t) PROVE UNCHANGED funds /\ AtRest'
    <2>1. tick[t].pc \in {"idle", "fired"}
        OBVIOUS
    <2>2. Fire(t) \/ LoadAgent(t) \/ TickFails(t)
        BY <1>4, <2>1 DEF TickStep, ResetDailySpend, GetBalance, PayForPrice, Decide, ExecuteSwap, RecordTrade, RecordSpending,
           MarkDcaRun, Notify
    <2>3. CASE Fire(t)
        BY <2>3, <1>2 DEF Fire
    <2>4. CASE LoadAgent(t) \/ TickFails(t)
        BY <2>4, <1>2 DEF LoadAgent, TickFails, Idle
    <2> QED BY <2>2, <2>3, <2>4
<1>5. ASSUME NEW c \in Calls, LoadForCall(c) PROVE UNCHANGED funds /\ AtRest'
    <2>1. OnlyCall(c) /\ call'[c].pc = Handler[c] /\ call'[c].snap = agent
        BY <1>5, CallGoesOn DEF LoadForCall
    <2>2. Handler[c] \in Handlers /\ UNCHANGED funds /\ UNCHANGED tick
        BY <1>5, AgentAssumption DEF LoadForCall
    <2> QED BY <2>1, <2>2, <1>3
<1>6. ASSUME NEW c \in Calls, Reject(c) \/ CallStep(c) PROVE UNCHANGED funds /\ AtRest'
    <2>1. call[c].pc \in {"idle", "done", "lost"} \/ (call[c].pc \in Handlers /\ ~call[c].snap.active)
        OBVIOUS
    <2>2. \/ Reject(c) \/ CallEnds(c) \/ RevokeBegins(c)
          \/ \E l \in Limits : Edit(c, l)
        BY <1>6, <2>1 DEF CallStep, Confirm, ConfirmedSwap, RecordConfirmed, RecordSpending, CreateTrustline,
           TrustlineReady, RevokeStep, ReadBalances, PayUsdc, ReadNative, PayXlm, Disable, DisableUnfunded,
           RestartAfterFailure, Handlers
    <2>3. CallGoes(c, Done)
        BY <2>1, <2>2 DEF Reject, CallEnds, RevokeBegins, Edit
    <2>4. OnlyCall(c) /\ call'[c].pc = "done"
        BY <2>3, CallGoesOn DEF Done
    <2>5. UNCHANGED funds /\ UNCHANGED tick
        BY <2>2 DEF Reject, CallEnds, RevokeBegins, Edit
    <2> QED BY <2>4, <2>5, <1>3
<1>7. ASSUME Midnight \/ IntervalElapses \/ CooldownEnds PROVE UNCHANGED funds /\ AtRest'
    BY <1>7, <1>1 DEF Midnight, IntervalElapses, CooldownEnds
<1>8. ASSUME Restart PROVE UNCHANGED funds /\ AtRest'
    BY <1>8 DEF Restart, Idle, Done
<1> QED BY <1>4, <1>5, <1>6, <1>7, <1>8 DEF Next

-----------------------------------------------------------------------------
LEMMA AgentInvariant == Spec => [](Shape /\ SuggestionsInv /\ RevocationsInv)
BY InitHolds, ShapeStep, SuggestionsStep, RevocationsStep, PTL DEF Spec

\* However many confirmations of a suggestion arrive, it is swapped once.
THEOREM SuggestionsExecutedOnce == Spec => []OnePromptOneSwap
<1>1. SuggestionsInv => OnePromptOneSwap
    BY DEF SuggestionsInv, OnePromptOneSwap
<1> QED BY <1>1, AgentInvariant, PTL

\* While a suggestion can be confirmed the worker makes no other in its direction.
THEOREM SuggestionsBlock == Spec => []SuggestionBlocksPrompt
<1>1. SuggestionsInv => SuggestionBlocksPrompt
    BY DEF SuggestionsInv, SuggestionBlocksPrompt
<1> QED BY <1>1, AgentInvariant, PTL

\* An active agent whose trustline is set up is polled, unless it is being revoked,
\* and it stays so until the database fails a revocation once more, in the update of
\* an agent without an account or in the look at the document after a failure
\* (revoke-agent.ts:39, 42).
THEOREM TradingAgentsArePolled == Spec => ActiveIsPolled
<1>1. Init => Polled
    BY InitHolds
<1>2. Shape /\ RevocationsInv /\ [Next]_vars
        => [Polled => Polled' \/ \E c \in Calls : call[c] # Lost /\ call'[c] = Lost]_vars
    BY PolledStep DEF LosesTheWorker
<1> QED BY <1>1, <1>2, AgentInvariant, PTL DEF Spec, ActiveIsPolled

\* A revoked agent at rest is not traded with again, whoever starts its worker.
THEOREM RevokedAgentsRest == Spec => RevokedStaysAtRest
<1>1. Shape /\ [Next]_vars => [~agent.active /\ AtRest => UNCHANGED funds /\ AtRest']_vars
    BY RestStep
<1> QED BY <1>1, AgentInvariant, PTL DEF Spec, RevokedStaysAtRest

-----------------------------------------------------------------------------
(* Types *)

Strategy == [type : StrategyTypes, enabled : BOOLEAN, threshold : Nat, amount : Nat]

\* Every non-empty set of strategies has a first one of the highest priority.
LEMMA SelectedStrategy ==
    ASSUME NEW S \in Seq(Strategy), NEW firing \in SUBSET (DOMAIN S), firing # {}
    PROVE  SelectAction(S, firing) \in Strategy
<1> DEFINE n == Len(S) + 1
           Rank(i) == Priority(S[i]) * n - i
           ranks == {Rank(i) : i \in firing}
           Best(i) == \A j \in firing :
                        \/ Priority(S[j]) < Priority(S[i])
                        \/ Priority(S[j]) = Priority(S[i]) /\ i <= j
<1>1. n \in Nat /\ \A i \in firing : i \in 1 .. n - 1 /\ S[i] \in Strategy
    BY ElementOfSeq, LenProperties
<1>2. \A i \in firing : Priority(S[i]) \in {1, 2, 3}
    BY <1>1 DEF Priority, RoleOf, ROLE_PRIORITY, Strategy, StrategyTypes
<1> HIDE DEF n
<1>3. ASSUME NEW i \in firing PROVE Rank(i) \in 0 .. 3 * n
    <2>1. CASE Priority(S[i]) = 1
        BY <1>1, <2>1
    <2>2. CASE Priority(S[i]) = 2
        BY <1>1, <2>2
    <2>3. CASE Priority(S[i]) = 3
        BY <1>1, <2>3
    <2> QED BY <1>2, <2>1, <2>2, <2>3
<1>4. IsFiniteSet(ranks) /\ ranks \subseteq Int /\ ranks # {}
    <2>1. ranks \subseteq 0 .. 3 * n
        BY <1>3
    <2>2. 3 * n \in Int
        BY <1>1
    <2>3. IsFiniteSet(0 .. 3 * n)
        BY <2>2, FS_Interval
    <2>4. ranks # {}
        OBVIOUS
    <2> HIDE DEF ranks
    <2>5. ranks \subseteq Int
        BY <2>1, <2>2
    <2> QED BY <2>1, <2>3, <2>4, <2>5, FS_Subset
<1>5. PICK r \in ranks : \A q \in ranks : q <= r
    <2> HIDE DEF ranks
    <2> QED BY <1>4, GreatestOfSome
<1>6. PICK i \in firing : r = Rank(i)
    OBVIOUS
<1>7. Best(i)
    <2> SUFFICES ASSUME NEW j \in firing
                 PROVE  \/ Priority(S[j]) < Priority(S[i])
                        \/ Priority(S[j]) = Priority(S[i]) /\ i <= j
        OBVIOUS
    <2>1. Priority(S[j]) * n - j <= Priority(S[i]) * n - i
        BY <1>5, <1>6
    <2>2. i \in 1 .. n - 1 /\ j \in 1 .. n - 1
        BY <1>1
    <2>3. Priority(S[i]) \in {1, 2, 3} /\ Priority(S[j]) \in {1, 2, 3}
        BY <1>2
    <2> HIDE DEF Rank, ranks
    <2>4. ASSUME NEW a \in {1, 2, 3}, NEW b \in {1, 2, 3}, b * n - j <= a * n - i
          PROVE  b < a \/ (b = a /\ i <= j)
        BY <1>1, <2>2, <2>4
    <2> QED BY <2>1, <2>3, <2>4
<1>8. SelectAction(S, firing) = S[CHOOSE k \in firing : Best(k)]
    BY DEF SelectAction
<1>9. (CHOOSE k \in firing : Best(k)) \in firing
    BY <1>7
<1> QED BY <1>1, <1>8, <1>9

\* A buy is planned within the budget left and within tier 2 (computePlannedBuy...).
LEMMA PlannedBuyType ==
    ASSUME NEW doc \in Documents, NEW balance \in Nat, NEW n \in Nat
    PROVE  /\ PlannedBuy(doc, balance, n) \in Nat
           /\ PlannedBuy(doc, balance, n) <= RemainingDailyBudget(doc)
           /\ PlannedBuy(doc, balance, n) <= doc.tier2Max
           /\ RemainingDailyBudget(doc) \in Nat
<1> DEFINE r == RemainingDailyBudget(doc)
           b == NonNegative(balance - USDC_BALANCE_RESERVE)
           bounds == {n, doc.tier2Max, r, b}
<1>1. r \in Nat /\ b \in Nat /\ doc.tier2Max \in Nat
    BY RoutingAssumption DEF RemainingDailyBudget, NonNegative, Documents
<1>2. PlannedBuy(doc, balance, n) = CHOOSE x \in bounds : \A y \in bounds : x =< y
    BY DEF PlannedBuy, Min
<1> HIDE DEF r, b
<1>3. \E x \in bounds : \A y \in bounds : x =< y
    BY <1>1
<1> QED BY <1>1, <1>2, <1>3 DEF r

\* What a tick plans: an amount of a direction, and within its limits if it buys.
LEMMA PlanType ==
    ASSUME NEW snap \in Documents, NEW balance \in Nat, NEW p \in Prices,
           NEW plan, plan = Plan(snap, balance, p)
    PROVE  /\ plan.dir \in Signals /\ plan.amount \in Nat
           /\ plan.dir # "none" => plan.type \in StrategyTypes
           /\ plan.dir = "none" => plan.route = "skip"
           /\ plan.dir = "buy_xlm" =>
                 plan.amount <= RemainingDailyBudget(snap) /\ plan.amount <= snap.tier2Max
<1> DEFINE firing == EvaluateStrategies(Strategies, snap.due, p)
           s == SelectAction(Strategies, firing)
<1>1. CASE firing = {}
    BY <1>1 DEF Plan, Signals
<1>2. CASE firing # {}
    <2>1. Strategies \in Seq(Strategy) /\ firing \subseteq DOMAIN Strategies
        BY AgentAssumption DEF Strategy, EvaluateStrategies
    <2>2. s \in Strategy
        <3> HIDE DEF firing
        <3> QED BY <1>2, <2>1, SelectedStrategy
    <2> HIDE DEF firing, s
    <2>3. s.amount \in Nat /\ s.type \in StrategyTypes
        BY <2>2 DEF Strategy
    <2>4. Direction(s) \in {"buy_xlm", "sell_xlm"}
        BY DEF Direction
    <2>5. plan = IF Direction(s) = "buy_xlm"
                 THEN [dir |-> "buy_xlm", amount |-> PlannedBuy(snap, balance, s.amount),
                       type |-> s.type, route |-> RouteBuy(snap, PlannedBuy(snap, balance, s.amount))]
                 ELSE [dir |-> "sell_xlm", amount |-> s.amount, type |-> s.type,
                       route |-> RouteSell(snap, s.amount, p)]
        BY <1>2 DEF Plan, firing, s
    <2> QED BY <2>3, <2>4, <2>5, PlannedBuyType DEF Signals, Directions
<1> QED BY <1>1, <1>2

\* What is known of a tick at its place.
LEMMA TickParts ==
    ASSUME NEW s \in TickStates
    PROVE  /\ s.pc \in {"reset", "balance", "price", "paid"} => s.snap \in Documents
           /\ s.pc \in {"price", "paid"} =>
                 s.usdc \in Nat /\ s = [pc |-> s.pc, snap |-> s.snap, usdc |-> s.usdc]
           /\ s.pc \in {"swap", "record", "mark", "notify"} =>
                 s.dir \in Directions /\ s.amount \in Nat /\ s.type \in StrategyTypes
                 /\ s = [pc |-> s.pc, dir |-> s.dir, amount |-> s.amount, type |-> s.type]
BY DEF TickStates, Idle

LEMMA CallParts ==
    ASSUME NEW s \in CallStates
    PROVE  /\ s.pc \in Handlers => s.snap \in Documents
           /\ s.pc \in {"swap", "record"} => s.trade \in Trades
           /\ s.pc \in {"payUsdc", "payXlm"} => s.amount \in Nat
BY DEF CallStates, Idle, Done, Lost, Handlers

LEMMA TickTyped ==
    ASSUME tick \in [Ticks -> TickStates], NEW t \in Ticks, NEW to \in TickStates, TickGoes(t, to)
    PROVE  tick' \in [Ticks -> TickStates]
BY DEF TickGoes

LEMMA CallTyped ==
    ASSUME call \in [Calls -> CallStates], NEW c \in Calls, NEW to \in CallStates, CallGoes(c, to)
    PROVE  call' \in [Calls -> CallStates]
BY DEF CallGoes

\* A swap of an amount keeps both balances natural.
LEMMA SwappedType ==
    ASSUME usdc \in Nat, xlm \in Nat, NEW dir, NEW amount \in Nat, Swapped(dir, amount)
    PROVE  usdc' \in Nat /\ xlm' \in Nat
BY DEF Swapped

\* A document stays one under the updates of the handlers.
LEMMA DocumentsKept ==
    ASSUME NEW doc \in Documents, NEW b \in BOOLEAN, NEW total \in Nat,
           NEW limits \in [tier1Max : Nat, tier2Max : Nat, dailyBudget : Nat]
    PROVE  /\ [doc EXCEPT !.spentToday = total] \in Documents
           /\ [doc EXCEPT !.due = b] \in Documents
           /\ [doc EXCEPT !.active = b] \in Documents
           /\ [doc EXCEPT !.ready = b] \in Documents
           /\ [doc EXCEPT !.tier1Max = limits.tier1Max, !.tier2Max = limits.tier2Max,
                          !.dailyBudget = limits.dailyBudget] \in Documents
BY DEF Documents

\* A recorded buy adds to what was spent.
LEMMA SpendingRecorded ==
    ASSUME NEW doc \in Documents, NEW n \in Nat
    PROVE  [doc EXCEPT !.spentToday = @ + n] \in Documents
<1> DEFINE total == doc.spentToday + n
<1>1. total \in Nat
    BY DEF Documents
<1>2. [doc EXCEPT !.spentToday = @ + n] = [doc EXCEPT !.spentToday = total]
    OBVIOUS
<1> HIDE DEF total
<1>3. [doc EXCEPT !.spentToday = total] \in Documents
    BY <1>1 DEF Documents
<1> QED BY <1>2, <1>3

\* A step of a tick up to its decision.
LEMMA TickBeginsTypes ==
    ASSUME TypeOK, NEW t \in Ticks,
           \/ Fire(t) \/ LoadAgent(t) \/ ResetDailySpend(t) \/ GetBalance(t)
           \/ PayForPrice(t) \/ TickFails(t)
    PROVE  TypeOK'
<1> USE DEF TypeOK, today
<1>1. ASSUME UNCHANGED <<agent, funds, today, memory, call, history, restarts>>,
             NEW to \in TickStates, TickGoes(t, to)
      PROVE  TypeOK'
    BY <1>1, TickTyped DEF funds, memory, history
<1>2. Idle \in TickStates /\ [pc |-> "fired"] \in TickStates
    BY DEF TickStates
<1>3. CASE Fire(t)
    BY <1>1, <1>2, <1>3 DEF Fire
<1>4. CASE LoadAgent(t)
    <2>1. WithReset(agent) \in Documents
        BY DEF Documents, WithReset
    <2>2. /\ [pc |-> "reset", snap |-> WithReset(agent)] \in TickStates
          /\ [pc |-> "balance", snap |-> agent] \in TickStates
        BY <2>1 DEF TickStates
    <2> QED BY <1>1, <1>2, <1>4, <2>2 DEF LoadAgent
<1>5. CASE ResetDailySpend(t)
    <2>1. tick[t].snap \in Documents
        BY <1>5, TickParts DEF ResetDailySpend
    <2>2. agent' \in Documents
        BY <1>5, <2>1 DEF ResetDailySpend, Documents
    <2>3. [pc |-> "balance", snap |-> tick[t].snap] \in TickStates
        BY <2>1 DEF TickStates
    <2> QED BY <1>5, <2>2, <2>3, TickTyped DEF ResetDailySpend, funds, memory, history
<1>6. CASE GetBalance(t)
    <2>1. tick[t].snap \in Documents
        BY <1>6, TickParts DEF GetBalance
    <2>2. ASSUME NEW seen \in {usdc, 0}
          PROVE  [pc |-> "price", snap |-> tick[t].snap, usdc |-> seen] \in TickStates
        BY <2>1 DEF TickStates
    <2> QED BY <1>1, <1>6, <2>2 DEF GetBalance
<1>7. CASE TickFails(t)
    BY <1>1, <1>2, <1>7 DEF TickFails
<1>8. CASE PayForPrice(t)
    <2>1. tick[t] \in TickStates /\ tick[t].pc = "price"
        BY <1>8 DEF PayForPrice
    <2>2. [tick[t] EXCEPT !.pc = "paid"]
            = [pc |-> "paid", snap |-> tick[t].snap, usdc |-> tick[t].usdc]
        BY <2>1, TickParts
    <2>3. [tick[t] EXCEPT !.pc = "paid"] \in TickStates
        BY <2>1, <2>2, TickParts DEF TickStates
    <2>4. usdc' \in Nat
        BY <1>8, AgentAssumption DEF PayForPrice
    <2> QED BY <1>8, <2>3, <2>4, TickTyped DEF PayForPrice, memory, history
<1> QED BY <1>3, <1>4, <1>5, <1>6, <1>7, <1>8

\* The decision of a tick.
LEMMA DecideTypes ==
    ASSUME TypeOK, NEW t \in Ticks, NEW p \in Prices, Decide(t, p)
    PROVE  TypeOK'
<1> DEFINE snap == tick[t].snap
           plan == Plan(snap, tick[t].usdc, p)
<1>1. snap \in Documents /\ tick[t].usdc \in Nat
    BY TickParts DEF Decide, TypeOK
<1>2. /\ plan.dir \in Signals /\ plan.amount \in Nat
      /\ plan.dir # "none" => plan.type \in StrategyTypes
      /\ plan.dir = "none" => plan.route = "skip"
    BY <1>1, PlanType
<1>3. /\ lastSignal' = plan.dir
      /\ UNCHANGED <<worker, cooling, agent, funds, today, call, restarts>>
      /\ \/ /\ ClearTier2
            /\ TickGoes(t, Idle) /\ UNCHANGED history
         \/ /\ Automatic(plan, snap)
            /\ TickGoes(t, [pc |-> "swap", dir |-> plan.dir, amount |-> plan.amount,
                            type |-> plan.type])
            /\ UNCHANGED <<pendingDir, pendingTrade, history>>
         \/ /\ MayPrompt(plan) /\ prompts < MaxPrompts
            /\ prompts' = prompts + 1 /\ UNCHANGED executed
            /\ pendingDir' = plan.dir
            /\ pendingTrade' = [dir |-> plan.dir, amount |-> plan.amount, prompt |-> prompts']
            /\ TickGoes(t, Idle)
         \/ /\ TickGoes(t, Idle) /\ UNCHANGED <<pendingDir, pendingTrade, history>>
    BY DEF Decide
<1> HIDE DEF plan, snap
<1>4. Idle \in TickStates
    BY DEF TickStates
<1>5. Automatic(plan, snap) \/ MayPrompt(plan) => plan.dir \in Directions
    BY <1>2 DEF Automatic, MayPrompt, Signals
<1>6. CASE ClearTier2 /\ TickGoes(t, Idle) /\ UNCHANGED history
    BY <1>2, <1>3, <1>4, <1>6, TickTyped DEF TypeOK, today, ClearTier2, funds, history, Signals
<1>7. CASE /\ Automatic(plan, snap)
           /\ TickGoes(t, [pc |-> "swap", dir |-> plan.dir, amount |-> plan.amount, type |-> plan.type])
           /\ UNCHANGED <<pendingDir, pendingTrade, history>>
    <2>1. [pc |-> "swap", dir |-> plan.dir, amount |-> plan.amount, type |-> plan.type] \in TickStates
        BY <1>2, <1>5, <1>7 DEF TickStates, Directions
    <2> QED BY <1>2, <1>3, <1>7, <2>1, TickTyped DEF TypeOK, today, funds, history
<1>8. CASE /\ MayPrompt(plan) /\ prompts < MaxPrompts
           /\ prompts' = prompts + 1 /\ UNCHANGED executed
           /\ pendingDir' = plan.dir
           /\ pendingTrade' = [dir |-> plan.dir, amount |-> plan.amount, prompt |-> prompts']
           /\ TickGoes(t, Idle)
    <2>1. prompts' \in 1 .. MaxPrompts
        BY <1>8, AgentAssumption DEF TypeOK
    <2>2. pendingTrade' \in Trades
        BY <1>2, <1>5, <1>8, <2>1 DEF Trades
    <2> QED BY <1>2, <1>3, <1>4, <1>8, <2>1, <2>2, TickTyped DEF TypeOK, today, funds
<1>9. CASE TickGoes(t, Idle) /\ UNCHANGED <<pendingDir, pendingTrade, history>>
    BY <1>2, <1>3, <1>4, <1>9, TickTyped DEF TypeOK, today, funds, history
<1> QED BY <1>3, <1>6, <1>7, <1>8, <1>9

\* What follows the decision.
LEMMA TickEndsTypes ==
    ASSUME TypeOK, NEW t \in Ticks,
           ExecuteSwap(t) \/ RecordTrade(t) \/ MarkDcaRun(t) \/ Notify(t)
    PROVE  TypeOK'
<1> DEFINE s == tick[t]
           At(pc) == [s EXCEPT !.pc = pc]
<1>1. /\ tick \in [Ticks -> TickStates] /\ s \in TickStates
      /\ s.dir \in Directions /\ s.amount \in Nat /\ s.type \in StrategyTypes
      /\ s = [pc |-> s.pc, dir |-> s.dir, amount |-> s.amount, type |-> s.type]
    BY TickParts DEF TypeOK, ExecuteSwap, RecordTrade, MarkDcaRun, Notify
<1>2. Idle \in TickStates
    BY DEF TickStates
<1>3. ASSUME NEW pc \in {"record", "mark", "notify"} PROVE At(pc) \in TickStates
    <2>1. At(pc) = [pc |-> pc, dir |-> s.dir, amount |-> s.amount, type |-> s.type]
        BY <1>1
    <2> QED BY <1>1, <2>1 DEF TickStates
<1>4. CASE ExecuteSwap(t)
    <2>1. usdc' \in Nat /\ xlm' \in Nat
        BY <1>1, <1>4, SwappedType DEF ExecuteSwap, TypeOK
    <2>2. tick' \in [Ticks -> TickStates]
        BY <1>1, <1>2, <1>3, <1>4, TickTyped DEF ExecuteSwap
    <2> QED BY <1>4, <2>1, <2>2 DEF ExecuteSwap, TypeOK, today, memory, history
<1>5. CASE RecordTrade(t)
    <2>1. tick' \in [Ticks -> TickStates]
        BY <1>1, <1>3, <1>5, TickTyped DEF RecordTrade, AfterRecord
    <2>2. agent' \in Documents /\ bought' \in Nat /\ UNCHANGED <<day, resets>>
        BY <1>1, <1>5, SpendingRecorded DEF RecordTrade, RecordSpending, TypeOK
    <2> QED BY <1>5, <2>1, <2>2 DEF RecordTrade, TypeOK, memory, history, funds
<1>6. CASE MarkDcaRun(t)
    <2>1. tick' \in [Ticks -> TickStates]
        BY <1>1, <1>3, <1>6, TickTyped DEF MarkDcaRun
    <2>2. agent' \in Documents
        BY <1>6 DEF MarkDcaRun, TypeOK, Documents
    <2> QED BY <1>6, <2>1, <2>2 DEF MarkDcaRun, TypeOK, today, memory, history, funds
<1>7. CASE Notify(t)
    <2>1. tick' \in [Ticks -> TickStates]
        BY <1>1, <1>2, <1>7, TickTyped DEF Notify
    <2> QED BY <1>7, <2>1 DEF Notify, TypeOK, today, history, funds
<1> QED BY <1>4, <1>5, <1>6, <1>7

\* A step of a request that moves no document and no balance.
LEMMA CallMovesTypes ==
    ASSUME TypeOK, NEW c \in Calls, NEW to \in CallStates, CallGoes(c, to),
           UNCHANGED <<agent, funds, today, tick, history, restarts>>,
           worker' \in BOOLEAN, cooling' \in BOOLEAN,
           lastSignal' \in Signals, pendingDir' \in Signals,
           pendingTrade' \in Trades \cup {NoTrade}
    PROVE  TypeOK'
BY CallTyped DEF TypeOK, today, funds, history

\* The confirmation of a suggestion and its swap.
LEMMA ConfirmTypes ==
    ASSUME TypeOK, NEW c \in Calls, Confirm(c) \/ ConfirmedSwap(c) \/ RecordConfirmed(c)
    PROVE  TypeOK'
<1> USE DEF TypeOK, today
<1>1. Done \in CallStates
    BY DEF CallStates
<1>2. ASSUME NEW trade \in Trades, NEW pc \in {"swap", "record"}
      PROVE  [pc |-> pc, trade |-> trade] \in CallStates
    BY DEF CallStates
<1>3. CASE Confirm(c)
    <2>1. pendingTrade \in Trades
        BY <1>3 DEF Confirm
    <2>2. executed' \in [1 .. MaxPrompts -> Nat]
        <3> DEFINE p == pendingTrade.prompt
        <3>1. p \in 1 .. MaxPrompts
            BY <2>1 DEF Trades
        <3>2. executed[p] + 1 \in Nat
            BY <3>1
        <3>3. executed' = [executed EXCEPT ![p] = executed[p] + 1]
            BY <1>3 DEF Confirm
        <3> HIDE DEF p
        <3> QED BY <3>1, <3>2, <3>3
    <2>3. call' \in [Calls -> CallStates]
        BY <1>2, <1>3, <2>1, CallTyped DEF Confirm
    <2> QED BY <1>3, <2>2, <2>3 DEF Confirm, ClearTier2, funds, Signals
<1>4. CASE ConfirmedSwap(c)
    <2>1. call[c].trade \in Trades
        BY <1>4, CallParts DEF ConfirmedSwap
    <2>2. usdc' \in Nat /\ xlm' \in Nat
        BY <1>4, <2>1, SwappedType DEF ConfirmedSwap, Trades
    <2>3. call' \in [Calls -> CallStates]
        BY <1>1, <1>2, <1>4, <2>1, CallTyped DEF ConfirmedSwap
    <2> QED BY <1>4, <2>2, <2>3 DEF ConfirmedSwap, memory, history
<1>5. CASE RecordConfirmed(c)
    <2>1. call[c].trade.amount \in Nat
        BY <1>5, CallParts DEF RecordConfirmed, RecordSpending, Trades
    <2>2. agent' \in Documents /\ bought' \in Nat /\ UNCHANGED <<day, resets>>
        BY <1>5, <2>1, SpendingRecorded DEF RecordConfirmed, RecordSpending
    <2>3. call' \in [Calls -> CallStates]
        BY <1>1, <1>5, CallTyped DEF RecordConfirmed
    <2> QED BY <1>5, <2>2, <2>3 DEF RecordConfirmed, memory, history, funds
<1> QED BY <1>3, <1>4, <1>5

\* The requests that change no funds.
LEMMA RequestTypes ==
    ASSUME TypeOK, NEW c \in Calls,
           \/ LoadForCall(c) \/ Reject(c) \/ CallEnds(c) \/ (\E l \in Limits : Edit(c, l))
           \/ CreateTrustline(c) \/ TrustlineReady(c)
    PROVE  TypeOK'
<1> USE DEF TypeOK, today
<1>1. Done \in CallStates /\ [pc |-> "setup"] \in CallStates
    BY DEF CallStates
<1>2. CASE LoadForCall(c)
    <2>1. [pc |-> Handler[c], snap |-> agent] \in CallStates
        BY AgentAssumption DEF CallStates
    <2> QED BY <1>2, <2>1, CallMovesTypes DEF LoadForCall, memory
<1>3. CASE Reject(c)
    BY <1>1, <1>3, CallMovesTypes DEF Reject, ClearTier2, Signals
<1>4. CASE CallEnds(c)
    BY <1>1, <1>4, CallMovesTypes DEF CallEnds, memory
<1>5. ASSUME NEW l \in Limits, Edit(c, l) PROVE TypeOK'
    <2>1. l \in [tier1Max : Nat, tier2Max : Nat, dailyBudget : Nat]
        BY AgentAssumption
    <2>2. agent' \in Documents
        BY <1>5, <2>1, DocumentsKept DEF Edit
    <2>3. call' \in [Calls -> CallStates]
        BY <1>1, <1>5, CallTyped DEF Edit
    <2> QED BY <1>5, <2>2, <2>3 DEF Edit, StartAgentWorker, funds, history
<1>6. CASE CreateTrustline(c)
    BY <1>1, <1>6, CallMovesTypes DEF CreateTrustline, memory
<1>7. CASE TrustlineReady(c)
    <2>1. agent' \in Documents
        BY <1>7 DEF TrustlineReady, Documents
    <2>2. call' \in [Calls -> CallStates]
        BY <1>1, <1>7, CallTyped DEF TrustlineReady
    <2> QED BY <1>7, <2>1, <2>2 DEF TrustlineReady, StartAgentWorker, funds, history
<1> QED BY <1>2, <1>3, <1>4, <1>5, <1>6, <1>7

\* The steps of a revocation.
LEMMA RevokeTypes == ASSUME TypeOK, NEW c \in Calls, RevokeStep(c) PROVE TypeOK'
<1> USE DEF TypeOK, today
<1>1. /\ Done \in CallStates /\ Lost \in CallStates
      /\ \A pc \in {"balances", "native", "disable", "unfunded", "recheck"} : [pc |-> pc] \in CallStates
      /\ \A pc \in {"payUsdc", "payXlm"}, n \in Nat : [pc |-> pc, amount |-> n] \in CallStates
    BY DEF CallStates
<1>2. CASE RevokeBegins(c)
    <2>1. \E to \in CallStates : CallGoes(c, to)
        BY <1>1, <1>2 DEF RevokeBegins
    <2>2. /\ UNCHANGED <<agent, funds, today, tick, history, restarts>>
          /\ worker' \in BOOLEAN /\ cooling' \in BOOLEAN
          /\ lastSignal' \in Signals /\ pendingDir' \in Signals
          /\ pendingTrade' \in Trades \cup {NoTrade}
        BY <1>2 DEF RevokeBegins, StopAgentWorker, memory, Signals
    <2> QED BY <2>1, <2>2, CallMovesTypes
<1>3. CASE ReadBalances(c) \/ ReadNative(c)
    <2>1. \E to \in CallStates : CallGoes(c, to)
        BY <1>1, <1>3 DEF ReadBalances, ReadNative
    <2> QED BY <1>3, <2>1, CallMovesTypes DEF ReadBalances, ReadNative, memory
<1>4. CASE PayUsdc(c) \/ PayXlm(c)
    <2>1. call[c].amount \in Nat
        BY <1>4, CallParts DEF PayUsdc, PayXlm
    <2>2. usdc' \in Nat /\ xlm' \in Nat
        BY <1>4, <2>1 DEF PayUsdc, PayXlm
    <2>3. call' \in [Calls -> CallStates]
        BY <1>1, <1>4, CallTyped DEF PayUsdc, PayXlm
    <2> QED BY <1>4, <2>2, <2>3 DEF PayUsdc, PayXlm, memory, history
<1>5. CASE Disable(c) \/ DisableUnfunded(c)
    <2>1. agent' \in Documents
        BY <1>5 DEF Disable, DisableUnfunded, Documents
    <2>2. call' \in [Calls -> CallStates]
        BY <1>1, <1>5, CallTyped DEF Disable, DisableUnfunded
    <2> QED BY <1>5, <2>1, <2>2 DEF Disable, DisableUnfunded, memory, history, funds
<1>6. CASE RestartAfterFailure(c)
    <2>1. CallGoes(c, Done) \/ CallGoes(c, Lost)
        BY <1>6 DEF RestartAfterFailure
    <2> QED BY <1>1, <1>6, <2>1, CallMovesTypes DEF RestartAfterFailure, StartAgentWorker
<1> QED BY <1>2, <1>3, <1>4, <1>5, <1>6 DEF RevokeStep

\* The clock, and a restart of the server.
LEMMA WorldTypes ==
    ASSUME TypeOK, Midnight \/ IntervalElapses \/ CooldownEnds \/ Restart
    PROVE  TypeOK'
<1> USE DEF TypeOK, today
<1>1. CASE Midnight
    BY <1>1 DEF Midnight, funds, memory, history
<1>2. CASE IntervalElapses
    <2>1. agent' \in Documents
        BY <1>2 DEF IntervalElapses, Documents
    <2> QED BY <1>2, <2>1 DEF IntervalElapses, funds, memory, history
<1>3. CASE CooldownEnds
    BY <1>3 DEF CooldownEnds, funds, history
<1>4. CASE Restart
    <2>1. tick' \in [Ticks -> TickStates] /\ call' \in [Calls -> CallStates]
        BY <1>4 DEF Restart, TickStates, CallStates
    <2>2. restarts' \in 0 .. MaxRestarts
        BY <1>4, AgentAssumption DEF Restart
    <2>3. worker' \in BOOLEAN
        BY <1>4 DEF Restart, Documents
    <2> QED BY <1>4, <2>1, <2>2, <2>3 DEF Restart, ClearTier2, funds, history, Signals
<1> QED BY <1>1, <1>2, <1>3, <1>4

\* The initial state is typed, and every step keeps it so.
LEMMA InitTyped == Init => TypeOK
<1> SUFFICES ASSUME Init PROVE TypeOK
    OBVIOUS
<1>1. agent \in Documents /\ usdc \in Nat /\ xlm \in Nat
    BY AgentAssumption DEF Init
<1>2. day \in Nat /\ bought \in Nat /\ resets \in Nat /\ worker \in BOOLEAN
    BY <1>1 DEF Init, Documents
<1>3. tick \in [Ticks -> TickStates] /\ call \in [Calls -> CallStates]
    BY DEF Init, TickStates, CallStates
<1>4. prompts \in 0 .. MaxPrompts /\ executed \in [1 .. MaxPrompts -> Nat] /\ restarts \in 0 .. MaxRestarts
    BY AgentAssumption DEF Init
<1> QED BY <1>1, <1>2, <1>3, <1>4 DEF Init, TypeOK, Signals

LEMMA TypesStep == TypeOK /\ [Next]_vars => TypeOK'
<1> SUFFICES ASSUME TypeOK, [Next]_vars PROVE TypeOK'
    OBVIOUS
<1>1. CASE UNCHANGED vars
    BY <1>1 DEF vars, TypeOK, today, funds, memory, history
<1>2. ASSUME NEW t \in Ticks, Fire(t) \/ TickStep(t) PROVE TypeOK'
    BY <1>2, TickBeginsTypes, DecideTypes, TickEndsTypes DEF TickStep
<1>3. ASSUME NEW c \in Calls, LoadForCall(c) \/ Reject(c) \/ CallStep(c) PROVE TypeOK'
    BY <1>3, ConfirmTypes, RequestTypes, RevokeTypes DEF CallStep
<1> QED BY <1>1, <1>2, <1>3, WorldTypes DEF Next

\* In every reachable state the agent is well formed: a swap in flight has an amount
\* and a direction, no balance and no spending is negative, whatever handlers overlap
\* and whenever the server restarts.
THEOREM AgentTypes == Spec => []TypeOK
<1> QED BY InitTyped, TypesStep, PTL DEF Spec

-----------------------------------------------------------------------------
(* Coming to rest *)

\* The awaits that a handler may still have before it: none if it is at rest.
TickWork(s) ==
    CASE s.pc = "reset" -> 8 [] s.pc = "balance" -> 7 [] s.pc = "price" -> 6
      [] s.pc = "paid" -> 5 [] s.pc = "swap" -> 4 [] s.pc = "record" -> 3 [] s.pc = "mark" -> 2
      [] s.pc = "notify" -> 1 [] OTHER -> 0

CallWork(s) ==
    CASE s.pc \in Handlers -> (IF s.snap.active THEN 7 ELSE 0)
      [] s.pc = "balances" -> 6 [] s.pc = "payUsdc" -> 5 [] s.pc = "native" -> 4
      [] s.pc = "payXlm" -> 3 [] s.pc \in {"disable", "swap"} -> 2
      [] s.pc \in {"recheck", "unfunded", "record", "setup"} -> 1 [] OTHER -> 0

\* A handler's step leaves it fewer awaits, or none.
Nearer(after, before) == after = 0 \/ after < before

\* From one await to the next of them, or to the end.
TickMoves(before, after) ==
    \/ after.pc \in {"idle", "fired"}
    \/ before.pc = "reset" /\ after.pc = "balance"
    \/ before.pc = "balance" /\ after.pc = "price"
    \/ before.pc = "price" /\ after.pc = "paid"
    \/ before.pc \in {"price", "paid"} /\ after.pc = "swap"
    \/ before.pc = "swap" /\ after.pc = "record"
    \/ before.pc = "record" /\ after.pc \in {"mark", "notify"}
    \/ before.pc = "mark" /\ after.pc = "notify"

CallMoves(before, after) ==
    \/ after.pc \in {"idle", "done", "lost"}
    \/ after.pc \in Handlers /\ ~after.snap.active
    \/ /\ before.pc \in Handlers /\ before.snap.active
       /\ after.pc \in {"swap", "setup", "balances"}
    \/ before.pc = "swap" /\ after.pc = "record"
    \/ before.pc = "balances" /\ after.pc \in {"payUsdc", "unfunded", "recheck"}
    \/ before.pc = "payUsdc" /\ after.pc = "native"
    \/ before.pc = "native" /\ after.pc \in {"payXlm", "disable"}
    \/ before.pc = "payXlm" /\ after.pc = "disable"
    \/ before.pc = "disable" /\ after.pc = "recheck"

LEMMA MovesComeNearer ==
    /\ \A s, z : TickMoves(s, z) => Nearer(TickWork(z), TickWork(s))
    /\ \A s, z : CallMoves(s, z) => Nearer(CallWork(z), CallWork(s))
<1>1. ASSUME NEW s, NEW z, TickMoves(s, z) PROVE Nearer(TickWork(z), TickWork(s))
    BY <1>1 DEF TickMoves, TickWork, Nearer
<1>2. ASSUME NEW s, NEW z, CallMoves(s, z) PROVE Nearer(CallWork(z), CallWork(s))
    BY <1>2 DEF CallMoves, CallWork, Nearer, Handlers
<1> QED BY <1>1, <1>2

\* Nothing is left when the agent is at rest, and only then.
LEMMA RestMeansNoWork ==
    ASSUME TypeOK
    PROVE  AtRest <=> /\ \A t \in Ticks : TickWork(tick[t]) = 0
                      /\ \A c \in Calls : CallWork(call[c]) = 0
<1>1. \A t \in Ticks : TickWork(tick[t]) = 0 <=> tick[t].pc \in {"idle", "fired"}
    <2> TAKE t \in Ticks
    <2>1. tick[t].pc \in {"idle", "fired", "reset", "balance", "price", "paid", "swap", "record",
                          "mark", "notify"}
        BY DEF TypeOK, TickStates, Idle
    <2> QED BY <2>1 DEF TickWork
<1>2. \A c \in Calls : CallWork(call[c]) = 0 <=>
            \/ call[c].pc \in {"idle", "done", "lost"}
            \/ call[c].pc \in Handlers /\ ~call[c].snap.active
    <2> TAKE c \in Calls
    <2>1. call[c].pc \in {"idle", "done", "lost", "setup", "balances", "native", "disable",
                          "unfunded", "recheck",
                          "swap", "record", "payUsdc", "payXlm"} \cup Handlers
        BY DEF TypeOK, CallStates, Idle, Done, Lost
    <2> QED BY <2>1 DEF CallWork, Handlers
<1> QED BY <1>1, <1>2 DEF AtRest

\* A tick goes from one await to a later one, and only from there back to rest.
LEMMA TickGoesOn ==
    ASSUME TypeOK, ~agent.active, NEW t \in Ticks, Fire(t) \/ TickStep(t)
    PROVE  /\ \A q \in Ticks \ {t} : tick'[q] = tick[q]
           /\ TickMoves(tick[t], tick'[t])
           /\ UNCHANGED call /\ ~agent'.active
<1>1. tick \in [Ticks -> TickStates] /\ agent \in Documents
    BY DEF TypeOK
<1>2. ASSUME NEW to, TickGoes(t, to), TickMoves(tick[t], to)
      PROVE  TickMoves(tick[t], tick'[t]) /\ \A q \in Ticks \ {t} : tick'[q] = tick[q]
    BY <1>1, <1>2 DEF TickGoes
<1>3. UNCHANGED call /\ ~agent'.active
    BY <1>1 DEF Fire, TickStep, LoadAgent, ResetDailySpend, GetBalance, PayForPrice, Decide, ExecuteSwap,
       RecordTrade, RecordSpending, MarkDcaRun, Notify, TickFails, WithReset, Documents
<1>4. CASE Fire(t) \/ LoadAgent(t) \/ TickFails(t)
    BY <1>2, <1>3, <1>4 DEF Fire, LoadAgent, TickFails, TickMoves, Idle
<1>5. CASE ResetDailySpend(t) \/ GetBalance(t)
    BY <1>2, <1>3, <1>5 DEF ResetDailySpend, GetBalance, TickMoves
<1>8. CASE PayForPrice(t)
    <2>1. tick[t] = [pc |-> "price", snap |-> tick[t].snap, usdc |-> tick[t].usdc]
        BY <1>1, <1>8, TickParts DEF PayForPrice
    <2>2. [tick[t] EXCEPT !.pc = "paid"].pc = "paid"
        BY <2>1
    <2> QED BY <1>2, <1>3, <1>8, <2>1, <2>2 DEF PayForPrice, TickMoves
<1>6. ASSUME NEW p \in Prices, Decide(t, p)
      PROVE  TickMoves(tick[t], tick'[t]) /\ \A q \in Ticks \ {t} : tick'[q] = tick[q]
    <2>1. /\ tick[t].pc \in {"price", "paid"}
          /\ \/ TickGoes(t, Idle)
             \/ \E d, n, k : TickGoes(t, [pc |-> "swap", dir |-> d, amount |-> n, type |-> k])
        BY <1>6 DEF Decide
    <2> QED BY <1>2, <2>1 DEF TickMoves, Idle
<1>7. CASE ExecuteSwap(t) \/ RecordTrade(t) \/ MarkDcaRun(t) \/ Notify(t)
    <2>1. tick[t] = [pc |-> tick[t].pc, dir |-> tick[t].dir, amount |-> tick[t].amount,
                     type |-> tick[t].type]
        BY <1>1, <1>7, TickParts DEF ExecuteSwap, RecordTrade, MarkDcaRun, Notify
    <2>2. \A pc : [tick[t] EXCEPT !.pc = pc].pc = pc
        BY <2>1
    <2>3. \/ tick[t].pc = "swap" /\ (TickGoes(t, [tick[t] EXCEPT !.pc = "record"]) \/ TickGoes(t, Idle))
          \/ /\ tick[t].pc = "record"
             /\ \E pc \in {"mark", "notify"} : TickGoes(t, [tick[t] EXCEPT !.pc = pc])
          \/ tick[t].pc = "mark" /\ TickGoes(t, [tick[t] EXCEPT !.pc = "notify"])
          \/ tick[t].pc = "notify" /\ TickGoes(t, Idle)
        BY <1>7 DEF ExecuteSwap, RecordTrade, AfterRecord, MarkDcaRun, Notify
    <2> QED BY <1>2, <1>3, <2>2, <2>3 DEF TickMoves, Idle
<1> QED BY <1>3, <1>4, <1>5, <1>6, <1>7, <1>8 DEF TickStep

\* So does a request; one that loads a revoked agent has nothing left to do.
LEMMA RequestGoesOn ==
    ASSUME TypeOK, ~agent.active, NEW c \in Calls, LoadForCall(c) \/ Reject(c) \/ CallStep(c)
    PROVE  /\ \A q \in Calls \ {c} : call'[q] = call[q]
           /\ CallMoves(call[c], call'[c])
           /\ UNCHANGED tick /\ ~agent'.active
<1>1. call \in [Calls -> CallStates] /\ agent \in Documents
    BY DEF TypeOK
<1>2. ASSUME NEW to, CallGoes(c, to), CallMoves(call[c], to)
      PROVE  CallMoves(call[c], call'[c]) /\ \A q \in Calls \ {c} : call'[q] = call[q]
    BY <1>1, <1>2 DEF CallGoes
<1>3. UNCHANGED tick /\ ~agent'.active
    BY <1>1 DEF LoadForCall, Reject, CallStep, Confirm, ConfirmedSwap, RecordConfirmed, RecordSpending, Edit,
       CreateTrustline, TrustlineReady, RevokeStep, RevokeBegins, ReadBalances, PayUsdc,
       ReadNative, PayXlm, Disable, DisableUnfunded, RestartAfterFailure, CallEnds, Documents
<1>4. CASE LoadForCall(c)
    BY <1>2, <1>3, <1>4, AgentAssumption DEF LoadForCall, CallMoves
<1>5. CASE Reject(c) \/ CallEnds(c) \/ (\E l \in Limits : Edit(c, l)) \/ TrustlineReady(c)
           \/ RecordConfirmed(c) \/ RestartAfterFailure(c) \/ DisableUnfunded(c)
    <2>1. CallGoes(c, Done) \/ CallGoes(c, Lost)
        BY <1>5 DEF Reject, CallEnds, Edit, TrustlineReady, RecordConfirmed,
           RestartAfterFailure, DisableUnfunded
    <2> QED BY <1>2, <1>3, <2>1 DEF CallMoves, Done, Lost
<1>6. CASE Confirm(c) \/ CreateTrustline(c) \/ RevokeBegins(c)
    BY <1>2, <1>3, <1>6 DEF Confirm, CreateTrustline, RevokeBegins, CallMoves, Done, Handlers
<1>7. CASE ConfirmedSwap(c) \/ ReadBalances(c) \/ PayUsdc(c) \/ ReadNative(c) \/ PayXlm(c)
           \/ Disable(c)
    BY <1>2, <1>3, <1>7 DEF ConfirmedSwap, ReadBalances, PayUsdc, ReadNative, PayXlm, Disable,
       CallMoves, Done
<1> QED BY <1>4, <1>5, <1>6, <1>7 DEF CallStep, RevokeStep

\* What a step of a revoked agent, or of the world around it, does.
ComesNearer ==
    /\ ~agent'.active
    /\ \A t \in Ticks : tick'[t] = tick[t] \/ Nearer(TickWork(tick'[t]), TickWork(tick[t]))
    /\ \A c \in Calls : call'[c] = call[c] \/ Nearer(CallWork(call'[c]), CallWork(call[c]))

LEMMA StepComesNearer ==
    ASSUME TypeOK, Shape, ~agent.active, [Next]_vars
    PROVE  ComesNearer
<1>1. ASSUME NEW t \in Ticks, Fire(t) \/ TickStep(t) PROVE ComesNearer
    BY <1>1, TickGoesOn, MovesComeNearer DEF ComesNearer
<1>2. ASSUME NEW c \in Calls, LoadForCall(c) \/ Reject(c) \/ CallStep(c) PROVE ComesNearer
    BY <1>2, RequestGoesOn, MovesComeNearer DEF ComesNearer
<1>3. CASE Midnight \/ IntervalElapses \/ CooldownEnds \/ UNCHANGED vars
    BY <1>3 DEF Midnight, IntervalElapses, CooldownEnds, vars, ComesNearer, Shape, Fields
<1>4. CASE Restart
    BY <1>4 DEF Restart, ComesNearer, Nearer, TickWork, CallWork, Idle, Done, Handlers
<1> QED BY <1>1, <1>2, <1>3, <1>4 DEF Next

\* A revoked agent is never activated again, and no handler goes round: each of
\* its steps leaves it fewer awaits than before, or none, and no step of another
\* handler, of the clock or of the server adds any (worker-manager.ts, v1.ts).
THEOREM RevokedComesNearerToRest == Spec => [][~agent.active => ComesNearer]_vars
<1>1. TypeOK /\ Shape /\ [Next]_vars => [~agent.active => ComesNearer]_vars
    BY StepComesNearer
<1> QED BY <1>1, AgentTypes, AgentInvariant, PTL DEF Spec

\* Once it has come to rest it stays there: what RevokedComesToRest adds is that
\* the awaits end.
THEOREM RestIsForGood == Spec => ((~agent.active ~> AtRest) => RevokedComesToRest)
<1>1. TypeOK /\ Shape /\ ~agent.active /\ [Next]_vars => (~agent.active)'
    BY StepComesNearer DEF ComesNearer
<1>2. Shape /\ ~agent.active /\ AtRest /\ [Next]_vars => AtRest'
    <2>1. Shape /\ ~agent.active /\ AtRest /\ Next => AtRest'
        BY RestStep
    <2>2. AtRest /\ UNCHANGED vars => AtRest'
        BY DEF AtRest, vars
    <2> QED BY <2>1, <2>2
<1> QED BY <1>1, <1>2, AgentTypes, AgentInvariant, PTL DEF Spec, RevokedComesToRest

-----------------------------------------------------------------------------
(* The budget *)

\* What a tick may still add to the day's spending: the budget it saw, until it
\* has decided, and then the buy it has decided on.
TickClaim(s) ==
    IF s.pc \in {"balance", "price", "paid"} THEN RemainingDailyBudget(s.snap)
    ELSE IF s.pc \in {"swap", "record"} /\ s.dir = "buy_xlm" THEN s.amount
    ELSE 0

\* And what a confirmed suggestion may add.
CallClaim(s) ==
    IF s.pc \in {"swap", "record"} /\ s.trade.dir = "buy_xlm" THEN s.trade.amount ELSE 0

TickClaims == [t \in Ticks |-> TickClaim(tick[t])]
CallClaims == [c \in Calls |-> CallClaim(call[c])]

\* Every limit that was read, and every amount decided from it, is within the
\* largest limits the agent has had.
DocumentWithin(doc) == doc.dailyBudget <= LargestBudget /\ doc.tier2Max <= LargestSuggestion
TickWithin(s) ==
    /\ s.pc \in {"reset", "balance", "price", "paid"} => DocumentWithin(s.snap)
    /\ TickClaim(s) <= LargestBudget
TradeWithin(trade) == trade.dir = "buy_xlm" => trade.amount <= LargestSuggestion

LimitsInv ==
    DocumentWithin(agent) /\ (\A t \in Ticks : TickWithin(tick[t])) /\ TradeWithin(pendingTrade)

\* The day's spending and all that may still be added to it is within the bound.
ConfirmedInv == Total(CallClaims, Calls) <= Cardinality(Confirmed) * LargestSuggestion
ClaimsInv ==
    agent.spentToday + Total(TickClaims, Ticks) + Total(CallClaims, Calls)
        <= Cardinality(Ticks) * LargestBudget + Cardinality(Confirmed) * LargestSuggestion

\* A greatest member of a finite set is what Max names.
LEMMA MaxOfSome ==
    ASSUME NEW at, IsFiniteSet(at), at \subseteq Nat, at # {}
    PROVE  Max(at) \in at /\ \A j \in at : j <= Max(at)
<1>1. at \subseteq Int
    OBVIOUS
<1>2. \E i \in at : \A j \in at : j <= i
    BY <1>1, GreatestOfSome
<1>3. \E i \in at : \A j \in at : i >= j
    BY <1>1, <1>2
<1>4. Max(at) = CHOOSE i \in at : \A j \in at : i >= j
    BY DEF Max
<1>5. Max(at) \in at /\ \A j \in at : Max(at) >= j
    BY <1>3, <1>4
<1> QED BY <1>1, <1>5

\* The largest limits are those of the agent's beginning or of an edit.
LEMMA LargestLimits ==
    /\ LargestBudget \in Nat /\ LargestSuggestion \in Nat
    /\ \A l \in Limits \cup {InitialAgent} :
          l.dailyBudget <= LargestBudget /\ l.tier2Max <= LargestSuggestion
<1> DEFINE D == Limits \cup {InitialAgent}
           budgets == {l.dailyBudget : l \in D}
           tiers == {l.tier2Max : l \in D}
<1>1. IsFiniteSet(D)
    BY AgentAssumption, FS_AddElement
<1>2. [l \in D |-> l.dailyBudget] \in Surjection(D, budgets)
    BY DEF Surjection
<1>3. [l \in D |-> l.tier2Max] \in Surjection(D, tiers)
    BY DEF Surjection
<1>4. budgets \subseteq Nat /\ tiers \subseteq Nat /\ budgets # {} /\ tiers # {}
    BY AgentAssumption DEF Documents
<1>5. IsFiniteSet(budgets) /\ IsFiniteSet(tiers)
    <2> HIDE DEF D, budgets, tiers
    <2> QED BY <1>1, <1>2, <1>3, FS_Surjection
<1>6. /\ Max(budgets) \in budgets /\ \A j \in budgets : j <= Max(budgets)
      /\ Max(tiers) \in tiers /\ \A j \in tiers : j <= Max(tiers)
    <2> HIDE DEF D, budgets, tiers
    <2> QED BY <1>4, <1>5, MaxOfSome
<1>7. LargestBudget = Max(budgets) /\ LargestSuggestion = Max(tiers)
    BY DEF LargestBudget, LargestSuggestion
<1>8. \A l \in D : l.dailyBudget \in budgets /\ l.tier2Max \in tiers
    OBVIOUS
<1> HIDE DEF budgets, tiers
<1> QED BY <1>4, <1>6, <1>7, <1>8

\* A claim is an amount.
LEMMA TickClaimType == ASSUME NEW s \in TickStates PROVE TickClaim(s) \in Nat
<1>1. s.pc \in {"balance", "price", "paid"} => RemainingDailyBudget(s.snap) \in Nat
    BY TickParts, PlannedBuyType
<1> QED BY <1>1, TickParts DEF TickClaim

LEMMA CallClaimType == ASSUME NEW s \in CallStates PROVE CallClaim(s) \in Nat
BY CallParts DEF CallClaim, Trades

LEMMA ClaimsType ==
    ASSUME TypeOK
    PROVE  /\ \A t \in Ticks : TickClaims[t] \in Nat
           /\ \A c \in Calls : CallClaims[c] \in Nat
           /\ Total(TickClaims, Ticks) \in Nat /\ Total(CallClaims, Calls) \in Nat
           /\ Cardinality(Confirmed) \in Nat /\ Cardinality(Ticks) \in Nat
           /\ agent.spentToday \in Nat
<1>1. \A t \in Ticks : TickClaims[t] \in Nat
    BY TickClaimType DEF TypeOK, TickClaims
<1>2. \A c \in Calls : CallClaims[c] \in Nat
    BY CallClaimType DEF TypeOK, CallClaims
<1>3. Total(TickClaims, Ticks) \in Nat /\ Total(CallClaims, Calls) \in Nat
    BY <1>1, <1>2, TotalType, AgentAssumption
<1>4. IsFiniteSet(Confirmed)
    <2>1. IsFiniteSet(1 .. MaxPrompts)
        BY AgentAssumption, FS_Interval
    <2>2. Confirmed \subseteq 1 .. MaxPrompts
        BY DEF Confirmed
    <2> QED BY <2>1, <2>2, FS_Subset
<1> QED BY <1>1, <1>2, <1>3, <1>4, FS_CardinalityType, AgentAssumption DEF TypeOK, Documents

ClaimsTyped ==
    /\ Total(CallClaims, Calls) \in Nat /\ Total(TickClaims, Ticks) \in Nat
    /\ agent.spentToday \in Nat

LEMMA ClaimsAreTyped == TypeOK => ClaimsTyped
BY ClaimsType DEF ClaimsTyped

LEMMA ClaimsStayTyped == TypeOK' => ClaimsTyped'
BY ClaimsAreTyped, PTL

\* A budget that is left is within the daily budget.
LEMMA RemainingWithin ==
    ASSUME NEW doc \in Documents
    PROVE  /\ RemainingDailyBudget(doc) <= doc.dailyBudget
           /\ DocumentWithin(doc) => RemainingDailyBudget(doc) <= LargestBudget
           /\ RemainingDailyBudget(doc) = 0
              \/ doc.spentToday + RemainingDailyBudget(doc) = doc.dailyBudget
BY LargestLimits DEF RemainingDailyBudget, NonNegative, Documents, DocumentWithin

\* The next place of a tick is within the limits if what it saw is.
LEMMA TickStaysWithin ==
    ASSUME LimitsInv, TypeOK, NEW t \in Ticks, NEW to, TickGoes(t, to), TickWithin(to),
           DocumentWithin(agent'), TradeWithin(pendingTrade')
    PROVE  LimitsInv'
BY DEF LimitsInv, TypeOK, TickGoes

LEMMA LimitsOfTicks ==
    ASSUME LimitsInv, TypeOK, NEW t \in Ticks, Fire(t) \/ TickStep(t)
    PROVE  LimitsInv'
<1> DEFINE s == tick[t]
<1>1. /\ s \in TickStates /\ TickWithin(s) /\ agent \in Documents /\ DocumentWithin(agent)
      /\ TradeWithin(pendingTrade)
    BY DEF TypeOK, LimitsInv
<1>2. TickWithin(Idle) /\ TickWithin([pc |-> "fired"])
    BY LargestLimits DEF TickWithin, TickClaim, Idle
<1>3. CASE Fire(t) \/ TickFails(t)
    BY <1>1, <1>2, <1>3, TickStaysWithin DEF Fire, TickFails, memory
<1>4. CASE LoadAgent(t)
    <2>1. DocumentWithin(WithReset(agent))
        BY <1>1 DEF WithReset, DocumentWithin, Documents
    <2>2. /\ TickWithin([pc |-> "balance", snap |-> agent])
          /\ TickWithin([pc |-> "reset", snap |-> WithReset(agent)])
        BY <1>1, <2>1, RemainingWithin, LargestLimits DEF TickWithin, TickClaim
    <2> QED BY <1>1, <1>2, <1>4, <2>2, TickStaysWithin DEF LoadAgent, memory
<1>5. CASE ResetDailySpend(t)
    <2>1. s.snap \in Documents /\ DocumentWithin(s.snap)
        BY <1>1, <1>5, TickParts DEF ResetDailySpend, TickWithin
    <2>2. DocumentWithin(agent')
        BY <1>1, <1>5 DEF ResetDailySpend, DocumentWithin, Documents
    <2>3. TickWithin([pc |-> "balance", snap |-> s.snap])
        BY <2>1, RemainingWithin DEF TickWithin, TickClaim
    <2> QED BY <1>1, <1>5, <2>2, <2>3, TickStaysWithin DEF ResetDailySpend, memory
<1>6. CASE GetBalance(t)
    <2>1. \A seen \in {usdc, 0} : TickWithin([pc |-> "price", snap |-> s.snap, usdc |-> seen])
        BY <1>1, <1>6 DEF GetBalance, TickWithin, TickClaim
    <2> QED BY <1>1, <1>6, <2>1, TickStaysWithin DEF GetBalance, memory
<1>7. ASSUME NEW p \in Prices, Decide(t, p) PROVE LimitsInv'
    <2> DEFINE snap == s.snap
               plan == Plan(snap, s.usdc, p)
    <2>1. snap \in Documents /\ s.usdc \in Nat /\ DocumentWithin(snap)
        BY <1>1, <1>7, TickParts DEF Decide, TickWithin
    <2>2. /\ plan.amount \in Nat
          /\ plan.dir = "buy_xlm" =>
                plan.amount <= RemainingDailyBudget(snap) /\ plan.amount <= snap.tier2Max
        BY <2>1, PlanType
    <2>3. RemainingDailyBudget(snap) \in Nat /\ RemainingDailyBudget(snap) <= LargestBudget
          /\ snap.tier2Max <= LargestSuggestion /\ snap.tier2Max \in Nat
        BY <2>1, RemainingWithin, PlannedBuyType DEF DocumentWithin, Documents
    <2>4. /\ UNCHANGED agent
          /\ \/ ClearTier2 /\ TickGoes(t, Idle)
             \/ /\ TickGoes(t, [pc |-> "swap", dir |-> plan.dir, amount |-> plan.amount,
                                type |-> plan.type])
                /\ UNCHANGED pendingTrade
             \/ /\ pendingTrade' = [dir |-> plan.dir, amount |-> plan.amount, prompt |-> prompts']
                /\ TickGoes(t, Idle)
             \/ TickGoes(t, Idle) /\ UNCHANGED pendingTrade
        BY <1>7 DEF Decide
    <2> HIDE DEF plan, snap
    <2>5. plan.dir = "buy_xlm" => plan.amount <= LargestBudget /\ plan.amount <= LargestSuggestion
        BY <2>2, <2>3, LargestLimits
    <2>6. TickWithin([pc |-> "swap", dir |-> plan.dir, amount |-> plan.amount, type |-> plan.type])
        BY <2>2, <2>5, LargestLimits DEF TickWithin, TickClaim
    <2>7. TradeWithin([dir |-> plan.dir, amount |-> plan.amount, prompt |-> prompts'])
        BY <2>5 DEF TradeWithin
    <2>8. TradeWithin(NoTrade)
        BY DEF TradeWithin, NoTrade
    <2> QED BY <1>1, <1>2, <2>4, <2>6, <2>7, <2>8, TickStaysWithin DEF ClearTier2
<1>8. ASSUME ExecuteSwap(t) \/ RecordTrade(t) \/ MarkDcaRun(t) \/ Notify(t) PROVE LimitsInv'
    <2>1. s = [pc |-> s.pc, dir |-> s.dir, amount |-> s.amount, type |-> s.type]
        BY <1>1, <1>8, TickParts DEF ExecuteSwap, RecordTrade, MarkDcaRun, Notify
    <2>2. s.pc = "swap" => TickWithin([s EXCEPT !.pc = "record"])
        BY <1>1, <2>1 DEF TickWithin, TickClaim
    <2>3. \A pc \in {"mark", "notify"} : TickWithin([s EXCEPT !.pc = pc])
        BY <2>1, LargestLimits DEF TickWithin, TickClaim
    <2>4. agent'.dailyBudget = agent.dailyBudget /\ agent'.tier2Max = agent.tier2Max
        BY <1>1, <1>8 DEF ExecuteSwap, RecordTrade, RecordSpending, MarkDcaRun, Notify, Documents
    <2>5. DocumentWithin(agent') /\ UNCHANGED pendingTrade
        BY <1>1, <1>8, <2>4 DEF DocumentWithin, ExecuteSwap, RecordTrade, RecordSpending, MarkDcaRun, Notify, memory
    <2>6. \E to : TickGoes(t, to) /\ TickWithin(to)
        BY <1>2, <1>8, <2>2, <2>3 DEF ExecuteSwap, RecordTrade, MarkDcaRun, Notify, AfterRecord
    <2> QED BY <1>1, <2>5, <2>6, TickStaysWithin
<1>9. CASE PayForPrice(t)
    <2>1. s = [pc |-> "price", snap |-> s.snap, usdc |-> s.usdc]
        BY <1>1, <1>9, TickParts DEF PayForPrice
    <2>2. TickWithin([s EXCEPT !.pc = "paid"])
        BY <1>1, <2>1 DEF TickWithin, TickClaim
    <2> QED BY <1>1, <1>9, <2>2, TickStaysWithin DEF PayForPrice, memory
<1> QED BY <1>3, <1>4, <1>5, <1>6, <1>7, <1>8, <1>9 DEF TickStep

\* An edit brings one of the limits, and no other step brings any.
LEMMA LimitsStep == TypeOK /\ LimitsInv /\ [Next]_vars => LimitsInv'
<1> SUFFICES ASSUME TypeOK, LimitsInv, [Next]_vars PROVE LimitsInv'
    OBVIOUS
<1>1. ASSUME UNCHANGED tick, DocumentWithin(agent'), pendingTrade' \in {pendingTrade, NoTrade}
      PROVE  LimitsInv'
    BY <1>1 DEF LimitsInv, TradeWithin, NoTrade
<1>2. ASSUME agent'.dailyBudget = agent.dailyBudget, agent'.tier2Max = agent.tier2Max
      PROVE  DocumentWithin(agent')
    BY <1>2 DEF LimitsInv, DocumentWithin
<1>3. ASSUME NEW c \in Calls, NEW l \in Limits, Edit(c, l) PROVE LimitsInv'
    <2>1. agent'.dailyBudget = l.dailyBudget /\ agent'.tier2Max = l.tier2Max
        BY <1>3 DEF Edit, TypeOK, Documents
    <2>2. DocumentWithin(agent')
        BY <2>1, LargestLimits DEF DocumentWithin
    <2> QED BY <1>1, <1>3, <2>2 DEF Edit
<1>4. ASSUME NEW c \in Calls,
             LoadForCall(c) \/ Reject(c) \/ CallStep(c), ~(\E l \in Limits : Edit(c, l))
      PROVE  LimitsInv'
    <2>1. agent'.dailyBudget = agent.dailyBudget /\ agent'.tier2Max = agent.tier2Max
        BY <1>4 DEF LoadForCall, Reject, CallStep, Confirm, ConfirmedSwap, RecordConfirmed, RecordSpending,
           CreateTrustline, TrustlineReady, RevokeStep, RevokeBegins, ReadBalances, PayUsdc,
           ReadNative, PayXlm, Disable, DisableUnfunded, RestartAfterFailure, CallEnds, TypeOK, Documents
    <2>2. UNCHANGED tick /\ pendingTrade' \in {pendingTrade, NoTrade}
        BY <1>4 DEF LoadForCall, Reject, CallStep, Confirm, ConfirmedSwap, RecordConfirmed, RecordSpending,
           CreateTrustline, TrustlineReady, RevokeStep, RevokeBegins, ReadBalances, PayUsdc,
           ReadNative, PayXlm, Disable, DisableUnfunded, RestartAfterFailure, CallEnds, memory, ClearTier2
    <2> QED BY <1>1, <1>2, <2>1, <2>2
<1>5. CASE Midnight \/ IntervalElapses \/ CooldownEnds \/ UNCHANGED vars
    <2>1. agent'.dailyBudget = agent.dailyBudget /\ agent'.tier2Max = agent.tier2Max
        BY <1>5 DEF Midnight, IntervalElapses, CooldownEnds, vars, TypeOK, Documents
    <2>2. UNCHANGED tick /\ UNCHANGED pendingTrade
        BY <1>5 DEF Midnight, IntervalElapses, CooldownEnds, vars, memory
    <2> QED BY <1>1, <1>2, <2>1, <2>2
<1>6. CASE Restart
    <2>1. TickWithin(Idle) /\ TradeWithin(NoTrade)
        BY LargestLimits DEF TickWithin, TickClaim, Idle, TradeWithin, NoTrade
    <2> QED BY <1>6, <2>1 DEF LimitsInv, Restart, ClearTier2
<1> QED BY <1>3, <1>4, <1>5, <1>6, LimitsOfTicks DEF Next

\* What one tick, or one request, goes on to claim.
LEMMA OneTickClaims ==
    ASSUME TypeOK, TypeOK', NEW t \in Ticks, NEW to, TickGoes(t, to)
    PROVE  Total(TickClaims, Ticks)'
             = Total(TickClaims, Ticks) - TickClaim(tick[t]) + TickClaim(to)
<1> DEFINE f == [u \in Ticks |-> TickClaim(tick[u])]
           g == [u \in Ticks |-> TickClaim(tick'[u])]
<1>1. \A u \in Ticks : f[u] \in Nat
    BY TickClaimType DEF TypeOK
<1>2. \A u \in Ticks : g[u] \in Nat
    BY TickClaimType DEF TypeOK
<1>3. f[t] = TickClaim(tick[t]) /\ g[t] = TickClaim(to)
    BY DEF TickGoes, TypeOK
<1>4. \A u \in Ticks \ {t} : g[u] = f[u]
    BY DEF TickGoes, TypeOK
<1>5. f = TickClaims /\ g = TickClaims'
    BY DEF TickClaims
<1> HIDE DEF f, g
<1>6. Total(g, Ticks) = Total(f, Ticks) - f[t] + g[t]
    <2>1. IsFiniteSet(Ticks)
        BY AgentAssumption
    <2> QED BY <1>1, <1>2, <1>4, <2>1, TotalUpdate
<1> QED BY <1>3, <1>5, <1>6

LEMMA OneCallClaims ==
    ASSUME TypeOK, TypeOK', NEW c \in Calls, NEW to, CallGoes(c, to)
    PROVE  Total(CallClaims, Calls)'
             = Total(CallClaims, Calls) - CallClaim(call[c]) + CallClaim(to)
<1> DEFINE f == [u \in Calls |-> CallClaim(call[u])]
           g == [u \in Calls |-> CallClaim(call'[u])]
<1>1. \A u \in Calls : f[u] \in Nat
    BY CallClaimType DEF TypeOK
<1>2. \A u \in Calls : g[u] \in Nat
    BY CallClaimType DEF TypeOK
<1>3. f[c] = CallClaim(call[c]) /\ g[c] = CallClaim(to)
    BY DEF CallGoes, TypeOK
<1>4. \A u \in Calls \ {c} : g[u] = f[u]
    BY DEF CallGoes, TypeOK
<1>5. f = CallClaims /\ g = CallClaims'
    BY DEF CallClaims
<1> HIDE DEF f, g
<1>6. Total(g, Calls) = Total(f, Calls) - f[c] + g[c]
    <2>1. IsFiniteSet(Calls)
        BY AgentAssumption
    <2> QED BY <1>1, <1>2, <1>4, <2>1, TotalUpdate
<1> QED BY <1>3, <1>5, <1>6

\* The other ticks claim a budget each at most.
LEMMA OthersWithin ==
    ASSUME TypeOK, LimitsInv, NEW t \in Ticks
    PROVE  Total(TickClaims, Ticks) - TickClaim(tick[t]) + LargestBudget
             <= Cardinality(Ticks) * LargestBudget
<1> DEFINE others == Ticks \ {t}
<1>1. IsFiniteSet(Ticks)
    BY AgentAssumption
<1>2. IsFiniteSet(others) /\ Cardinality(others) = Cardinality(Ticks) - 1
    BY <1>1, FS_RemoveElement
<1>3. \A u \in Ticks : TickClaims[u] \in Nat /\ TickClaims[u] <= LargestBudget
    BY ClaimsType DEF LimitsInv, TickWithin, TickClaims
<1>4. Total(TickClaims, others) <= Cardinality(others) * LargestBudget
    BY <1>2, <1>3, LargestLimits, TotalAtMost
<1>5. Total(TickClaims, Ticks) = Total(TickClaims, others) + TickClaims[t]
      /\ Total(TickClaims, others) \in Nat
    BY <1>1, <1>3, TotalSplit
<1>6. TickClaims[t] = TickClaim(tick[t]) /\ TickClaims[t] \in Nat
    BY <1>3 DEF TickClaims
<1>7. Cardinality(Ticks) \in Nat /\ LargestBudget \in Nat
    BY <1>1, FS_CardinalityType, LargestLimits
<1>8. (Cardinality(Ticks) - 1) * LargestBudget = Cardinality(Ticks) * LargestBudget - LargestBudget
      /\ Cardinality(Ticks) * LargestBudget \in Nat
    BY <1>7
<1> HIDE DEF others
<1> QED BY <1>2, <1>4, <1>5, <1>6, <1>7, <1>8

BudgetInv == ConfirmedInv /\ ClaimsInv

\* Nothing more is claimed and nothing more is confirmed.
LEMMA BudgetKept ==
    ASSUME TypeOK, TypeOK', BudgetInv, UNCHANGED executed,
           Total(CallClaims, Calls)' <= Total(CallClaims, Calls),
           agent.spentToday' + Total(TickClaims, Ticks)' + Total(CallClaims, Calls)'
             <= agent.spentToday + Total(TickClaims, Ticks) + Total(CallClaims, Calls)
    PROVE  BudgetInv'
<1> DEFINE n == Cardinality(Ticks) * LargestBudget
           k == Cardinality(Confirmed) * LargestSuggestion
<1>1. k' = k
    BY DEF Confirmed
<1>2. n \in Nat /\ k \in Nat
    BY ClaimsType, LargestLimits
<1>3. /\ Total(CallClaims, Calls) \in Nat /\ Total(CallClaims, Calls)' \in Nat
      /\ Total(TickClaims, Ticks) \in Nat /\ Total(TickClaims, Ticks)' \in Nat
      /\ agent.spentToday \in Nat /\ agent.spentToday' \in Nat
    <2>1. /\ Total(CallClaims, Calls)' \in Nat /\ Total(TickClaims, Ticks)' \in Nat
          /\ agent.spentToday' \in Nat
        BY ClaimsStayTyped DEF ClaimsTyped
    <2> QED BY <2>1, ClaimsAreTyped DEF ClaimsTyped
<1>4. Total(CallClaims, Calls) <= k
      /\ agent.spentToday + Total(TickClaims, Ticks) + Total(CallClaims, Calls) <= n + k
    BY DEF BudgetInv, ConfirmedInv, ClaimsInv
<1> HIDE DEF n, k
<1>5. /\ Total(CallClaims, Calls)' <= k
      /\ agent.spentToday' + Total(TickClaims, Ticks)' + Total(CallClaims, Calls)' <= n + k
    BY <1>2, <1>3, <1>4
<1> QED BY <1>1, <1>5 DEF BudgetInv, ConfirmedInv, ClaimsInv, n, k

LEMMA CallsUnmoved ==
    ASSUME UNCHANGED call PROVE Total(CallClaims, Calls)' = Total(CallClaims, Calls)
BY DEF CallClaims

LEMMA TicksUnmoved ==
    ASSUME UNCHANGED tick PROVE Total(TickClaims, Ticks)' = Total(TickClaims, Ticks)
BY DEF TickClaims

\* A tick that spends and claims no more than it claimed.
LEMMA TickKeepsBudget ==
    ASSUME TypeOK, TypeOK', BudgetInv, UNCHANGED <<call, executed>>,
           NEW t \in Ticks, NEW to, TickGoes(t, to), TickClaim(to) \in Nat,
           agent.spentToday' + TickClaim(to) <= agent.spentToday + TickClaim(tick[t])
    PROVE  BudgetInv'
<1> DEFINE T == Total(TickClaims, Ticks)
           C == Total(CallClaims, Calls)
<1>1. T' = T - TickClaim(tick[t]) + TickClaim(to) /\ C' = C
    BY OneTickClaims, CallsUnmoved
<1>2. /\ TickClaim(tick[t]) \in Nat /\ T \in Nat /\ C \in Nat
      /\ agent.spentToday \in Nat /\ agent.spentToday' \in Nat
    BY TickClaimType, ClaimsAreTyped, ClaimsStayTyped DEF TypeOK, ClaimsTyped
<1>3. C' <= C /\ agent.spentToday' + T' + C' <= agent.spentToday + T + C
    <2> HIDE DEF T, C
    <2> QED BY <1>1, <1>2
<1> QED BY <1>3, BudgetKept

\* A request that does.
LEMMA CallKeepsBudget ==
    ASSUME TypeOK, TypeOK', BudgetInv, UNCHANGED <<tick, executed>>,
           NEW c \in Calls, NEW to, CallGoes(c, to), CallClaim(to) \in Nat,
           CallClaim(to) <= CallClaim(call[c]),
           agent.spentToday' + CallClaim(to) <= agent.spentToday + CallClaim(call[c])
    PROVE  BudgetInv'
<1> DEFINE T == Total(TickClaims, Ticks)
           C == Total(CallClaims, Calls)
<1>1. C' = C - CallClaim(call[c]) + CallClaim(to) /\ T' = T
    BY OneCallClaims, TicksUnmoved
<1>2. /\ CallClaim(call[c]) \in Nat /\ T \in Nat /\ C \in Nat
      /\ agent.spentToday \in Nat /\ agent.spentToday' \in Nat
    BY CallClaimType, ClaimsAreTyped, ClaimsStayTyped DEF TypeOK, ClaimsTyped
<1>3. C' <= C /\ agent.spentToday' + T' + C' <= agent.spentToday + T + C
    <2> HIDE DEF T, C
    <2> QED BY <1>1, <1>2
<1> QED BY <1>3, BudgetKept

\* A tick that had no claim and begins with one: what is spent and what it claims
\* are one budget, and the other ticks claim one each.
LEMMA TickBeginsBudget ==
    ASSUME TypeOK, TypeOK', LimitsInv, BudgetInv, UNCHANGED <<call, executed>>,
           NEW t \in Ticks, NEW to, TickGoes(t, to), TickClaim(to) \in Nat,
           TickClaim(tick[t]) = 0, agent.spentToday' + TickClaim(to) <= LargestBudget
    PROVE  BudgetInv'
<1> DEFINE T == Total(TickClaims, Ticks)
           C == Total(CallClaims, Calls)
           n == Cardinality(Ticks) * LargestBudget
           k == Cardinality(Confirmed) * LargestSuggestion
<1>1. T' = T - TickClaim(tick[t]) + TickClaim(to) /\ C' = C
    BY OneTickClaims, CallsUnmoved
<1>2. T - TickClaim(tick[t]) + LargestBudget <= n
    BY OthersWithin
<1>3. /\ T \in Nat /\ C \in Nat /\ n \in Nat /\ k \in Nat /\ LargestBudget \in Nat
      /\ agent.spentToday' \in Nat
    BY ClaimsType, ClaimsStayTyped, LargestLimits DEF ClaimsTyped
<1>4. C <= k
    BY DEF BudgetInv, ConfirmedInv
<1>5. k' = k
    BY DEF Confirmed
<1>6. C' <= k /\ agent.spentToday' + T' + C' <= n + k
    <2> HIDE DEF T, C, n, k
    <2> QED BY <1>1, <1>2, <1>3, <1>4
<1> QED BY <1>5, <1>6 DEF BudgetInv, ConfirmedInv, ClaimsInv

LEMMA BudgetOfTicks ==
    ASSUME TypeOK, TypeOK', LimitsInv, BudgetInv, NEW t \in Ticks, Fire(t) \/ TickStep(t)
    PROVE  BudgetInv'
<1> DEFINE s == tick[t]
<1>1. /\ s \in TickStates /\ TickWithin(s) /\ agent \in Documents /\ DocumentWithin(agent)
      /\ TickClaim(s) \in Nat /\ agent.spentToday \in Nat
    BY TickClaimType DEF TypeOK, LimitsInv, Documents
<1>2. TickClaim(Idle) = 0 /\ TickClaim([pc |-> "fired"]) = 0
    BY DEF TickClaim, Idle
<1>3. CASE Fire(t) \/ TickFails(t)
    <2>1. agent.spentToday' = agent.spentToday /\ UNCHANGED <<call, executed>>
        BY <1>3 DEF Fire, TickFails, history
    <2> QED BY <1>1, <1>2, <1>3, <2>1, TickKeepsBudget DEF Fire, TickFails
<1>4. CASE LoadAgent(t)
    <2>1. agent.spentToday' = agent.spentToday /\ UNCHANGED <<call, executed>>
        BY <1>4 DEF LoadAgent, history
    <2>2. TickClaim(s) = 0
        BY <1>4 DEF LoadAgent, TickClaim
    <2>3. ASSUME NEW to, TickGoes(t, to), TickClaim(to) = 0 PROVE BudgetInv'
        BY <1>1, <2>1, <2>2, <2>3, TickKeepsBudget
    <2>4. TickClaim([pc |-> "reset", snap |-> WithReset(agent)]) = 0
        BY DEF TickClaim
    <2>5. ASSUME TickGoes(t, [pc |-> "balance", snap |-> agent]) PROVE BudgetInv'
        <3> DEFINE to == [pc |-> "balance", snap |-> agent]
        <3>1. TickClaim(to) = RemainingDailyBudget(agent)
            BY DEF TickClaim
        <3>2. \/ TickClaim(to) = 0
              \/ agent.spentToday + TickClaim(to) = agent.dailyBudget
            BY <1>1, <3>1, RemainingWithin
        <3>3. TickClaim(to) \in Nat /\ agent.dailyBudget <= LargestBudget
            BY <1>1, <3>1, PlannedBuyType DEF DocumentWithin
        <3> HIDE DEF to
        <3> QED BY <2>1, <2>2, <2>3, <2>5, <3>2, <3>3, TickBeginsBudget DEF to
    <2> QED BY <1>2, <1>4, <2>3, <2>4, <2>5 DEF LoadAgent
<1>5. CASE ResetDailySpend(t)
    <2> DEFINE to == [pc |-> "balance", snap |-> s.snap]
    <2>1. s.snap \in Documents /\ DocumentWithin(s.snap) /\ TickClaim(s) = 0
        BY <1>1, <1>5, TickParts DEF ResetDailySpend, TickWithin, TickClaim
    <2>3. TickClaim(to) \in Nat /\ TickClaim(to) <= LargestBudget
        <3>1. TickClaim(to) = RemainingDailyBudget(s.snap)
            BY DEF TickClaim
        <3> QED BY <2>1, <3>1, RemainingWithin, PlannedBuyType
    <2>4. agent.spentToday' = 0
        BY <1>1, <1>5 DEF ResetDailySpend, Documents
    <2>5. agent.spentToday' + TickClaim(to) <= LargestBudget
        BY <2>3, <2>4
    <2>6. TickGoes(t, to) /\ UNCHANGED <<call, executed>>
        BY <1>5 DEF ResetDailySpend, history
    <2> HIDE DEF to
    <2> QED BY <2>1, <2>3, <2>5, <2>6, TickBeginsBudget
<1>6. CASE GetBalance(t)
    <2>1. ASSUME NEW seen
          PROVE  TickClaim([pc |-> "price", snap |-> s.snap, usdc |-> seen]) = TickClaim(s)
        BY <1>6 DEF GetBalance, TickClaim
    <2>2. agent.spentToday' = agent.spentToday /\ UNCHANGED <<call, executed>>
        BY <1>6 DEF GetBalance, history
    <2> QED BY <1>1, <1>6, <2>1, <2>2, TickKeepsBudget DEF GetBalance
<1>7. ASSUME NEW p \in Prices, Decide(t, p) PROVE BudgetInv'
    <2> DEFINE snap == s.snap
               plan == Plan(snap, s.usdc, p)
               to == [pc |-> "swap", dir |-> plan.dir, amount |-> plan.amount, type |-> plan.type]
    <2>1. snap \in Documents /\ s.usdc \in Nat /\ TickClaim(s) = RemainingDailyBudget(snap)
        BY <1>1, <1>7, TickParts DEF Decide, TickClaim
    <2>2. /\ plan.amount \in Nat
          /\ plan.dir = "buy_xlm" => plan.amount <= RemainingDailyBudget(snap)
        BY <2>1, PlanType
    <2>3. TickClaim(to) \in Nat /\ TickClaim(to) <= TickClaim(s)
        <3>1. TickClaim(to) = IF plan.dir = "buy_xlm" THEN plan.amount ELSE 0
            <4> HIDE DEF plan
            <4> QED BY DEF TickClaim
        <3> HIDE DEF to, plan
        <3> QED BY <1>1, <2>1, <2>2, <3>1
    <2>4. /\ agent.spentToday' = agent.spentToday
          /\ UNCHANGED <<call, executed>>
          /\ TickGoes(t, Idle) \/ TickGoes(t, to)
        BY <1>7 DEF Decide, history
    <2> HIDE DEF to
    <2>5. CASE TickGoes(t, Idle)
        BY <1>1, <1>2, <2>4, <2>5, TickKeepsBudget
    <2>6. CASE TickGoes(t, to)
        BY <1>1, <2>3, <2>4, <2>6, TickKeepsBudget
    <2> QED BY <2>4, <2>5, <2>6
<1>8. ASSUME ExecuteSwap(t) \/ RecordTrade(t) \/ MarkDcaRun(t) \/ Notify(t) PROVE BudgetInv'
    <2>1. /\ s = [pc |-> s.pc, dir |-> s.dir, amount |-> s.amount, type |-> s.type]
          /\ s.amount \in Nat
        BY <1>1, <1>8, TickParts DEF ExecuteSwap, RecordTrade, MarkDcaRun, Notify
    <2>2. UNCHANGED <<call, executed>>
        BY <1>8 DEF ExecuteSwap, RecordTrade, RecordSpending, MarkDcaRun, Notify, history
    <2>3. \A pc \in {"mark", "notify"} : TickClaim([s EXCEPT !.pc = pc]) = 0
        BY <2>1 DEF TickClaim
    <2>4. CASE ExecuteSwap(t)
        <3>1. TickClaim([s EXCEPT !.pc = "record"]) = TickClaim(s)
            BY <2>1, <2>4 DEF ExecuteSwap, TickClaim
        <3>2. agent.spentToday' = agent.spentToday
            BY <2>4 DEF ExecuteSwap
        <3> QED BY <1>1, <1>2, <2>2, <2>4, <3>1, <3>2, TickKeepsBudget DEF ExecuteSwap
    <2>5. CASE RecordTrade(t)
        <3>1. agent.spentToday' = agent.spentToday + TickClaim(s)
            BY <1>1, <2>5 DEF RecordTrade, RecordSpending, TickClaim, Documents
        <3> QED BY <1>1, <2>2, <2>3, <2>5, <3>1, TickKeepsBudget DEF RecordTrade, RecordSpending, AfterRecord
    <2>6. CASE MarkDcaRun(t) \/ Notify(t)
        <3>1. agent.spentToday' = agent.spentToday
            BY <1>1, <2>6 DEF MarkDcaRun, Notify, Documents
        <3>2. \E to : TickGoes(t, to) /\ TickClaim(to) = 0
            BY <1>2, <2>3, <2>6 DEF MarkDcaRun, Notify
        <3> QED BY <1>1, <2>2, <3>1, <3>2, TickKeepsBudget
    <2> QED BY <1>8, <2>4, <2>5, <2>6
<1>9. CASE PayForPrice(t)
    <2>1. s = [pc |-> "price", snap |-> s.snap, usdc |-> s.usdc]
        BY <1>1, <1>9, TickParts DEF PayForPrice
    <2>2. TickClaim([s EXCEPT !.pc = "paid"]) = TickClaim(s)
        BY <2>1 DEF TickClaim
    <2>3. agent.spentToday' = agent.spentToday /\ UNCHANGED <<call, executed>>
        BY <1>9 DEF PayForPrice, history
    <2> QED BY <1>1, <1>9, <2>2, <2>3, TickKeepsBudget DEF PayForPrice
<1> QED BY <1>3, <1>4, <1>5, <1>6, <1>7, <1>8, <1>9 DEF TickStep

\* A confirmation claims a suggestion, and takes it as confirmed: it was not before.
LEMMA BudgetOfConfirm ==
    ASSUME TypeOK, TypeOK', SuggestionsInv, LimitsInv, BudgetInv, NEW c \in Calls, Confirm(c)
    PROVE  BudgetInv'
<1> DEFINE T == Total(TickClaims, Ticks)
           C == Total(CallClaims, Calls)
           n == Cardinality(Ticks) * LargestBudget
           k == Cardinality(Confirmed)
           L == LargestSuggestion
           p == pendingTrade.prompt
           to == [pc |-> "swap", trade |-> pendingTrade]
<1>1. pendingTrade \in Trades /\ p \in 1 .. MaxPrompts /\ executed[p] = 0
    BY DEF Confirm, TypeOK, SuggestionsInv, Trades
<1>2. TickClaims' = TickClaims /\ T' = T /\ agent.spentToday' = agent.spentToday
    BY TicksUnmoved DEF Confirm, TickClaims
<1>4. CallClaim(call[c]) = 0
    BY DEF Confirm, CallClaim
<1>5. CallClaim(to) \in Nat /\ CallClaim(to) <= L
    <2>1. CallClaim(to) = IF pendingTrade.dir = "buy_xlm" THEN pendingTrade.amount ELSE 0
        BY DEF CallClaim
    <2>2. pendingTrade.amount \in Nat /\ L \in Nat
        BY <1>1, LargestLimits DEF Trades
    <2> HIDE DEF to, L
    <2> QED BY <2>1, <2>2 DEF LimitsInv, TradeWithin, L
<1>6. C' = C - CallClaim(call[c]) + CallClaim(to)
    BY OneCallClaims DEF Confirm
<1>7. Confirmed' = Confirmed \cup {p} /\ p \notin Confirmed
    <2>1. \A q \in 1 .. MaxPrompts : executed[q] \in Nat
        BY DEF TypeOK
    <2>2. \A q \in 1 .. MaxPrompts : executed'[q] = IF q = p THEN executed[q] + 1 ELSE executed[q]
        BY <1>1 DEF Confirm, TypeOK
    <2> HIDE DEF p
    <2>3. executed'[p] > 0 /\ ~(executed[p] > 0)
        BY <1>1, <2>1, <2>2
    <2> QED BY <1>1, <2>2, <2>3 DEF Confirmed
<1>8. k' = k + 1
    <2>1. IsFiniteSet(Confirmed)
        <3>1. IsFiniteSet(1 .. MaxPrompts)
            BY AgentAssumption, FS_Interval
        <3>2. Confirmed \subseteq 1 .. MaxPrompts
            BY DEF Confirmed
        <3> QED BY <3>1, <3>2, FS_Subset
    <2> HIDE DEF p
    <2> QED BY <1>7, <2>1, FS_AddElement
<1>9. T \in Nat /\ C \in Nat /\ k \in Nat /\ L \in Nat /\ n \in Nat /\ agent.spentToday \in Nat
    BY ClaimsType, LargestLimits
<1>10. C <= k * L /\ agent.spentToday + T + C <= n + k * L
    BY DEF BudgetInv, ConfirmedInv, ClaimsInv
<1> HIDE DEF T, C, n, k, L, to
<1>11. C' <= k * L + L /\ agent.spentToday' + T' + C' <= n + (k * L + L)
    <2>1. k * L \in Nat
        BY <1>9
    <2> DEFINE kL == k * L
    <2> HIDE DEF kL
    <2> QED BY <1>2, <1>4, <1>5, <1>6, <1>9, <1>10, <2>1 DEF kL
<1>12. (k + 1) * L = k * L + L
    BY <1>9
<1>13. C' <= k' * L /\ agent.spentToday' + T' + C' <= n + k' * L
    BY <1>8, <1>11, <1>12
<1> QED BY <1>13 DEF BudgetInv, ConfirmedInv, ClaimsInv, T, C, n, k, L

LEMMA BudgetOfCalls ==
    ASSUME TypeOK, TypeOK', SuggestionsInv, LimitsInv, BudgetInv,
           NEW c \in Calls, LoadForCall(c) \/ Reject(c) \/ CallStep(c)
    PROVE  BudgetInv'
<1> DEFINE s == call[c]
<1>1. /\ s \in CallStates /\ CallClaim(s) \in Nat
      /\ agent \in Documents /\ agent.spentToday \in Nat
    BY CallClaimType DEF TypeOK, Documents
<1>2. ASSUME UNCHANGED <<tick, executed>>, agent.spentToday' = agent.spentToday,
             NEW to, CallGoes(c, to), CallClaim(to) = 0 \/ CallClaim(to) = CallClaim(s)
      PROVE  BudgetInv'
    BY <1>1, <1>2, CallKeepsBudget
<1>3. /\ CallClaim(Done) = 0
      /\ \A pc : pc \notin {"swap", "record"} => CallClaim([pc |-> pc]) = 0
    BY DEF CallClaim, Done
<1>4. CASE LoadForCall(c)
    <2>1. CallClaim([pc |-> Handler[c], snap |-> agent]) = 0
        BY AgentAssumption DEF CallClaim, Handlers
    <2> QED BY <1>2, <1>4, <2>1 DEF LoadForCall, history
<1>5. CASE Reject(c) \/ CallEnds(c)
    BY <1>2, <1>3, <1>5 DEF Reject, CallEnds, history
<1>6. CASE ConfirmedSwap(c)
    <2>1. CallClaim([pc |-> "record", trade |-> s.trade]) = CallClaim(s)
        BY <1>6 DEF ConfirmedSwap, CallClaim
    <2>2. UNCHANGED <<tick, executed>> /\ agent.spentToday' = agent.spentToday
        BY <1>6 DEF ConfirmedSwap, history
    <2> QED BY <1>2, <1>3, <1>6, <2>1, <2>2 DEF ConfirmedSwap
<1>7. CASE RecordConfirmed(c)
    <2>1. agent.spentToday' = agent.spentToday + CallClaim(s)
        BY <1>1, <1>7 DEF RecordConfirmed, RecordSpending, CallClaim, Documents
    <2>2. UNCHANGED <<tick, executed>> /\ CallGoes(c, Done)
        BY <1>7 DEF RecordConfirmed, RecordSpending, history
    <2> QED BY <1>1, <1>3, <2>1, <2>2, CallKeepsBudget
<1>8. CASE (\E l \in Limits : Edit(c, l)) \/ CreateTrustline(c) \/ TrustlineReady(c)
    <2>1. agent.spentToday' = agent.spentToday
        BY <1>1, <1>8 DEF Edit, CreateTrustline, TrustlineReady, Documents
    <2>2. UNCHANGED <<tick, executed>>
        BY <1>8 DEF Edit, CreateTrustline, TrustlineReady, history
    <2>3. CallGoes(c, Done) \/ CallGoes(c, [pc |-> "setup"])
        BY <1>8 DEF Edit, CreateTrustline, TrustlineReady
    <2>4. CallClaim([pc |-> "setup"]) = 0
        BY <1>3
    <2> QED BY <1>2, <1>3, <2>1, <2>2, <2>3, <2>4
<1>9. CASE RevokeStep(c)
    <2>1. agent.spentToday' = agent.spentToday
        BY <1>1, <1>9 DEF RevokeStep, RevokeBegins, ReadBalances, PayUsdc, ReadNative, PayXlm, Disable, DisableUnfunded,
           RestartAfterFailure, Documents
    <2>2. UNCHANGED <<tick, executed>>
        BY <1>9 DEF RevokeStep, RevokeBegins, ReadBalances, PayUsdc, ReadNative, PayXlm, Disable, DisableUnfunded,
           RestartAfterFailure, history
    <2>3. \A pc \in {"payUsdc", "payXlm"} : \A n : CallClaim([pc |-> pc, amount |-> n]) = 0
        BY DEF CallClaim
    <2>4. /\ \A pc \in {"balances", "native", "disable", "unfunded", "recheck"} :
                CallClaim([pc |-> pc]) = 0
          /\ CallClaim(Lost) = 0
        BY DEF CallClaim, Lost
    <2>5. CASE ReadBalances(c) \/ ReadNative(c)
        <3>1. \/ CallGoes(c, [pc |-> "disable"]) \/ CallGoes(c, [pc |-> "recheck"])
              \/ CallGoes(c, [pc |-> "unfunded"])
              \/ CallGoes(c, [pc |-> "payUsdc", amount |-> usdc])
              \/ CallGoes(c, [pc |-> "payXlm", amount |-> xlm])
            BY <2>5 DEF ReadBalances, ReadNative
        <3>2. /\ CallClaim([pc |-> "disable"]) = 0 /\ CallClaim([pc |-> "recheck"]) = 0
              /\ CallClaim([pc |-> "unfunded"]) = 0
              /\ CallClaim([pc |-> "payUsdc", amount |-> usdc]) = 0
              /\ CallClaim([pc |-> "payXlm", amount |-> xlm]) = 0
            BY <2>3, <2>4
        <3> QED BY <1>2, <2>1, <2>2, <3>1, <3>2
    <2>6. CASE ~(ReadBalances(c) \/ ReadNative(c))
        <3>1. \/ CallGoes(c, Done) \/ CallGoes(c, Lost)
              \/ \E pc \in {"balances", "native", "disable", "recheck"} : CallGoes(c, [pc |-> pc])
            BY <1>9, <2>6 DEF RevokeStep, RevokeBegins, PayUsdc, PayXlm, Disable, DisableUnfunded,
               RestartAfterFailure
        <3> QED BY <1>2, <1>3, <2>1, <2>2, <2>4, <3>1
    <2> QED BY <2>5, <2>6
<1> QED BY <1>4, <1>5, <1>6, <1>7, <1>8, <1>9, BudgetOfConfirm DEF CallStep

\* A restart forgets every claim.
LEMMA BudgetOfRestart ==
    ASSUME TypeOK, TypeOK', BudgetInv, Restart
    PROVE  BudgetInv'
<1>1. \A t \in Ticks : TickClaims'[t] = 0
    BY DEF Restart, TickClaims, TickClaim, Idle
<1>2. \A c \in Calls : CallClaims'[c] = 0
    BY DEF Restart, CallClaims, CallClaim, Idle, Done
<1>3. Total(TickClaims', Ticks) = 0 /\ Total(CallClaims', Calls) = 0
    BY <1>1, <1>2, TotalZero
<1>4. UNCHANGED executed /\ agent.spentToday' = agent.spentToday
    BY DEF Restart, history
<1>5. /\ Total(TickClaims, Ticks) \in Nat /\ Total(CallClaims, Calls) \in Nat
      /\ agent.spentToday \in Nat
    BY ClaimsType
<1>6. /\ Total(CallClaims, Calls)' <= Total(CallClaims, Calls)
      /\ agent.spentToday' + Total(TickClaims, Ticks)' + Total(CallClaims, Calls)'
           <= agent.spentToday + Total(TickClaims, Ticks) + Total(CallClaims, Calls)
    BY <1>3, <1>4, <1>5
<1> QED BY <1>4, <1>6, BudgetKept

LEMMA BudgetStep ==
    TypeOK /\ TypeOK' /\ SuggestionsInv /\ LimitsInv /\ BudgetInv /\ [Next]_vars => BudgetInv'
<1> SUFFICES ASSUME TypeOK, TypeOK', SuggestionsInv, LimitsInv, BudgetInv, [Next]_vars
             PROVE  BudgetInv'
    OBVIOUS
<1>1. CASE Midnight \/ IntervalElapses \/ CooldownEnds \/ UNCHANGED vars
    <2>1. UNCHANGED <<tick, call, executed>>
        BY <1>1 DEF Midnight, IntervalElapses, CooldownEnds, vars, history
    <2>2. agent.spentToday' = agent.spentToday
        BY <1>1 DEF Midnight, IntervalElapses, CooldownEnds, vars, TypeOK, Documents
    <2>3. /\ Total(TickClaims, Ticks)' = Total(TickClaims, Ticks)
          /\ Total(CallClaims, Calls)' = Total(CallClaims, Calls)
        BY <2>1, TicksUnmoved, CallsUnmoved
    <2>4. Total(TickClaims, Ticks) \in Nat /\ Total(CallClaims, Calls) \in Nat /\ agent.spentToday \in Nat
        BY ClaimsType
    <2> QED BY <2>1, <2>2, <2>3, <2>4, BudgetKept
<1> QED BY <1>1, BudgetOfTicks, BudgetOfCalls, BudgetOfRestart DEF Next

LEMMA InitWithinLimits == Init => LimitsInv /\ BudgetInv
<1> SUFFICES ASSUME Init PROVE LimitsInv /\ BudgetInv
    OBVIOUS
<1>1. DocumentWithin(agent)
    BY LargestLimits DEF Init, DocumentWithin
<1>2. \A t \in Ticks : TickWithin(tick[t]) /\ TickClaims[t] = 0
    BY LargestLimits DEF Init, TickWithin, TickClaims, TickClaim, Idle
<1>3. TradeWithin(pendingTrade)
    BY DEF Init, TradeWithin, NoTrade
<1>4. \A c \in Calls : CallClaims[c] = 0
    BY DEF Init, CallClaims, CallClaim, Idle
<1>5. Total(TickClaims, Ticks) = 0 /\ Total(CallClaims, Calls) = 0
    BY <1>2, <1>4, TotalZero
<1>6. agent.spentToday = 0
    BY AgentAssumption DEF Init
<1>7. Cardinality(Ticks) * LargestBudget \in Nat /\ Cardinality(Confirmed) * LargestSuggestion \in Nat
    BY InitTyped, ClaimsType, LargestLimits
<1>8. BudgetInv
    BY <1>5, <1>6, <1>7 DEF BudgetInv, ConfirmedInv, ClaimsInv
<1> QED BY <1>1, <1>2, <1>3, <1>8 DEF LimitsInv

\* So what is counted never exceeds the bound.
LEMMA CounterBounded ==
    ASSUME TypeOK, BudgetInv
    PROVE  agent.spentToday <= BoughtBetweenResets /\ BoughtBetweenResets \in Nat
<1> DEFINE n == Cardinality(Ticks) * LargestBudget
           k == Cardinality(Confirmed) * LargestSuggestion
<1>1. n \in Nat /\ k \in Nat
    BY ClaimsType, LargestLimits
<1>2. agent.spentToday + Total(TickClaims, Ticks) + Total(CallClaims, Calls) <= n + k
    BY DEF BudgetInv, ClaimsInv
<1>3. Total(TickClaims, Ticks) \in Nat /\ Total(CallClaims, Calls) \in Nat /\ agent.spentToday \in Nat
    BY ClaimsType
<1> HIDE DEF n, k
<1>4. agent.spentToday <= n + k /\ n + k \in Nat
    BY <1>1, <1>2, <1>3
<1> QED BY <1>4 DEF BoughtBetweenResets, n, k

-----------------------------------------------------------------------------
(* The day: what resets have erased, and what the counter still shows. *)

DayInv == bought <= resets * BoughtBetweenResets + agent.spentToday

\* A confirmed suggestion stays so.
LEMMA BoundGrows ==
    ASSUME TypeOK, [Next]_vars
    PROVE  /\ BoughtBetweenResets \in Nat /\ BoughtBetweenResets' \in Nat
           /\ BoughtBetweenResets <= BoughtBetweenResets'
<1> DEFINE n == Cardinality(Ticks) * LargestBudget
           k == Cardinality(Confirmed)
           L == LargestSuggestion
<1>1. \A p \in 1 .. MaxPrompts : executed[p] \in Nat /\ executed'[p] \in Nat /\ executed[p] <= executed'[p]
    <2> DEFINE Grown == \A p \in 1 .. MaxPrompts : executed'[p] \in {executed[p], executed[p] + 1}
    <2>1. ASSUME NEW c \in Calls, Confirm(c) PROVE Grown
        BY <2>1 DEF Confirm, TypeOK
    <2>2. ASSUME UNCHANGED executed PROVE Grown
        BY <2>2
    <2>3. ASSUME NEW t \in Ticks, Fire(t) \/ TickStep(t) PROVE Grown
        <3>1. UNCHANGED executed
            BY <2>3 DEF Fire, TickStep, LoadAgent, ResetDailySpend, GetBalance, PayForPrice, Decide,
               ExecuteSwap, RecordTrade, MarkDcaRun, Notify, TickFails, history
        <3> QED BY <2>2, <3>1
    <2>4. ASSUME NEW c \in Calls, LoadForCall(c) \/ Reject(c) \/ CallStep(c) PROVE Grown
        <3>1. CASE Confirm(c)
            BY <2>1, <3>1
        <3>2. CASE ~Confirm(c)
            <4>1. UNCHANGED executed
                BY <2>4, <3>2 DEF LoadForCall, Reject, CallStep, ConfirmedSwap, RecordConfirmed,
                   Edit, CreateTrustline, TrustlineReady, RevokeStep, RevokeBegins, ReadBalances,
                   PayUsdc, ReadNative, PayXlm, Disable, DisableUnfunded, RestartAfterFailure,
                   CallEnds, history
            <4> QED BY <2>2, <4>1
        <3> QED BY <3>1, <3>2
    <2>5. ASSUME Midnight \/ IntervalElapses \/ CooldownEnds \/ UNCHANGED vars PROVE Grown
        BY <2>2, <2>5 DEF Midnight, IntervalElapses, CooldownEnds, vars, history
    <2>8. ASSUME Restart PROVE Grown
        BY <2>2, <2>8 DEF Restart, history
    <2>6. Grown
        <3> HIDE DEF Grown
        <3> QED BY <2>3, <2>4, <2>5, <2>8 DEF Next
    <2>7. \A p \in 1 .. MaxPrompts : executed[p] \in Nat
        BY DEF TypeOK
    <2> QED BY <2>6, <2>7
<1>2. Confirmed \subseteq Confirmed' /\ Confirmed' \subseteq 1 .. MaxPrompts
    BY <1>1 DEF Confirmed
<1>3. IsFiniteSet(1 .. MaxPrompts)
    BY AgentAssumption, FS_Interval
<1>4. k \in Nat /\ k' \in Nat /\ k <= k'
    BY <1>2, <1>3, FS_Subset, FS_CardinalityType
<1>5. n \in Nat /\ L \in Nat
    BY ClaimsType, LargestLimits
<1> HIDE DEF k, n, L
<1>6. PICK d \in Nat : k' = k + d
    BY <1>4
<1>7. k' * L = k * L + d * L /\ k * L \in Nat /\ d * L \in Nat
    BY <1>4, <1>5, <1>6
<1>8. n + k * L \in Nat /\ n + k' * L \in Nat /\ n + k * L <= n + k' * L
    BY <1>5, <1>7
<1> QED BY <1>8 DEF BoughtBetweenResets, n, k, L

\* The counter q of the day after r resets, when the bound b grows to z.
LEMMA DayGoesOn ==
    ASSUME NEW r \in Nat, NEW b \in Nat, NEW z \in Nat, NEW q \in Nat, NEW s \in Nat,
           b <= z, q <= r * b + s
    PROVE  /\ \A n \in Nat : q + n <= r * z + (s + n)
           /\ s <= b => q <= (r + 1) * z + 0
           /\ \A n \in Nat : 0 <= 0 * z + n
<1>1. PICK d \in Nat : z = b + d
    OBVIOUS
<1>2. r * z = r * b + r * d /\ r * b \in Nat /\ r * d \in Nat
    BY <1>1
<1>3. (r + 1) * z = r * z + z /\ 0 * z = 0 /\ r * z \in Nat
    OBVIOUS
<1> DEFINE rz == r * z
           rb == r * b
           rd == r * d
<1> HIDE DEF rz, rb, rd
<1>4. rz = rb + rd /\ rb \in Nat /\ rd \in Nat /\ rz \in Nat /\ q <= rb + s
    BY <1>2, <1>3 DEF rz, rb, rd
<1>5. \A n \in Nat : q + n <= rz + (s + n)
    BY <1>4
<1>6. s <= b => q <= rz + z
    BY <1>4
<1> QED BY <1>3, <1>5, <1>6 DEF rz

\* A buy is charged and bought at once; a reset erases no more than the bound; and
\* at midnight the day begins with nothing bought.
LEMMA DayStep == TypeOK /\ TypeOK' /\ BudgetInv /\ DayInv /\ [Next]_vars => DayInv'
<1> SUFFICES ASSUME TypeOK, TypeOK', BudgetInv, DayInv, [Next]_vars PROVE DayInv'
    OBVIOUS
<1> DEFINE b == BoughtBetweenResets
           total == agent.spentToday
<1>1. /\ b \in Nat /\ b' \in Nat /\ b <= b' /\ total \in Nat /\ total' \in Nat
      /\ bought \in Nat /\ resets \in Nat /\ total <= b /\ bought <= resets * b + total
    BY BoundGrows, CounterBounded DEF TypeOK, Documents, DayInv
<1> HIDE DEF b, total
<1>2. /\ \A n \in Nat : bought + n <= resets * b' + (total + n)
      /\ bought <= (resets + 1) * b' + 0
      /\ \A n \in Nat : 0 <= 0 * b' + n
    BY <1>1, DayGoesOn
<1>3. ASSUME resets' = resets,
             NEW n \in Nat, bought' = bought + n, agent'.spentToday = agent.spentToday + n
      PROVE  DayInv'
    <2>1. bought' <= resets * b' + total'
        BY <1>2, <1>3 DEF total
    <2> QED BY <1>3, <2>1 DEF DayInv, b, total
<1>4. ASSUME NEW t \in Ticks, ResetDailySpend(t) PROVE DayInv'
    <2>1. resets' = resets + 1 /\ bought' = bought /\ total' = 0
        BY <1>4 DEF ResetDailySpend, TypeOK, Documents, total
    <2>2. bought' <= resets' * b' + total'
        BY <1>2, <2>1
    <2> QED BY <2>2 DEF DayInv, b, total
<1>5. CASE Midnight
    <2>1. bought' = 0 /\ resets' = 0
        BY <1>5 DEF Midnight
    <2>2. bought' <= resets' * b' + total'
        BY <1>1, <1>2, <2>1
    <2> QED BY <2>2 DEF DayInv, b, total
<1>12. ASSUME UNCHANGED today, agent'.spentToday = agent.spentToday PROVE DayInv'
    <2>1. bought' = bought + 0 /\ agent'.spentToday = agent.spentToday + 0 /\ resets' = resets
        BY <1>1, <1>12 DEF today, total
    <2> QED BY <1>3, <2>1
<1>6. ASSUME NEW dir, NEW amount \in Nat, RecordSpending(dir, amount) PROVE DayInv'
    <2>1. resets' = resets
        BY <1>6 DEF RecordSpending
    <2>2. CASE dir = "buy_xlm"
        <3>1. bought' = bought + amount /\ agent'.spentToday = agent.spentToday + amount
            BY <1>6, <2>2 DEF RecordSpending, TypeOK, Documents
        <3> QED BY <2>1, <3>1, <1>3
    <2>3. CASE dir # "buy_xlm"
        BY <1>6, <1>12, <2>3 DEF RecordSpending, today
    <2> QED BY <2>2, <2>3
<1>7. ASSUME NEW t \in Ticks, RecordTrade(t) PROVE DayInv'
    <2>1. tick[t].amount \in Nat
        BY <1>7, TickParts DEF RecordTrade, TypeOK
    <2> QED BY <1>6, <1>7, <2>1 DEF RecordTrade
<1>8. ASSUME NEW c \in Calls, RecordConfirmed(c) PROVE DayInv'
    <2>1. call[c].trade.amount \in Nat
        BY <1>8, CallParts DEF RecordConfirmed, TypeOK, Trades
    <2> QED BY <1>6, <1>8, <2>1 DEF RecordConfirmed
<1>9. ASSUME NEW t \in Ticks, Fire(t) \/ TickStep(t), ~ResetDailySpend(t), ~RecordTrade(t) PROVE DayInv'
    <2>1. UNCHANGED today /\ agent'.spentToday = agent.spentToday
        BY <1>9 DEF Fire, TickStep, LoadAgent, GetBalance, PayForPrice, Decide, ExecuteSwap,
           MarkDcaRun, Notify, TickFails, TypeOK, Documents
    <2> QED BY <1>12, <2>1
<1>10. ASSUME NEW c \in Calls, LoadForCall(c) \/ Reject(c) \/ CallStep(c), ~RecordConfirmed(c) PROVE DayInv'
    <2>1. UNCHANGED today
        BY <1>10 DEF LoadForCall, Reject, CallStep, Confirm, ConfirmedSwap, Edit, CreateTrustline,
           TrustlineReady, RevokeStep, RevokeBegins, ReadBalances, PayUsdc, ReadNative, PayXlm,
           Disable, DisableUnfunded, RestartAfterFailure, CallEnds
    <2>2. agent'.spentToday = agent.spentToday
        BY <1>10 DEF LoadForCall, Reject, CallStep, Confirm, ConfirmedSwap, Edit, CreateTrustline,
           TrustlineReady, RevokeStep, RevokeBegins, ReadBalances, PayUsdc, ReadNative, PayXlm,
           Disable, DisableUnfunded, RestartAfterFailure, CallEnds, TypeOK, Documents
    <2> QED BY <1>12, <2>1, <2>2
<1>11. CASE IntervalElapses \/ CooldownEnds \/ Restart \/ UNCHANGED vars
    <2>1. UNCHANGED today /\ agent'.spentToday = agent.spentToday
        BY <1>11 DEF IntervalElapses, CooldownEnds, Restart, vars, TypeOK, Documents
    <2> QED BY <1>12, <2>1
<1> QED BY <1>4, <1>5, <1>7, <1>8, <1>9, <1>10, <1>11 DEF Next

LEMMA DayBegins == Init => DayInv
<1> SUFFICES ASSUME Init PROVE DayInv
    OBVIOUS
<1>1. BoughtBetweenResets \in Nat
    BY InitTyped, InitWithinLimits, CounterBounded
<1>2. bought = 0 /\ resets = 0 /\ agent.spentToday = 0
    BY AgentAssumption DEF Init
<1> QED BY <1>1, <1>2 DEF DayInv

LEMMA DaySuffices == TypeOK /\ BudgetInv /\ DayInv => BudgetOverrunBounded
<1> SUFFICES ASSUME TypeOK, BudgetInv, DayInv PROVE BudgetOverrunBounded
    OBVIOUS
<1> DEFINE b == BoughtBetweenResets
<1>1. /\ b \in Nat /\ agent.spentToday <= b /\ bought <= resets * b + agent.spentToday
      /\ bought \in Nat /\ resets \in Nat /\ agent.spentToday \in Nat /\ b <= b
    BY CounterBounded DEF DayInv, TypeOK, Documents
<1> HIDE DEF b
<1>2. bought <= (resets + 1) * b + 0
    BY <1>1, DayGoesOn
<1>3. (resets + 1) * b \in Nat
    BY <1>1
<1>4. bought <= (resets + 1) * b
    BY <1>2, <1>3
<1> QED BY <1>4 DEF BudgetOverrunBounded, b

\* However many ticks overlap, whatever edits, failures and restarts come between
\* planning a buy and charging it, the buys recorded since midnight are within one
\* budget for each tick and one tier-2 trade for each confirmed suggestion, once more
\* for each reset that has erased the day's counter (worker-manager.ts, daily-spend.ts).
THEOREM OverrunIsBounded == Spec => []BudgetOverrunBounded
<1> DEFINE IInv == TypeOK /\ SuggestionsInv /\ LimitsInv /\ BudgetInv /\ DayInv
<1>1. Init => IInv
    BY InitTyped, InitHolds, InitWithinLimits, DayBegins
<1>2. IInv /\ [Next]_vars => IInv'
    BY TypesStep, SuggestionsStep, LimitsStep, BudgetStep, DayStep
<1>3. IInv => BudgetOverrunBounded
    BY DaySuffices
<1> QED BY <1>1, <1>2, <1>3, PTL DEF Spec
=============================================================================
