------------------------------ MODULE Allocator ------------------------------
(***************************************************************************)
(* The weighted meta-allocator (crates/allocator-strategy).                *)
(*                                                                         *)
(* The allocator is itself a strategy of the vault.  It keeps part of the  *)
(* funds in its own token balance, the native buffer, and spreads the rest *)
(* over child strategies by target weights in basis points.  Deposits fan  *)
(* out over the children; withdrawals are served from the buffer only, and *)
(* the keeper (the admin) refills the buffer one child at a time.          *)
(***************************************************************************)
EXTENDS Strategies, Sequences

CONSTANTS
    Children,        \* leaves whose authorised vault is the allocator
    Fragile,         \* children whose calls may start to trap
    Evictable,       \* children the admin may force out
    MAX_CHILDREN,    \* 5 in the contract
    BPS_DENOM,       \* 10_000 in the contract
    InitialBaskets,  \* constructor arguments: records [slots, nativeBps]
    WeightOrders,    \* arguments of set_target_weights: [entries, nativeBps]
    Authorities,     \* the values add_child is called with for `authoritative'
    KeeperAmounts    \* amounts the keeper drains or funds

VARIABLES
    slots,       \* registered child |-> [weight, authoritative]
    nativeBps,
    paused,
    wedged       \* children whose calls trap at present

allocatorVars == <<slots, nativeBps, paused, wedged>>

ASSUME AllocatorConstants ==
    /\ Children \subseteq Leaves
    /\ Fragile \subseteq Children
    /\ Evictable \subseteq Children
    /\ MAX_CHILDREN \in Nat
    /\ BPS_DENOM \in Nat \ {0}
    /\ Authorities \subseteq BOOLEAN
    /\ KeeperAmounts \subseteq Nat \ {0}

Slot == [weight: 0 .. BPS_DENOM, authoritative: BOOLEAN]

\* The constructor looks neither for a child that is named twice, whose value the
\* basket would count twice, nor does it call the children.  A basket is a function
\* of its children here: it names each once, as the deployment's empty one does.
ASSUME BasketsWellFormed ==
    \A b \in InitialBaskets :
        /\ b.nativeBps \in 0 .. BPS_DENOM
        /\ \E R \in SUBSET Children : b.slots \in [R -> Slot]

ASSUME OrdersWellFormed ==
    \A o \in WeightOrders :
        /\ o.nativeBps \in 0 .. BPS_DENOM
        /\ o.entries \in Seq([child: Children, weight: 0 .. BPS_DENOM])

Registered == DOMAIN slots
Native     == token[Allocator]

-------------------------------------------------------------------------------
(* Reading the basket *)

\* Mutant: a child that cannot be read counts as empty, whatever its kind.
ReadableAlways == TRUE

\* child_value(): an authoritative child that cannot be read traps the call, a
\* non-authoritative one counts as empty.
Readable == \A c \in Registered \intersect wedged : ~slots[c].authoritative

ChildValue(c) == IF c \in wedged THEN 0 ELSE Value(c)

ChildValues == [c \in Registered |-> ChildValue(c)]

\* current_value(): the children's values and the native buffer.
AllocatorValue == Total(ChildValues, Registered) + Native

\* Mutant: targets round up.
TargetRoundedUp(c) ==
    (AllocatorValue * slots[c].weight + BPS_DENOM - 1) \div BPS_DENOM

Target(c) == (AllocatorValue * slots[c].weight) \div BPS_DENOM

\* Mutant: an excess of one is let pass.
ExcessBand == [c \in Registered |-> IF ChildValue(c) > Target(c) + 1
                                    THEN ChildValue(c) - Target(c) ELSE 0]

Excess  == [c \in Registered |-> IF ChildValue(c) > Target(c)
                                 THEN ChildValue(c) - Target(c) ELSE 0]
Deficit == [c \in Registered |-> IF Target(c) > ChildValue(c)
                                 THEN Target(c) - ChildValue(c) ELSE 0]

-------------------------------------------------------------------------------
(* Moving funds between the buffer and the children.  out and into give the  *)
(* amount delivered by, and deposited into, every registered child.          *)

Amount(f, h) == IF h \in DOMAIN f THEN f[h] ELSE 0

TokensMoved(tok, out, into) ==
    [h \in Holders |->
        IF h = Allocator
        THEN tok[h] + Total(out, DOMAIN out) - Total(into, DOMAIN into)
        ELSE IF h \in Leaves
        THEN tok[h] - Kept(h, Amount(out, h)) + Kept(h, Amount(into, h))
        ELSE tok[h]]

PositionsMoved(pos, out, into) ==
    [s \in Leaves |->
        pos[s] - (IF Amount(out, s) = 0 THEN 0 ELSE Debit(s, Amount(out, s)))
               + Credit(s, Amount(into, s))]

Nothing == [c \in {} |-> 0]
Only(c, amount) == [x \in {c} |-> amount]

\* Calls that move funds reach every child with a non-zero amount.
Reachable(f) == \A c \in DOMAIN f : f[c] > 0 => c \notin wedged

\* What the children may deliver when each is asked for an amount; a child
\* asked for nothing is not called.
Deliveries(asked) ==
    {d \in [DOMAIN asked -> UNION {0 .. asked[c] : c \in DOMAIN asked}] :
        \A c \in DOMAIN asked :
            IF asked[c] = 0 THEN d[c] = 0 ELSE d[c] \in Deliverable(c, asked[c])}

\* A call that drains `out' and funds `into'.  Drains come first; a transfer
\* into a child traps when the buffer does not hold the amount.
MoveFunds(tok, pos, out, into) ==
    /\ Reachable(out) /\ Reachable(into)
    /\ Total(into, DOMAIN into) <= tok[Allocator] + Total(out, DOMAIN out)
    /\ token' = TokensMoved(tok, out, into)
    /\ position' = PositionsMoved(pos, out, into)
    /\ UNCHANGED bRate

-------------------------------------------------------------------------------
(* The strategy interface, as the vault calls it.  tok and pos are the token *)
(* ledger and the positions as the earlier calls of the transaction left     *)
(* them.                                                                     *)

Slices(amount) == [c \in Registered |-> (amount * slots[c].weight) \div BPS_DENOM]

AllocatorDeposit(tok, pos, amount) ==
    /\ ~paused
    /\ amount > 0
    /\ MoveFunds(tok, pos, Nothing, Slices(amount))

\* withdraw() serves the exact amount from the buffer or fails.
AllocatorDeliverable(amount) ==
    {d \in {amount} : ~paused /\ 0 < d /\ d <= Native}

-------------------------------------------------------------------------------
(* Admin operations *)

AddChild(c, authoritative) ==
    /\ Cardinality(Registered) < MAX_CHILDREN
    /\ c \notin Registered
    /\ slots' = [x \in Registered \union {c} |->
                    IF x = c THEN [weight |-> 0, authoritative |-> authoritative]
                    ELSE slots[x]]
    /\ UNCHANGED <<nativeBps, paused, wedged, strategyVars>>

Evict(c) ==
    /\ slots' = [x \in Registered \ {c} |-> slots[x]]
    /\ UNCHANGED <<nativeBps, paused, wedged, strategyVars>>

\* Mutant: the child's value is not looked at.
RemoveChildFunded(c) ==
    /\ c \in Registered
    /\ slots[c].weight = 0
    /\ Evict(c)

RemoveChild(c) ==
    /\ c \in Registered
    /\ slots[c].weight = 0
    /\ c \in wedged => ~slots[c].authoritative
    /\ ChildValue(c) = 0
    /\ Evict(c)

\* The child's value is not read: what it still holds is abandoned.
ForceRemoveChild(c) ==
    /\ c \in Registered
    /\ slots[c].weight = 0
    /\ Evict(c)

SetPaused(b) ==
    /\ paused' = b
    /\ UNCHANGED <<slots, nativeBps, wedged, strategyVars>>

\* set_target_weights() zeroes every weight, then applies the entries in order.
\* Each entry's weight counts towards the sum; a later entry for the same
\* child overwrites an earlier one.
EntryWeights(o) == [i \in DOMAIN o.entries |-> o.entries[i].weight]

\* Mutant: children that the order does not name keep their weight.
LastWeightOrOld(o, c) ==
    LET at == {i \in DOMAIN o.entries : o.entries[i].child = c}
    IN  IF at = {} THEN slots[c].weight
        ELSE o.entries[CHOOSE i \in at : \A j \in at : j <= i].weight

LastWeight(o, c) ==
    LET at == {i \in DOMAIN o.entries : o.entries[i].child = c}
    IN  IF at = {} THEN 0
        ELSE o.entries[CHOOSE i \in at : \A j \in at : j <= i].weight

SetTargetWeights(o) ==
    /\ \A i \in DOMAIN o.entries :
          /\ o.entries[i].child \in Registered
          /\ o.entries[i].weight > 0 => slots[o.entries[i].child].authoritative
    /\ o.nativeBps + Total(EntryWeights(o), DOMAIN o.entries) = BPS_DENOM
    /\ slots' = [c \in Registered |-> [slots[c] EXCEPT !.weight = LastWeight(o, c)]]
    /\ nativeBps' = o.nativeBps
    /\ UNCHANGED <<paused, wedged, strategyVars>>

DrainChild(c, amount) ==
    /\ ~paused
    /\ amount > 0
    /\ c \in Registered
    /\ \E d \in Deliverable(c, amount) : MoveFunds(token, position, Only(c, d), Nothing)
    /\ UNCHANGED allocatorVars

\* Mutant: the child need not be registered.
FundAnyChild(c, amount) ==
    /\ ~paused
    /\ amount > 0
    /\ amount <= Native
    /\ MoveFunds(token, position, Nothing, Only(c, amount))
    /\ UNCHANGED allocatorVars

\* No check of the child's weight or authority.
FundChild(c, amount) ==
    /\ ~paused
    /\ amount > 0
    /\ amount <= Native
    /\ c \in Registered
    /\ MoveFunds(token, position, Nothing, Only(c, amount))
    /\ UNCHANGED allocatorVars

\* rebalance_step(): one child to its target; a deficit is funded as far as
\* the buffer goes.  A child on target, or an empty basket, changes nothing.
RebalanceStep(c) ==
    /\ ~paused
    /\ c \in Registered
    /\ Readable
    /\ \/ /\ Excess[c] > 0
          /\ \E d \in Deliverable(c, Excess[c]) :
                MoveFunds(token, position, Only(c, d), Nothing)
       \/ LET fund == IF Deficit[c] > Native THEN Native ELSE Deficit[c]
          IN  /\ fund > 0
              /\ MoveFunds(token, position, Nothing, Only(c, fund))
    /\ UNCHANGED allocatorVars

\* Mutant: the first pass is left out.
RebalanceWithoutDrains ==
    /\ ~paused
    /\ Readable
    /\ MoveFunds(token, position, Nothing, Deficit)
    /\ UNCHANGED allocatorVars

\* rebalance(): all excesses are drained, then all deficits funded in full.
Rebalance ==
    /\ ~paused
    /\ Readable
    /\ \E out \in Deliveries(Excess) : MoveFunds(token, position, out, Deficit)
    /\ UNCHANGED allocatorVars

-------------------------------------------------------------------------------
(* The environment: a child starts, or stops, trapping. *)

Wedge(c) ==
    /\ c \in Fragile \ wedged
    /\ wedged' = wedged \union {c}
    /\ UNCHANGED <<slots, nativeBps, paused, strategyVars>>

Recover(c) ==
    /\ c \in wedged
    /\ wedged' = wedged \ {c}
    /\ UNCHANGED <<slots, nativeBps, paused, strategyVars>>

-------------------------------------------------------------------------------

AllocatorInit ==
    /\ \E b \in InitialBaskets :
          /\ \A c \in DOMAIN b.slots : b.slots[c].weight > 0 => b.slots[c].authoritative
          /\ Cardinality(DOMAIN b.slots) <= MAX_CHILDREN
          /\ b.nativeBps + Total([c \in DOMAIN b.slots |-> b.slots[c].weight],
                                 DOMAIN b.slots) = BPS_DENOM
          /\ slots = b.slots
          /\ nativeBps = b.nativeBps
    /\ paused = FALSE
    /\ wedged = {}

AdminStep ==
    \/ \E c \in Children :
          \/ \E a \in Authorities : AddChild(c, a)
          \/ RemoveChild(c)
          \/ c \in Evictable /\ ForceRemoveChild(c)
          \/ \E n \in KeeperAmounts : DrainChild(c, n) \/ FundChild(c, n)
          \/ RebalanceStep(c)
    \/ \E b \in BOOLEAN : SetPaused(b)
    \/ \E o \in WeightOrders : SetTargetWeights(o)
    \/ Rebalance

ChildTrouble == \E c \in Children : Wedge(c) \/ Recover(c)

AllocatorTypeOK ==
    /\ \E R \in SUBSET Children : slots \in [R -> Slot]
    /\ nativeBps \in 0 .. BPS_DENOM
    /\ paused \in BOOLEAN
    /\ wedged \subseteq Fragile
=============================================================================
