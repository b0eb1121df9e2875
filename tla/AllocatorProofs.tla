--------------------------- MODULE AllocatorProofs ---------------------------
(***************************************************************************)
(* The amounts that leaf strategies report, deliver and book are naturals, *)
(* and what they deliver they have; so the allocator keeps its types:      *)
(* every operation of the admin, and every deposit of the vault, moves     *)
(* natural amounts that are there to move.                                 *)
(***************************************************************************)
EXTENDS Allocator, TallyProofs, SequenceTheorems

(* A product of naturals is a natural. *)
LEMMA ProductType == ASSUME NEW a \in Nat, NEW b \in Nat PROVE a * b \in Nat
OBVIOUS

(* A quotient of a natural by a positive one is a natural (i128 division of *)
(* the strategies' conversions, none of whose operands is negative).        *)
LEMMA QuotientType ==
    ASSUME NEW a \in Nat, NEW b \in Nat \ {0}
    PROVE  a \div b \in Nat
OBVIOUS

(* Division rounds down, by less than one.                                  *)
LEMMA DivisionBounds ==
    ASSUME NEW x \in Nat, NEW q \in Nat \ {0}
    PROVE  (x \div q) * q <= x /\ x < (x \div q) * q + q
OBVIOUS

(* The quotient is the greatest number that fits in.                        *)
LEMMA DivisionGreatest ==
    ASSUME NEW x \in Nat, NEW q \in Nat \ {0}, NEW k \in Int, k * q <= x
    PROVE  k <= x \div q
<1> DEFINE m == x \div q
<1>1. m \in Int /\ x < m * q + q
  BY DivisionBounds
<1> HIDE DEF m
<1>2. SUFFICES ASSUME k > m PROVE FALSE
  BY <1>1 DEF m
<1>3. k - m - 1 \in Nat
  BY <1>1, <1>2
<1>4. (k - m - 1) * q \in Nat
  BY <1>3
<1>5. k * q = m * q + q + (k - m - 1) * q
  BY <1>1
<1> m * q \in Int /\ k * q \in Int
  BY <1>1
<1> QED BY <1>1, <1>4, <1>5

(* A supply whose bTokens round down, at a rate r to a scale q, costs at    *)
(* most the worth of one bToken (blend-strategy's deposit).                 *)
LEMMA SuppliedWorth ==
    ASSUME NEW p \in Nat, NEW n \in Nat, NEW r \in Nat \ {0}, NEW q \in Nat \ {0}
    PROVE  ((p + (n * q) \div r) * r) \div q + (r + q - 1) \div q >= (p * r) \div q + n
<1> DEFINE c == (n * q) \div r
           L == (r + q - 1) \div q
           A == (p * r) \div q
<1>1. n * q \in Nat /\ p * r \in Nat /\ r + q - 1 \in Nat
  OBVIOUS
<1>2. c \in Nat /\ L \in Nat /\ A \in Nat
  BY <1>1
<1>3. n * q < c * r + r
  BY <1>1, DivisionBounds
<1>4. A * q <= p * r
  BY <1>1, DivisionBounds
<1>5. r <= L * q
  <2>1. r + q - 1 < L * q + q
    BY <1>1, DivisionBounds
  <2> HIDE DEF L
  <2>2. L * q \in Nat
    BY <1>2
  <2> QED BY <2>1, <2>2
<1> HIDE DEF c, L, A
<1>6. (A + n - L) * q = A * q + n * q - L * q
  BY <1>2
<1>7. (p + c) * r = p * r + c * r
  BY <1>2
<1>8. (p + c) * r \in Nat /\ A * q \in Nat /\ L * q \in Nat /\ c * r \in Nat
  BY <1>2
<1>9. (A + n - L) * q <= (p + c) * r
  BY <1>1, <1>3, <1>4, <1>5, <1>6, <1>7, <1>8
<1>10. A + n - L <= ((p + c) * r) \div q
  BY <1>2, <1>8, <1>9, DivisionGreatest
<1>11. ((p + c) * r) \div q \in Nat
  BY <1>8
<1> QED BY <1>2, <1>10, <1>11 DEF c, L, A

(* So does a withdrawal whose burned bTokens round up, the last of them     *)
(* being all there is (blend-strategy's withdraw).                          *)
LEMMA WithdrawnWorth ==
    ASSUME NEW p \in Nat, NEW d \in Nat, NEW r \in Nat \ {0}, NEW q \in Nat \ {0},
           NEW b, b = IF (d * q + r - 1) \div r < p THEN (d * q + r - 1) \div r ELSE p
    PROVE  ((p - b) * r) \div q + (r + q - 1) \div q + d >= (p * r) \div q
<1> DEFINE e == (d * q + r - 1) \div r
           L == (r + q - 1) \div q
           A == (p * r) \div q
<1>1. d * q + r - 1 \in Nat /\ p * r \in Nat /\ r + q - 1 \in Nat /\ d * q \in Nat
  <2>1. d * q \in Nat /\ p * r \in Nat
    OBVIOUS
  <2> QED BY <2>1
<1>2. e \in Nat /\ L \in Nat /\ A \in Nat
  BY <1>1
<1>3. e * r <= d * q + r - 1
  BY <1>1, DivisionBounds
<1>4. A * q <= p * r
  BY <1>1, DivisionBounds
<1>5. r <= L * q
  <2>1. r + q - 1 < L * q + q
    BY <1>1, DivisionBounds
  <2> HIDE DEF L
  <2>2. L * q \in Nat
    BY <1>2
  <2> QED BY <2>1, <2>2
<1>6. b = IF e < p THEN e ELSE p
  OBVIOUS
<1> HIDE DEF e, L, A
<1>7. b \in Nat /\ b <= p /\ b <= e
  BY <1>2, <1>6
<1>8. b * r <= e * r
  <2>1. e - b \in Nat /\ e * r = b * r + (e - b) * r
    BY <1>2, <1>7
  <2>2. (e - b) * r \in Nat /\ b * r \in Nat
    BY <2>1, <1>7
  <2> QED BY <2>1, <2>2
<1>9. (A - L - d) * q = A * q - L * q - d * q
  BY <1>2
<1>10. (p - b) * r = p * r - b * r
  BY <1>7
<1>11. (p - b) * r \in Nat
  <2>1. p - b \in Nat
    BY <1>7
  <2> QED BY <2>1
<1>12. (A - L - d) * q <= (p - b) * r
  <2>1. A * q \in Nat /\ L * q \in Nat /\ b * r \in Nat /\ e * r \in Nat
    BY <1>2, <1>7
  <2> QED BY <1>1, <1>3, <1>4, <1>5, <1>8, <1>9, <1>10, <2>1
<1>13. A - L - d <= ((p - b) * r) \div q
  BY <1>2, <1>11, <1>12, DivisionGreatest
<1>14. ((p - b) * r) \div q \in Nat
  BY <1>11
<1> QED BY <1>2, <1>13, <1>14 DEF L, A

(* Scales and rates are positive. *)
LEMMA RateType ==
    ASSUME StrategiesTypeOK
    PROVE  bRate \in Nat \ {0} /\ SCALAR_12 \in Nat \ {0} /\ MaxRate \in Nat
BY RateBounds DEF StrategiesTypeOK

(* What a leaf reports to the allocator (balance, total_assets) is a natural. *)
LEMMA ValueType ==
    ASSUME StrategiesTypeOK, NEW s \in Leaves
    PROVE  Value(s) \in Nat
<1>1. position[s] \in Nat
  BY DEF StrategiesTypeOK
<1>2. position[s] * bRate \in Nat
  BY <1>1, RateType, ProductType
<1>3. (position[s] * bRate) \div SCALAR_12 \in Nat
  BY <1>2, RateType, QuotientType
<1> QED BY <1>1, <1>3 DEF Value

(* So is what a leaf books for a deposit, in its own units. *)
LEMMA CreditType ==
    ASSUME StrategiesTypeOK, NEW s \in Leaves, NEW amount \in Nat
    PROVE  Credit(s, amount) \in Nat
<1>1. amount * SCALAR_12 \in Nat
  BY RateType, ProductType
<1>2. (amount * SCALAR_12) \div bRate \in Nat
  BY <1>1, RateType, QuotientType
<1> QED BY <1>2 DEF Credit

(* A strategy delivers at most what it is asked for; a mock has it on its  *)
(* books and in its account (MockStrategy::withdraw).                      *)
LEMMA DeliveryType ==
    ASSUME NEW s \in Leaves, NEW amount \in Int, NEW d \in Deliverable(s, amount)
    PROVE  /\ d \in Nat \ {0}
           /\ d <= amount
           /\ s \in MockStrategies => d <= position[s] /\ d <= token[s]
BY DEF Deliverable

(* The position covers what a delivery takes from it. *)
LEMMA DebitType ==
    ASSUME StrategiesTypeOK, NEW s \in Leaves, NEW d \in Nat,
           s \in MockStrategies => d <= position[s]
    PROVE  Debit(s, d) \in 0 .. position[s]
<1>1. position[s] \in Nat
  BY DEF StrategiesTypeOK
<1>2. CASE s \in MockStrategies
  BY <1>1, <1>2 DEF Debit
<1>3. CASE s \notin MockStrategies
  <2> DEFINE burned == (d * SCALAR_12 + bRate - 1) \div bRate
  <2>1. d * SCALAR_12 \in Nat
    BY RateType, ProductType
  <2>2. d * SCALAR_12 + bRate - 1 \in Nat
    BY <2>1, RateType
  <2>3. burned \in Nat
    BY <2>2, RateType, QuotientType
  <2> HIDE DEF burned
  <2>4. Debit(s, d) = IF burned < position[s] THEN burned ELSE position[s]
    BY <1>3 DEF Debit, burned
  <2> QED BY <1>1, <2>3, <2>4
<1> QED BY <1>2, <1>3

(* A transfer of an amount the sender holds keeps a ledger well typed. *)
LEMMA TransferType ==
    ASSUME NEW H, NEW tok \in [H -> Nat], NEW from \in H, NEW to \in H, NEW n \in Nat,
           n <= tok[from]
    PROVE  Transfer(tok, from, to, n) \in [H -> Nat]
BY DEF Transfer

-------------------------------------------------------------------------------

\* Amounts that registered children deliver, or are given.
ChildAmounts(f) == DOMAIN f \subseteq Leaves /\ f \in [DOMAIN f -> Nat]

\* Amounts that the children have, in positions still as they were.
Available(f, tok, pos) ==
    /\ ChildAmounts(f)
    /\ \A c \in DOMAIN f :
          /\ pos[c] = position[c]
          /\ c \in MockStrategies => f[c] <= pos[c] /\ f[c] <= tok[c]

Typed == StrategiesTypeOK /\ AllocatorTypeOK

(* The registered children are leaves, finitely many, with their weights. *)
LEMMA ChildrenType ==
    ASSUME AllocatorTypeOK
    PROVE  /\ Registered \subseteq Children /\ Registered \subseteq Leaves
           /\ IsFiniteSet(Registered) /\ IsFiniteSet(Leaves)
           /\ slots \in [Registered -> Slot]
<1>1. Registered \subseteq Children /\ slots \in [Registered -> Slot]
  BY DEF AllocatorTypeOK, Registered
<1>2. Registered \subseteq Leaves
  BY <1>1, AllocatorConstants
<1> QED BY <1>1, <1>2, AddressesFinite, FS_Subset

(* A child reports a natural value, also when it cannot be read.           *)
LEMMA ChildValueType ==
    ASSUME Typed, NEW c \in Leaves
    PROVE  ChildValue(c) \in Nat
BY ValueType DEF Typed, ChildValue

(* The allocator reports a natural value (current_value).                 *)
LEMMA AllocatorValueType ==
    ASSUME Typed
    PROVE  AllocatorValue \in Nat /\ Native \in Nat
<1>1. IsFiniteSet(Registered) /\ Registered \subseteq Leaves
  BY ChildrenType DEF Typed
<1>2. \A c \in Registered : ChildValues[c] \in Nat
  BY <1>1, ChildValueType DEF ChildValues
<1>3. Total(ChildValues, Registered) \in Nat
  BY <1>1, <1>2, TotalType
<1>4. Native \in Nat
  BY DEF Typed, StrategiesTypeOK, Native, Holders
<1> QED BY <1>3, <1>4 DEF AllocatorValue

(* The target of a child is a natural amount (rebalance).                  *)
LEMMA TargetType ==
    ASSUME Typed, NEW c \in Registered
    PROVE  Target(c) \in Nat
<1>1. slots[c].weight \in Nat
  BY ChildrenType, AllocatorConstants DEF Typed, Slot
<1>2. AllocatorValue * slots[c].weight \in Nat
  BY <1>1, AllocatorValueType, ProductType
<1> QED BY <1>2, AllocatorConstants, QuotientType DEF Target

(* What a child has too much or too little of is a natural amount.        *)
LEMMA ImbalanceType ==
    ASSUME Typed
    PROVE  Excess \in [Registered -> Nat] /\ Deficit \in [Registered -> Nat]
<1>1. ASSUME NEW c \in Registered PROVE ChildValue(c) \in Nat /\ Target(c) \in Nat
  BY ChildrenType, ChildValueType, TargetType DEF Typed
<1> QED BY <1>1 DEF Excess, Deficit

(* Moving available amounts that the buffer can pay for keeps the ledgers  *)
(* well typed (TokensMoved, PositionsMoved).                               *)
LEMMA MoveFundsType ==
    ASSUME StrategiesTypeOK,
           NEW tok \in [Holders -> Nat], NEW pos \in [Leaves -> Nat],
           NEW out, Available(out, tok, pos),
           NEW into, ChildAmounts(into),
           MoveFunds(tok, pos, out, into)
    PROVE  StrategiesTypeOK'
<1>1. IsFiniteSet(DOMAIN out) /\ IsFiniteSet(DOMAIN into)
  BY AddressesFinite, FS_Subset DEF Available, ChildAmounts
<1>2. Total(out, DOMAIN out) \in Nat /\ Total(into, DOMAIN into) \in Nat
  BY <1>1, TotalType DEF Available, ChildAmounts
<1>3. Allocator \in Holders /\ Leaves \subseteq Holders /\ Allocator \notin Leaves
  BY AddressesDistinct DEF Holders
<1>4. ASSUME NEW s \in Leaves
      PROVE  /\ Amount(out, s) \in Nat /\ Amount(into, s) \in Nat
             /\ s \in MockStrategies =>
                   Amount(out, s) <= pos[s] /\ Amount(out, s) <= tok[s]
  <2>1. pos[s] \in Nat /\ tok[s] \in Nat
    BY <1>3
  <2> QED BY <2>1 DEF Available, ChildAmounts, Amount
<1>5. token' \in [Holders -> Nat]
  <2> SUFFICES ASSUME NEW h \in Holders PROVE TokensMoved(tok, out, into)[h] \in Nat
    BY DEF MoveFunds, TokensMoved
  <2>1. CASE h = Allocator
    BY <1>2, <1>3, <2>1 DEF TokensMoved, MoveFunds
  <2>2. CASE h \in Leaves
    <3>1. Kept(h, Amount(out, h)) \in Nat /\ Kept(h, Amount(into, h)) \in Nat
      BY <1>4, <2>2 DEF Kept
    <3>2. Kept(h, Amount(out, h)) <= tok[h]
      BY <1>3, <1>4, <2>2 DEF Kept
    <3>3. TokensMoved(tok, out, into)[h]
            = tok[h] - Kept(h, Amount(out, h)) + Kept(h, Amount(into, h))
      BY <1>3, <2>2 DEF TokensMoved
    <3>4. tok[h] \in Nat
      OBVIOUS
    <3> QED BY <3>1, <3>2, <3>3, <3>4
  <2>3. CASE h # Allocator /\ h \notin Leaves
    BY <2>3 DEF TokensMoved
  <2> QED BY <2>1, <2>2, <2>3
<1>6. position' \in [Leaves -> Nat]
  <2> SUFFICES ASSUME NEW s \in Leaves
               PROVE  PositionsMoved(pos, out, into)[s] \in Nat
    BY DEF MoveFunds, PositionsMoved
  <2>1. pos[s] \in Nat
    OBVIOUS
  <2>2. Credit(s, Amount(into, s)) \in Nat
    BY <1>4, CreditType
  <2>3. CASE Amount(out, s) = 0
    BY <2>1, <2>2, <2>3 DEF PositionsMoved
  <2>4. CASE Amount(out, s) # 0
    <3>1. pos[s] = position[s]
      BY <2>4 DEF Available, Amount
    <3>2. Debit(s, Amount(out, s)) \in 0 .. pos[s]
      BY <1>4, <3>1, DebitType
    <3> QED BY <2>1, <2>2, <3>2 DEF PositionsMoved
  <2> QED BY <2>3, <2>4
<1>7. bRate' = bRate
  BY DEF MoveFunds
<1> QED BY <1>5, <1>6, <1>7 DEF StrategiesTypeOK

(* Nothing is there to be moved.                                           *)
LEMMA NothingAvailable == \A tok, pos : Available(Nothing, tok, pos)
BY DEF Available, ChildAmounts, Nothing

(* One amount into one child.                                              *)
LEMMA OnlyAmounts ==
    ASSUME NEW c \in Leaves, NEW n \in Nat
    PROVE  ChildAmounts(Only(c, n))
BY DEF ChildAmounts, Only

(* What one child delivers is there (withdraw).                            *)
LEMMA OnlyAvailable ==
    ASSUME NEW c \in Leaves, NEW amount \in Int, NEW d \in Deliverable(c, amount)
    PROVE  Available(Only(c, d), token, position)
<1>1. /\ d \in Nat
      /\ c \in MockStrategies => d <= position[c] /\ d <= token[c]
  BY DeliveryType
<1> QED BY <1>1, OnlyAmounts DEF Available, Only

(* What the vault deposits is spread within what it deposited.             *)
LEMMA AllocatorDepositType ==
    ASSUME Typed, NEW tok \in [Holders -> Nat], NEW pos \in [Leaves -> Nat],
           NEW amount \in Nat, AllocatorDeposit(tok, pos, amount)
    PROVE  StrategiesTypeOK'
<1>1. ASSUME NEW c \in Registered
      PROVE  (amount * slots[c].weight) \div BPS_DENOM \in Nat
  <2>1. slots[c].weight \in Nat
    BY ChildrenType, AllocatorConstants DEF Typed, Slot
  <2>2. amount * slots[c].weight \in Nat
    BY <2>1, ProductType
  <2> QED BY <2>2, AllocatorConstants, QuotientType
<1>2. ChildAmounts(Slices(amount))
  BY <1>1, ChildrenType DEF ChildAmounts, Slices, Typed
<1> QED BY <1>2, NothingAvailable, MoveFundsType DEF AllocatorDeposit, Typed

-------------------------------------------------------------------------------

(* The basket after an operation on it, from the values it sets.           *)
LEMMA SlotsType ==
    ASSUME NEW R \in SUBSET Children, slots' \in [R -> Slot],
           nativeBps' \in 0 .. BPS_DENOM, paused' \in BOOLEAN, wedged' \subseteq Fragile
    PROVE  AllocatorTypeOK'
BY DEF AllocatorTypeOK

(* The entries of an order (set_target_weights).                           *)
LEMMA EntriesType ==
    ASSUME NEW o \in WeightOrders
    PROVE  /\ IsFiniteSet(DOMAIN o.entries)
           /\ \A i \in DOMAIN o.entries :
                 o.entries[i].child \in Children /\ o.entries[i].weight \in 0 .. BPS_DENOM
<1> DEFINE Entry == [child : Children, weight : 0 .. BPS_DENOM]
<1>1. o.entries \in Seq(Entry)
  BY OrdersWellFormed
<1> HIDE DEF Entry
<1>2. DOMAIN o.entries = 1 .. Len(o.entries) /\ Len(o.entries) \in Nat
  BY <1>1, LenProperties
<1>3. IsFiniteSet(1 .. Len(o.entries))
  BY <1>2, FS_Interval
<1>4. \A i \in DOMAIN o.entries : o.entries[i] \in Entry
  BY <1>1, <1>2, ElementOfSeq
<1> QED BY <1>2, <1>3, <1>4 DEF Entry

(* The weight of a child is that of one of its entries, if it has any.     *)
LEMMA LastEntry ==
    ASSUME NEW o \in WeightOrders, NEW c
    PROVE  \/ /\ \A i \in DOMAIN o.entries : o.entries[i].child # c
              /\ LastWeight(o, c) = 0
           \/ \E i \in DOMAIN o.entries :
                 o.entries[i].child = c /\ LastWeight(o, c) = o.entries[i].weight
<1> DEFINE at == {i \in DOMAIN o.entries : o.entries[i].child = c}
<1>1. CASE at = {}
  BY <1>1 DEF LastWeight
<1>2. CASE at # {}
  <2> DEFINE last == CHOOSE i \in at : \A j \in at : j <= i
  <2>1. \E i \in at : \A j \in at : j <= i
    <3>1. at \subseteq 1 .. Len(o.entries) /\ Len(o.entries) \in Nat
      BY OrdersWellFormed, LenProperties
    <3> QED BY <1>2, <3>1, LastOfSome
  <2>2. last \in at
    BY <2>1
  <2>3. LastWeight(o, c) = o.entries[last].weight
    BY <1>2 DEF LastWeight
  <2> QED BY <2>2, <2>3
<1> QED BY <1>1, <1>2

(* Operations on the basket keep its type; the ledgers are not touched.    *)
LEMMA BasketOperationsType ==
    ASSUME Typed,
           \/ \E c \in Children : \/ \E a \in Authorities : AddChild(c, a)
                                  \/ RemoveChild(c)
                                  \/ ForceRemoveChild(c)
           \/ \E b \in BOOLEAN : SetPaused(b)
           \/ \E o \in WeightOrders : SetTargetWeights(o)
           \/ ChildTrouble
    PROVE  Typed'
<1>1. /\ Registered \subseteq Children /\ slots \in [Registered -> Slot]
      /\ nativeBps \in 0 .. BPS_DENOM /\ paused \in BOOLEAN /\ wedged \subseteq Fragile
  BY ChildrenType DEF Typed, AllocatorTypeOK
<1>2. ASSUME UNCHANGED strategyVars PROVE StrategiesTypeOK'
  BY <1>2 DEF Typed, StrategiesTypeOK, strategyVars
<1>3. ASSUME NEW c \in Children, NEW a \in Authorities, AddChild(c, a) PROVE Typed'
  <2>1. [weight |-> 0, authoritative |-> a] \in Slot
    BY AllocatorConstants DEF Slot
  <2>2. slots' \in [Registered \union {c} -> Slot]
    BY <1>1, <1>3, <2>1 DEF AddChild
  <2>3. AllocatorTypeOK'
    BY <1>1, <1>3, <2>2, SlotsType DEF AddChild
  <2> QED BY <1>2, <1>3, <2>3 DEF AddChild, Typed
<1>4. ASSUME NEW c \in Children, Evict(c) PROVE Typed'
  <2>1. slots' \in [Registered \ {c} -> Slot]
    BY <1>1, <1>4 DEF Evict
  <2>2. AllocatorTypeOK'
    BY <1>1, <1>4, <2>1, SlotsType DEF Evict
  <2> QED BY <1>2, <1>4, <2>2 DEF Evict, Typed
<1>5. ASSUME NEW b \in BOOLEAN, SetPaused(b) PROVE Typed'
  <2>1. AllocatorTypeOK'
    BY <1>1, <1>5, SlotsType DEF SetPaused
  <2> QED BY <1>2, <1>5, <2>1 DEF SetPaused, Typed
<1>6. ASSUME NEW o \in WeightOrders, SetTargetWeights(o) PROVE Typed'
  <2>1. o.nativeBps \in 0 .. BPS_DENOM /\ o.entries \in Seq([child : Children, weight : 0 .. BPS_DENOM])
    BY OrdersWellFormed
  <2>2. ASSUME NEW c \in Registered PROVE LastWeight(o, c) \in 0 .. BPS_DENOM
    BY LastEntry, EntriesType, AllocatorConstants
  <2>3. slots' \in [Registered -> Slot]
    BY <1>1, <1>6, <2>2 DEF SetTargetWeights, Slot
  <2>4. AllocatorTypeOK'
    BY <1>1, <1>6, <2>1, <2>3, SlotsType DEF SetTargetWeights
  <2> QED BY <1>2, <1>6, <2>4 DEF SetTargetWeights, Typed
<1>7. ASSUME ChildTrouble PROVE Typed'
  <2>1. slots' = slots /\ nativeBps' = nativeBps /\ paused' = paused
        /\ UNCHANGED strategyVars /\ wedged' \subseteq Fragile
    BY <1>1, <1>7 DEF ChildTrouble, Wedge, Recover
  <2>2. AllocatorTypeOK'
    BY <1>1, <2>1, SlotsType
  <2> QED BY <1>2, <2>1, <2>2 DEF Typed
<1> QED BY <1>3, <1>4, <1>5, <1>6, <1>7 DEF RemoveChild, ForceRemoveChild

(* What the children deliver of the amounts they are asked for is there.   *)
LEMMA DeliveriesAvailable ==
    ASSUME NEW asked, DOMAIN asked \subseteq Leaves, \A c \in DOMAIN asked : asked[c] \in Nat,
           NEW out \in Deliveries(asked), StrategiesTypeOK
    PROVE  Available(out, token, position)
<1>1. DOMAIN out = DOMAIN asked /\ out \in [DOMAIN asked -> UNION {0 .. asked[c] : c \in DOMAIN asked}]
  BY DEF Deliveries
<1>2. ASSUME NEW c \in DOMAIN asked
      PROVE  out[c] \in Nat /\ (c \in MockStrategies => out[c] <= position[c] /\ out[c] <= token[c])
  <2>1. CASE asked[c] = 0
    <3>1. out[c] = 0
      BY <2>1 DEF Deliveries
    <3>2. position[c] \in Nat /\ token[c] \in Nat
      BY DEF StrategiesTypeOK, Holders
    <3> QED BY <3>1, <3>2
  <2>2. CASE asked[c] # 0
    <3>1. out[c] \in Deliverable(c, asked[c])
      BY <2>2 DEF Deliveries
    <3> QED BY <3>1, DeliveryType
  <2> QED BY <2>1, <2>2
<1>3. out \in [DOMAIN out -> Nat]
  BY <1>1, <1>2
<1> QED BY <1>1, <1>2, <1>3 DEF Available, ChildAmounts

(* The keeper's calls that move funds keep the ledgers well typed.         *)
LEMMA KeeperMovesType ==
    ASSUME Typed,
           \/ \E c \in Children, n \in KeeperAmounts : DrainChild(c, n) \/ FundChild(c, n)
           \/ \E c \in Children : RebalanceStep(c)
           \/ Rebalance
    PROVE  Typed'
<1>1. /\ Registered \subseteq Leaves /\ Native \in Nat
      /\ token \in [Holders -> Nat] /\ position \in [Leaves -> Nat]
  BY ChildrenType, AllocatorValueType DEF Typed, StrategiesTypeOK
<1>2. Excess \in [Registered -> Nat] /\ Deficit \in [Registered -> Nat]
  BY ImbalanceType
<1>3. ChildAmounts(Nothing) /\ Available(Nothing, token, position)
  BY NothingAvailable DEF Available
<1>4. ASSUME UNCHANGED allocatorVars PROVE AllocatorTypeOK'
  BY <1>4 DEF Typed, AllocatorTypeOK, allocatorVars
<1>5. ASSUME NEW c \in Registered, NEW amount \in Int, NEW d \in Deliverable(c, amount),
             MoveFunds(token, position, Only(c, d), Nothing)
      PROVE  StrategiesTypeOK'
  BY <1>1, <1>3, <1>5, OnlyAvailable, MoveFundsType DEF Typed
<1>6. ASSUME NEW c \in Registered, NEW n \in Nat, MoveFunds(token, position, Nothing, Only(c, n))
      PROVE  StrategiesTypeOK'
  BY <1>1, <1>3, <1>6, OnlyAmounts, MoveFundsType DEF Typed
<1>7. ASSUME NEW c \in Children, NEW n \in KeeperAmounts, DrainChild(c, n) PROVE Typed'
  <2>1. n \in Int
    BY AllocatorConstants
  <2> QED BY <1>4, <1>5, <1>7, <2>1 DEF DrainChild, Typed
<1>8. ASSUME NEW c \in Children, NEW n \in KeeperAmounts, FundChild(c, n) PROVE Typed'
  <2>1. n \in Nat
    BY AllocatorConstants
  <2> QED BY <1>4, <1>6, <1>8, <2>1 DEF FundChild, Typed
<1>9. ASSUME NEW c \in Children, RebalanceStep(c) PROVE Typed'
  <2> DEFINE fund == IF Deficit[c] > Native THEN Native ELSE Deficit[c]
  <2>1. c \in Registered /\ Excess[c] \in Int /\ fund \in Nat
    BY <1>1, <1>2, <1>9 DEF RebalanceStep
  <2>2. CASE \E d \in Deliverable(c, Excess[c]) : MoveFunds(token, position, Only(c, d), Nothing)
    BY <1>4, <1>5, <1>9, <2>1, <2>2 DEF RebalanceStep, Typed
  <2>3. CASE MoveFunds(token, position, Nothing, Only(c, fund))
    BY <1>4, <1>6, <1>9, <2>1, <2>3 DEF RebalanceStep, Typed
  <2> QED BY <1>9, <2>2, <2>3 DEF RebalanceStep
<1>10. ASSUME Rebalance PROVE Typed'
  <2>1. PICK out \in Deliveries(Excess) : MoveFunds(token, position, out, Deficit)
    BY <1>10 DEF Rebalance
  <2>2. Available(out, token, position)
    BY <1>1, <1>2, DeliveriesAvailable DEF Typed
  <2>3. ChildAmounts(Deficit)
    BY <1>1, <1>2 DEF ChildAmounts
  <2>4. StrategiesTypeOK'
    BY <1>1, <2>1, <2>2, <2>3, MoveFundsType DEF Typed
  <2> QED BY <1>4, <1>10, <2>4 DEF Rebalance, Typed
<1> QED BY <1>7, <1>8, <1>9, <1>10

(* Every operation of the admin keeps the type of the allocator.           *)
LEMMA AdminStepType ==
    ASSUME Typed, AdminStep
    PROVE  Typed'
BY BasketOperationsType, KeeperMovesType DEF AdminStep

(* A basket that the constructor accepts has the right type.               *)
LEMMA AllocatorInitType ==
    ASSUME AllocatorInit
    PROVE  AllocatorTypeOK
BY BasketsWellFormed DEF AllocatorInit, AllocatorTypeOK

-------------------------------------------------------------------------------
(* The value that is reported *)

(* A child that a call does not reach keeps its position.                  *)
LEMMA MoveFundsLeaves ==
    ASSUME StrategiesTypeOK, NEW tok, NEW pos \in [Leaves -> Nat], NEW out, NEW into,
           MoveFunds(tok, pos, out, into),
           NEW c \in Leaves, Amount(out, c) = 0, Amount(into, c) = 0
    PROVE  position'[c] = pos[c]
<1>1. position'[c] = pos[c] - 0 + Credit(c, 0)
  BY DEF MoveFunds, PositionsMoved
<1>2. Credit(c, 0) = 0
  <2>1. \A d \in Nat \ {0}, n \in Nat : (0 * n) \div d = 0
    OBVIOUS
  <2> QED BY <2>1, RateType DEF Credit
<1> QED BY <1>1, <1>2

\* What a Blend strategy may lose by rounding: the worth of one bToken,
\* rounded up.
BTokenWorth == (bRate + SCALAR_12 - 1) \div SCALAR_12

LossOf(s) == IF s \in BlendStrategies THEN BTokenWorth ELSE 0

LEMMA LossType ==
    ASSUME StrategiesTypeOK
    PROVE  BTokenWorth \in Nat /\ \A s : LossOf(s) \in Nat
<1>1. bRate + SCALAR_12 - 1 \in Nat /\ SCALAR_12 \in Nat \ {0}
  BY RateType
<1>2. (bRate + SCALAR_12 - 1) \div SCALAR_12 \in Nat
  BY <1>1, QuotientType
<1> QED BY <1>2 DEF BTokenWorth, LossOf

(* A leaf that is supplied is worth the supply more (deposit).             *)
LEMMA LeafSupplied ==
    ASSUME StrategiesTypeOK, NEW s \in Leaves, NEW n \in Nat,
           bRate' = bRate, position'[s] = position[s] + Credit(s, n)
    PROVE  Value(s)' + LossOf(s) >= Value(s) + n
<1>1. position[s] \in Nat /\ bRate \in Nat \ {0} /\ SCALAR_12 \in Nat \ {0}
  BY RateType DEF StrategiesTypeOK
<1>2. CASE s \in MockStrategies
  BY <1>1, <1>2, AddressesDistinct DEF Value, Credit, LossOf
<1>3. CASE s \notin MockStrategies
  <2> DEFINE after == ((position[s] + (n * SCALAR_12) \div bRate) * bRate) \div SCALAR_12
             before == (position[s] * bRate) \div SCALAR_12
             lost == (bRate + SCALAR_12 - 1) \div SCALAR_12
  <2>1. after + lost >= before + n
    BY <1>1, SuppliedWorth
  <2>2. Value(s)' = after /\ Value(s) = before /\ LossOf(s) = lost
    BY <1>3 DEF Value, Credit, LossOf, BTokenWorth, Leaves
  <2> HIDE DEF after, before, lost
  <2> QED BY <2>1, <2>2
<1> QED BY <1>2, <1>3

(* A leaf that delivers is worth the delivery less (withdraw).             *)
LEMMA LeafDelivered ==
    ASSUME StrategiesTypeOK, NEW s \in Leaves, NEW d \in Nat,
           bRate' = bRate, position'[s] = position[s] - Debit(s, d)
    PROVE  Value(s)' + LossOf(s) + d >= Value(s)
<1>1. position[s] \in Nat /\ bRate \in Nat \ {0} /\ SCALAR_12 \in Nat \ {0}
  BY RateType DEF StrategiesTypeOK
<1>2. CASE s \in MockStrategies
  BY <1>1, <1>2, AddressesDistinct DEF Value, Debit, LossOf
<1>3. CASE s \notin MockStrategies
  <2> DEFINE b == Debit(s, d)
             after == ((position[s] - b) * bRate) \div SCALAR_12
             before == (position[s] * bRate) \div SCALAR_12
             lost == (bRate + SCALAR_12 - 1) \div SCALAR_12
  <2>1. b = IF (d * SCALAR_12 + bRate - 1) \div bRate < position[s]
            THEN (d * SCALAR_12 + bRate - 1) \div bRate ELSE position[s]
    BY <1>3 DEF Debit
  <2>2. Value(s)' = after /\ Value(s) = before /\ LossOf(s) = lost
    BY <1>3 DEF Value, LossOf, BTokenWorth, Leaves
  <2> HIDE DEF b
  <2>3. after + lost + d >= before
    BY <1>1, <2>1, WithdrawnWorth
  <2> HIDE DEF after, before, lost
  <2> QED BY <2>2, <2>3
<1> QED BY <1>2, <1>3

(* The values that are read after a call are natural numbers as well.      *)
LEMMA ChildValueTypeNext ==
    ASSUME StrategiesTypeOK', NEW c \in Leaves
    PROVE  ChildValue(c)' \in Nat
<1>1. position'[c] \in Nat /\ bRate' \in Nat /\ SCALAR_12 \in Nat \ {0}
  BY RateBounds DEF StrategiesTypeOK
<1>2. (position'[c] * bRate') \div SCALAR_12 \in Nat
  BY <1>1, ProductType, QuotientType
<1>3. Value(c)' \in Nat
  BY <1>1, <1>2 DEF Value
<1> QED BY <1>3 DEF ChildValue

(* What a call that moves funds does to one child it may reach: with the   *)
(* amounts it delivers and is given, it keeps its value but for rounding.  *)
LEMMA MovedChild ==
    ASSUME Typed, NEW tok, NEW pos \in [Leaves -> Nat], NEW out, NEW into,
           MoveFunds(tok, pos, out, into), UNCHANGED wedged,
           NEW c \in Leaves, pos[c] = position[c],
           Amount(out, c) \in Nat, Amount(into, c) \in Nat,
           (Amount(out, c) = 0 \/ Amount(into, c) = 0),
           ChildValue(c)' \in Nat
    PROVE  ChildValue(c)' + LossOf(c) + Amount(out, c) >= ChildValue(c) + Amount(into, c)
<1>1. /\ StrategiesTypeOK /\ LossOf(c) \in Nat /\ ChildValue(c) \in Nat /\ Value(c) \in Nat
      /\ position[c] \in Nat /\ bRate' = bRate
  BY LossType, ChildValueType, ValueType DEF Typed, MoveFunds, StrategiesTypeOK
<1>2. position'[c] = position[c] - (IF Amount(out, c) = 0 THEN 0 ELSE Debit(c, Amount(out, c)))
                       + Credit(c, Amount(into, c))
  BY DEF MoveFunds, PositionsMoved
<1>3. CASE c \in wedged
  <2>1. ~(Amount(out, c) > 0) /\ ~(Amount(into, c) > 0)
    BY <1>3 DEF MoveFunds, Reachable, Amount
  <2>2. Amount(out, c) = 0 /\ Amount(into, c) = 0
    BY <2>1
  <2>3. ChildValue(c) = 0
    BY <1>3 DEF ChildValue
  <2> QED BY <1>1, <2>2, <2>3
<1>4. CASE c \notin wedged /\ Amount(out, c) = 0
  <2>1. Credit(c, Amount(into, c)) \in Nat
    BY <1>1, CreditType
  <2>2. position'[c] = position[c] + Credit(c, Amount(into, c))
    BY <1>1, <1>2, <1>4, <2>1
  <2>3. Value(c)' + LossOf(c) >= Value(c) + Amount(into, c)
    BY <1>1, <2>2, LeafSupplied
  <2>4. Value(c)' = ChildValue(c)' /\ Value(c) = ChildValue(c)
    BY <1>4 DEF ChildValue
  <2> QED BY <1>1, <1>4, <2>3, <2>4
<1>5. CASE c \notin wedged /\ Amount(out, c) # 0
  <2>1. Credit(c, 0) = 0
    <3>1. \A d \in Nat \ {0}, n \in Nat : (0 * n) \div d = 0
      OBVIOUS
    <3> QED BY <1>1, <3>1, RateType DEF Credit
  <2>2. Amount(into, c) = 0
    BY <1>5
  <2>3. position'[c] = position[c] - Debit(c, Amount(out, c)) + 0
    BY <1>2, <1>5, <2>1, <2>2
  <2>4. Debit(c, Amount(out, c)) \in Int
    <3>1. CASE c \in MockStrategies
      BY <3>1 DEF Debit
    <3>2. CASE c \notin MockStrategies
      BY <1>1, <3>2, RateType, DebitType
    <3> QED BY <3>1, <3>2
  <2>5. position'[c] = position[c] - Debit(c, Amount(out, c))
    BY <1>1, <2>3, <2>4
  <2>6. Value(c)' + LossOf(c) + Amount(out, c) >= Value(c)
    BY <1>1, <2>5, LeafDelivered
  <2>7. Value(c)' = ChildValue(c)' /\ Value(c) = ChildValue(c)
    BY <1>5 DEF ChildValue
  <2> QED BY <1>1, <2>2, <2>6, <2>7
<1> QED BY <1>3, <1>4, <1>5

(* The allocator's value after a call that moves funds is what its         *)
(* children are worth then, and the buffer with the amounts in and out.    *)
LEMMA MovedSums ==
    ASSUME Typed, NEW tok \in [Holders -> Nat], NEW pos \in [Leaves -> Nat],
           NEW out, Available(out, tok, pos), DOMAIN out \subseteq Registered,
           NEW into, ChildAmounts(into), DOMAIN into \subseteq Registered,
           MoveFunds(tok, pos, out, into), UNCHANGED slots
    PROVE  /\ AllocatorValue' + Total([c \in Registered |-> Amount(into, c)], Registered)
                = Total([c \in Registered |-> ChildValue(c)'], Registered) + tok[Allocator]
                    + Total([c \in Registered |-> Amount(out, c)], Registered)
           /\ \A c \in Registered : /\ Amount(out, c) \in Nat /\ Amount(into, c) \in Nat
                                   /\ ChildValue(c)' \in Nat
           /\ tok[Allocator] \in Nat /\ AllocatorValue' \in Nat
<1> DEFINE R == Registered
           outs == [c \in R |-> Amount(out, c)]
           intos == [c \in R |-> Amount(into, c)]
           new == [c \in R |-> ChildValue(c)']
           O == Total(out, DOMAIN out)
           I == Total(into, DOMAIN into)
<1>1. IsFiniteSet(R) /\ R' = R
  BY ChildrenType DEF Typed, Registered
<1>2. \A c \in R : Amount(out, c) \in Nat /\ Amount(into, c) \in Nat /\ ChildValue(c)' \in Nat
  <2>1. StrategiesTypeOK' /\ R \subseteq Leaves
    BY MoveFundsType, ChildrenType DEF Typed
  <2>2. \A c \in R : ChildValue(c)' \in Nat
    BY <2>1, ChildValueTypeNext
  <2> QED BY <2>2 DEF Available, ChildAmounts, Amount
<1>3. Total(outs, R) = O
  <2>1. DOMAIN out \in SUBSET R /\ \A c \in DOMAIN out : out[c] \in Nat
    BY DEF Available, ChildAmounts
  <2>2. \A c \in R : outs[c] = IF c \in DOMAIN out THEN out[c] ELSE 0
    BY DEF Amount
  <2> HIDE DEF outs, R
  <2> QED BY <1>1, <2>1, <2>2, TotalExtended
<1>4. Total(intos, R) = I
  <2>1. DOMAIN into \in SUBSET R /\ \A c \in DOMAIN into : into[c] \in Nat
    BY DEF ChildAmounts
  <2>2. \A c \in R : intos[c] = IF c \in DOMAIN into THEN into[c] ELSE 0
    BY DEF Amount
  <2> HIDE DEF intos, R
  <2> QED BY <1>1, <2>1, <2>2, TotalExtended
<1>5. Native' = tok[Allocator] + O - I /\ tok[Allocator] \in Nat
  <2>1. Allocator \in Holders
    BY DEF Holders
  <2> QED BY <2>1 DEF MoveFunds, TokensMoved, Native
<1>6. AllocatorValue' = Total(new, R) + Native'
  <2>1. ChildValues' = new
    BY <1>1 DEF ChildValues
  <2> QED BY <1>1, <2>1 DEF AllocatorValue
<1>7. O \in Nat /\ I \in Nat
  <2>1. \A c \in R : outs[c] \in Nat /\ intos[c] \in Nat
    BY <1>2
  <2> HIDE DEF outs, intos, R, O, I
  <2> QED BY <1>1, <1>3, <1>4, <2>1, TotalType
<1>8. Total(new, R) \in Nat
  <2>1. \A c \in R : new[c] \in Nat
    BY <1>2
  <2> HIDE DEF new, R
  <2> QED BY <1>1, <2>1, TotalType
<1>10. Native' \in Nat
  <2>1. StrategiesTypeOK' /\ Allocator \in Holders
    BY MoveFundsType DEF Typed, Holders
  <2> QED BY <2>1 DEF StrategiesTypeOK, Native
<1> HIDE DEF new, outs, intos, O, I
<1>9. AllocatorValue' + Total(intos, R) = Total(new, R) + tok[Allocator] + Total(outs, R)
  BY <1>3, <1>4, <1>5, <1>6, <1>7, <1>8
<1> QED BY <1>2, <1>5, <1>6, <1>8, <1>9, <1>10 DEF outs, intos, new

(* What leaves one mock, or the buffer, reaches another, so the value of   *)
(* the allocator changes only by what its caller has paid into the buffer. *)
LEMMA MoveFundsKeepsValue ==
    ASSUME Typed, Registered \subseteq MockStrategies,
           NEW tok \in [Holders -> Nat], NEW pos \in [Leaves -> Nat],
           \A c \in Registered : pos[c] = position[c],
           NEW out, Available(out, tok, pos), DOMAIN out \subseteq Registered,
           NEW into, ChildAmounts(into), DOMAIN into \subseteq Registered,
           MoveFunds(tok, pos, out, into), UNCHANGED <<slots, wedged>>
    PROVE  AllocatorValue' = AllocatorValue - Native + tok[Allocator]
<1> DEFINE R == Registered
           outs == [c \in R |-> Amount(out, c)]
           intos == [c \in R |-> Amount(into, c)]
           new == [c \in R |-> ChildValue(c)']
           both == [c \in R |-> ChildValue(c) + Amount(into, c)]
<1>1. IsFiniteSet(R) /\ R \subseteq Leaves
  BY ChildrenType DEF Typed
<1>2. /\ \A c \in R : outs[c] \in Nat /\ intos[c] \in Nat /\ new[c] \in Nat
      /\ tok[Allocator] \in Nat /\ AllocatorValue' \in Nat
      /\ AllocatorValue' + Total(intos, R) = Total(new, R) + tok[Allocator] + Total(outs, R)
  BY MovedSums
<1>3. ASSUME NEW c \in R
      PROVE  /\ ChildValues[c] \in Nat /\ both[c] = ChildValues[c] + intos[c]
             /\ both[c] = new[c] + outs[c]
  <2>1. c \in Leaves /\ c \in MockStrategies
    BY <1>1
  <2>2. ChildValue(c) \in Nat /\ position[c] \in Nat
    BY <2>1, ChildValueType DEF Typed, StrategiesTypeOK
  <2>3. ChildValue(c)' = IF c \in wedged THEN 0 ELSE position'[c]
    BY <2>1 DEF ChildValue, Value
  <2>4. ChildValue(c) = IF c \in wedged THEN 0 ELSE position[c]
    BY <2>1 DEF ChildValue, Value
  <2>5. ChildValues[c] = ChildValue(c)
    BY DEF ChildValues
  <2>6. CASE c \in wedged
    <3>1. ~(outs[c] > 0) /\ ~(intos[c] > 0)
      BY <2>6 DEF MoveFunds, Reachable, Amount
    <3>2. outs[c] = 0 /\ intos[c] = 0
      BY <1>2, <3>1
    <3> QED BY <2>2, <2>3, <2>4, <2>5, <2>6, <3>2
  <2>7. CASE c \notin wedged
    <3>1. position'[c] = pos[c] - (IF outs[c] = 0 THEN 0 ELSE Debit(c, outs[c]))
                           + Credit(c, intos[c])
      BY <2>1 DEF MoveFunds, PositionsMoved
    <3>2. Debit(c, outs[c]) = outs[c] /\ Credit(c, intos[c]) = intos[c] /\ pos[c] = position[c]
      BY <2>1 DEF Debit, Credit
    <3>3. position'[c] = position[c] - outs[c] + intos[c]
      <4> HIDE DEF outs, intos
      <4> QED BY <1>2, <2>2, <3>1, <3>2
    <3>4. new[c] = position'[c] /\ both[c] = position[c] + intos[c]
      BY <2>3, <2>4, <2>7
    <3>5. ChildValues[c] = position[c]
      BY <2>4, <2>5, <2>7
    <3> HIDE DEF new, both, outs, intos
    <3> QED BY <1>2, <2>2, <3>3, <3>4, <3>5
  <2> QED BY <2>6, <2>7
<1> HIDE DEF both, new, outs, intos
<1>4. Total(both, R) = Total(ChildValues, R) + Total(intos, R)
  <2> HIDE DEF R
  <2> QED BY <1>1, <1>2, <1>3, TotalPlus
<1>5. Total(both, R) = Total(new, R) + Total(outs, R)
  <2> HIDE DEF R
  <2> QED BY <1>1, <1>2, <1>3, TotalPlus
<1>6. /\ Total(ChildValues, R) \in Nat /\ Total(new, R) \in Nat
      /\ Total(outs, R) \in Nat /\ Total(intos, R) \in Nat
      /\ Native \in Nat /\ AllocatorValue = Total(ChildValues, R) + Native
  <2>1. AllocatorValue = Total(ChildValues, R) + Native /\ Native \in Nat
    BY AllocatorValueType DEF AllocatorValue
  <2> HIDE DEF R
  <2> QED BY <1>1, <1>2, <1>3, <2>1, TotalType
<1> QED BY <1>2, <1>4, <1>5, <1>6

(* With Blend children it may lose what rounding costs at each of them,    *)
(* when no child is both drained and funded.                               *)
AllocatorLoss == Cardinality(Registered \intersect BlendStrategies) * BTokenWorth

LEMMA AllocatorLossType == ASSUME Typed PROVE AllocatorLoss \in Nat
<1>1. IsFiniteSet(Registered \intersect BlendStrategies)
  BY ChildrenType, FS_Subset DEF Typed
<1>2. Cardinality(Registered \intersect BlendStrategies) \in Nat
  BY <1>1, FS_CardinalityType
<1> QED BY <1>2, LossType, ProductType DEF AllocatorLoss, Typed

LEMMA MoveFundsLoses ==
    ASSUME Typed, NEW tok \in [Holders -> Nat], NEW pos \in [Leaves -> Nat],
           \A c \in Registered : pos[c] = position[c],
           NEW out, Available(out, tok, pos), DOMAIN out \subseteq Registered,
           NEW into, ChildAmounts(into), DOMAIN into \subseteq Registered,
           \A c \in Registered : Amount(out, c) = 0 \/ Amount(into, c) = 0,
           MoveFunds(tok, pos, out, into), UNCHANGED <<slots, wedged>>
    PROVE  AllocatorValue' + AllocatorLoss >= AllocatorValue - Native + tok[Allocator]
<1> DEFINE R == Registered
           outs == [c \in R |-> Amount(out, c)]
           intos == [c \in R |-> Amount(into, c)]
           new == [c \in R |-> ChildValue(c)']
           loss == [c \in R |-> LossOf(c)]
           before == [c \in R |-> ChildValue(c) + Amount(into, c)]
           lost == [c \in R |-> LossOf(c) + Amount(out, c)]
           after == [c \in R |-> new[c] + lost[c]]
<1>1. IsFiniteSet(R) /\ R \subseteq Leaves
  BY ChildrenType DEF Typed
<1>2. /\ \A c \in R : outs[c] \in Nat /\ intos[c] \in Nat /\ new[c] \in Nat
      /\ tok[Allocator] \in Nat /\ AllocatorValue' \in Nat
      /\ AllocatorValue' + Total(intos, R) = Total(new, R) + tok[Allocator] + Total(outs, R)
  <2>1. UNCHANGED slots
    OBVIOUS
  <2>2. /\ AllocatorValue' + Total([c \in Registered |-> Amount(into, c)], Registered)
                = Total([c \in Registered |-> ChildValue(c)'], Registered) + tok[Allocator]
                    + Total([c \in Registered |-> Amount(out, c)], Registered)
        /\ \A c \in Registered : /\ Amount(out, c) \in Nat /\ Amount(into, c) \in Nat
                                /\ ChildValue(c)' \in Nat
        /\ tok[Allocator] \in Nat /\ AllocatorValue' \in Nat
    BY <2>1, MovedSums, Zenon
  <2> QED BY <2>2
<1>3. ASSUME NEW c \in R
      PROVE  /\ ChildValues[c] \in Nat /\ loss[c] \in Nat
             /\ before[c] = ChildValues[c] + intos[c]
             /\ lost[c] = loss[c] + outs[c]
             /\ after[c] = new[c] + lost[c]
             /\ before[c] <= after[c]
  <2>1. ChildValue(c) \in Nat /\ LossOf(c) \in Nat
    BY <1>1, ChildValueType, LossType DEF Typed
  <2>2. Amount(out, c) \in Nat /\ Amount(into, c) \in Nat /\ ChildValue(c)' \in Nat
    BY <1>2
  <2>3. ChildValue(c)' + LossOf(c) + Amount(out, c) >= ChildValue(c) + Amount(into, c)
    BY <1>1, <2>2, MovedChild
  <2> QED BY <2>1, <2>2, <2>3 DEF ChildValues
<1>4. /\ \A c \in R : before[c] \in Nat /\ lost[c] \in Nat /\ after[c] \in Nat
  <2> HIDE DEF before, lost, after, loss, outs, intos, new
  <2> QED BY <1>2, <1>3
<1> HIDE DEF before, lost, after, new, outs, intos
<1>5. Total(before, R) = Total(ChildValues, R) + Total(intos, R)
  <2> HIDE DEF R, loss
  <2> QED BY <1>1, <1>2, <1>3, TotalPlus
<1>6. Total(lost, R) = Total(loss, R) + Total(outs, R)
  <2> HIDE DEF R, loss
  <2> QED BY <1>1, <1>2, <1>3, TotalPlus
<1>7. Total(after, R) = Total(new, R) + Total(lost, R)
  <2> HIDE DEF R, loss
  <2> QED BY <1>1, <1>2, <1>3, <1>4, TotalPlus
<1>8. Total(before, R) <= Total(after, R)
  <2> HIDE DEF R, loss
  <2> QED BY <1>1, <1>3, <1>4, TotalLess
<1>9. Total(loss, R) <= AllocatorLoss
  <2> DEFINE B == R \intersect BlendStrategies
             unit == [c \in B |-> BTokenWorth]
  <2>1. BTokenWorth \in Nat /\ IsFiniteSet(B) /\ B \in SUBSET R
    BY <1>1, LossType, FS_Subset DEF Typed
  <2>2. \A c \in R : loss[c] = IF c \in B THEN unit[c] ELSE 0
    BY DEF LossOf
  <2>3. \A c \in B : unit[c] \in Nat /\ unit[c] <= BTokenWorth
    BY <2>1
  <2>4. Total(loss, R) = Total(unit, B)
    <3> HIDE DEF loss, unit, B, R
    <3> QED BY <1>1, <2>1, <2>2, <2>3, TotalExtended
  <2>5. Total(unit, B) <= Cardinality(B) * BTokenWorth
    <3> HIDE DEF unit, B
    <3> QED BY <2>1, <2>3, TotalAtMost
  <2> QED BY <2>4, <2>5 DEF AllocatorLoss
<1> HIDE DEF loss
<1>10. /\ Total(ChildValues, R) \in Nat /\ Total(new, R) \in Nat /\ Total(loss, R) \in Nat
       /\ Total(outs, R) \in Nat /\ Total(intos, R) \in Nat
       /\ Native \in Nat /\ AllocatorValue = Total(ChildValues, R) + Native
       /\ AllocatorLoss \in Nat
  <2>1. AllocatorValue = Total(ChildValues, R) + Native /\ Native \in Nat /\ AllocatorLoss \in Nat
    BY AllocatorValueType, AllocatorLossType DEF AllocatorValue
  <2> HIDE DEF R
  <2> QED BY <1>1, <1>2, <1>3, <2>1, TotalType
<1> QED BY <1>2, <1>5, <1>6, <1>7, <1>8, <1>9, <1>10

-------------------------------------------------------------------------------
(* Funds outside of the basket *)

(* A child that is not registered has no position, unless it may be forced *)
(* out.                                                                    *)
EmptyOutside == \A c \in Children \ (Registered \union Evictable) : position[c] = 0

(* The registered children of a set are authoritative: their failure to    *)
(* answer is not taken for an empty position.                              *)
AuthoritativeIn(X) == \A c \in Registered \intersect X : slots[c].authoritative

(* The constructor and the admin register children of the set as such.     *)
RegisteredAsAuthoritative(X) ==
    /\ X # {} => Authorities \subseteq {TRUE}
    /\ \A b \in InitialBaskets : \A c \in DOMAIN b.slots \intersect X : b.slots[c].authoritative

LEMMA AuthoritativeStep ==
    ASSUME NEW X, RegisteredAsAuthoritative(X), Typed, AuthoritativeIn(X), AdminStep
    PROVE  AuthoritativeIn(X)'
<1>1. slots \in [Registered -> Slot]
  BY ChildrenType DEF Typed
<1>2. CASE UNCHANGED slots
  BY <1>2 DEF AuthoritativeIn, Registered
<1>3. ASSUME NEW c \in Children, NEW a \in Authorities, AddChild(c, a) PROVE AuthoritativeIn(X)'
  BY <1>3 DEF AddChild, AuthoritativeIn, Registered, RegisteredAsAuthoritative
<1>4. ASSUME NEW c \in Registered, Evict(c) PROVE AuthoritativeIn(X)'
  BY <1>4 DEF Evict, AuthoritativeIn, Registered
<1>5. ASSUME NEW o \in WeightOrders, SetTargetWeights(o) PROVE AuthoritativeIn(X)'
  <2>1. DOMAIN slots' = DOMAIN slots
        /\ \A c \in Registered : slots'[c].authoritative = slots[c].authoritative
    BY <1>1, <1>5 DEF SetTargetWeights, Slot, Registered
  <2> QED BY <2>1 DEF AuthoritativeIn, Registered
<1> QED BY <1>2, <1>3, <1>4, <1>5 DEF AdminStep, RemoveChild, ForceRemoveChild, DrainChild,
        FundChild, RebalanceStep, Rebalance, SetPaused, allocatorVars

(* Rates never fall below the scale, so that only an empty position is     *)
(* worth nothing.                                                          *)
LEMMA WorthNothing ==
    ASSUME StrategiesTypeOK, NEW c \in Leaves, Value(c) = 0
    PROVE  position[c] = 0
<1>1. position[c] \in Nat /\ bRate \in Nat /\ SCALAR_12 \in Nat \ {0} /\ SCALAR_12 <= bRate
  BY RateType, RateBounds DEF StrategiesTypeOK
<1>2. \A p, r \in Nat, d \in Nat \ {0} : d <= r /\ p # 0 => (p * r) \div d # 0
  <2> TAKE p, r \in Nat, d \in Nat \ {0}
  <2> HAVE d <= r /\ p # 0
  <2>1. 1 * r <= p * r
    OBVIOUS
  <2>2. p * r \in Nat /\ d <= p * r
    BY <2>1
  <2>3. \A n \in Nat : d <= n => n \div d >= 1
    OBVIOUS
  <2> QED BY <2>2, <2>3
<1> QED BY <1>1, <1>2 DEF Value

(* The calls of the keeper that move funds move them between the buffer    *)
(* and registered children.                                                *)
LEMMA KeeperMoves ==
    ASSUME Typed,
           \/ \E c \in Children, n \in KeeperAmounts : DrainChild(c, n) \/ FundChild(c, n)
           \/ \E c \in Children : RebalanceStep(c)
           \/ Rebalance
    PROVE  /\ UNCHANGED allocatorVars
           /\ \E out, into :
                 /\ Available(out, token, position) /\ DOMAIN out \subseteq Registered
                 /\ ChildAmounts(into) /\ DOMAIN into \subseteq Registered
                 /\ \A c \in Registered : Amount(out, c) = 0 \/ Amount(into, c) = 0
                 /\ MoveFunds(token, position, out, into)
<1> DEFINE Moved(out, into) ==
               /\ Available(out, token, position) /\ DOMAIN out \subseteq Registered
               /\ ChildAmounts(into) /\ DOMAIN into \subseteq Registered
               /\ \A c \in Registered : Amount(out, c) = 0 \/ Amount(into, c) = 0
               /\ MoveFunds(token, position, out, into)
<1>1. Registered \subseteq Leaves /\ Native \in Nat
  BY ChildrenType, AllocatorValueType DEF Typed
<1>2. Excess \in [Registered -> Nat] /\ Deficit \in [Registered -> Nat]
  BY ImbalanceType
<1>3. /\ Available(Nothing, token, position) /\ ChildAmounts(Nothing)
      /\ DOMAIN Nothing \subseteq Registered /\ \A c : Amount(Nothing, c) = 0
  BY NothingAvailable DEF Available, Nothing, Amount
<1>4. ASSUME NEW c \in Registered, NEW amount \in Int, NEW d \in Deliverable(c, amount),
             MoveFunds(token, position, Only(c, d), Nothing)
      PROVE  Moved(Only(c, d), Nothing)
  <2>1. Available(Only(c, d), token, position)
    BY <1>1, OnlyAvailable
  <2>2. DOMAIN Only(c, d) \subseteq Registered
    BY DEF Only
  <2> QED BY <1>3, <1>4, <2>1, <2>2
<1>5. ASSUME NEW c \in Registered, NEW n \in Nat, MoveFunds(token, position, Nothing, Only(c, n))
      PROVE  Moved(Nothing, Only(c, n))
  <2>1. ChildAmounts(Only(c, n)) /\ DOMAIN Only(c, n) \subseteq Registered
    BY <1>1, OnlyAmounts DEF Only
  <2> QED BY <1>3, <1>5, <2>1
<1> DEFINE Goal == UNCHANGED allocatorVars /\ \E out, into : Moved(out, into)
<1>6. ASSUME NEW c \in Children, NEW n \in KeeperAmounts, DrainChild(c, n) PROVE Goal
  <2>1. n \in Int /\ c \in Registered
    BY <1>6, AllocatorConstants DEF DrainChild
  <2>2. PICK d \in Deliverable(c, n) : MoveFunds(token, position, Only(c, d), Nothing)
    BY <1>6 DEF DrainChild
  <2>3. Moved(Only(c, d), Nothing)
    BY <1>4, <2>1, <2>2
  <2> QED BY <1>6, <2>3 DEF DrainChild
<1>7. ASSUME NEW c \in Children, NEW n \in KeeperAmounts, FundChild(c, n) PROVE Goal
  <2>1. n \in Nat /\ c \in Registered /\ MoveFunds(token, position, Nothing, Only(c, n))
    BY <1>7, AllocatorConstants DEF FundChild
  <2>2. Moved(Nothing, Only(c, n))
    BY <1>5, <2>1
  <2> QED BY <1>7, <2>2 DEF FundChild
<1>8. ASSUME NEW c \in Children, RebalanceStep(c) PROVE Goal
  <2> DEFINE fund == IF Deficit[c] > Native THEN Native ELSE Deficit[c]
  <2>1. c \in Registered /\ Excess[c] \in Int /\ fund \in Nat
    BY <1>1, <1>2, <1>8 DEF RebalanceStep
  <2>2. ASSUME NEW d \in Deliverable(c, Excess[c]), MoveFunds(token, position, Only(c, d), Nothing)
        PROVE  Goal
    <3>1. Moved(Only(c, d), Nothing)
      BY <1>4, <2>1, <2>2
    <3> QED BY <1>8, <3>1 DEF RebalanceStep
  <2>3. ASSUME MoveFunds(token, position, Nothing, Only(c, fund)) PROVE Goal
    <3>1. Moved(Nothing, Only(c, fund))
      <4> HIDE DEF fund
      <4> QED BY <1>5, <2>1, <2>3
    <3> QED BY <1>8, <3>1 DEF RebalanceStep
  <2> QED BY <1>8, <2>2, <2>3 DEF RebalanceStep
<1>9. ASSUME Rebalance PROVE Goal
  <2>1. PICK out \in Deliveries(Excess) : MoveFunds(token, position, out, Deficit)
    BY <1>9 DEF Rebalance
  <2>2. Available(out, token, position)
    BY <1>1, <1>2, DeliveriesAvailable DEF Typed
  <2>3. DOMAIN out \subseteq Registered /\ ChildAmounts(Deficit) /\ DOMAIN Deficit \subseteq Registered
    BY <1>1, <1>2 DEF ChildAmounts, Deliveries
  <2>4. \A c \in Registered : Amount(out, c) = 0 \/ Amount(Deficit, c) = 0
    <3> TAKE c \in Registered
    <3>1. /\ c \in DOMAIN out /\ c \in DOMAIN Excess /\ c \in DOMAIN Deficit
          /\ ChildValue(c) \in Nat /\ Target(c) \in Nat
      BY <1>1, <1>2, <2>1, ChildValueType, TargetType DEF Deliveries
    <3>2. Excess[c] = 0 => out[c] = 0
      BY <2>1, <3>1 DEF Deliveries
    <3>3. Excess[c] = 0 \/ Deficit[c] = 0
      BY <3>1 DEF Excess, Deficit
    <3> QED BY <3>1, <3>2, <3>3 DEF Amount
  <2>5. Moved(out, Deficit)
    BY <2>1, <2>2, <2>3, <2>4
  <2> QED BY <1>9, <2>5 DEF Rebalance
<1> QED BY <1>6, <1>7, <1>8, <1>9

(* Funds that move leave the children outside of the basket alone.         *)
LEMMA MovesKeepOutside ==
    ASSUME Typed, EmptyOutside, NEW tok, NEW pos \in [Leaves -> Nat],
           \A c \in Children : pos[c] = position[c],
           NEW out, DOMAIN out \subseteq Registered, NEW into, DOMAIN into \subseteq Registered,
           MoveFunds(tok, pos, out, into), UNCHANGED slots
    PROVE  EmptyOutside'
<1>1. ASSUME NEW c \in Children, c \notin Registered PROVE position'[c] = position[c]
  <2>1. c \in Leaves /\ Amount(out, c) = 0 /\ Amount(into, c) = 0
    BY <1>1, AllocatorConstants DEF Amount
  <2> QED BY <2>1, MoveFundsLeaves DEF Typed
<1> QED BY <1>1 DEF EmptyOutside, Registered

(* The admin takes a child out of the basket only when it is empty, or by  *)
(* force; a child that does not answer is not taken for empty.             *)
LEMMA AdminKeepsOutside ==
    ASSUME Typed, EmptyOutside, AuthoritativeIn(Fragile \ Evictable), AdminStep
    PROVE  EmptyOutside'
<1>1. CASE UNCHANGED <<slots, position>>
  BY <1>1 DEF EmptyOutside, Registered
<1>2. ASSUME NEW c \in Children, NEW a \in Authorities, AddChild(c, a) PROVE EmptyOutside'
  BY <1>2 DEF AddChild, EmptyOutside, Registered, strategyVars
<1>3. ASSUME NEW c \in Children, RemoveChild(c) PROVE EmptyOutside'
  <2>1. c \in Evictable \/ position[c] = 0
    <3>1. c \in Leaves
      BY AllocatorConstants
    <3>2. c \notin Evictable => c \notin wedged
      BY <1>3 DEF RemoveChild, AuthoritativeIn, Typed, AllocatorTypeOK
    <3> QED BY <1>3, <3>1, <3>2, WorthNothing DEF RemoveChild, ChildValue, Typed
  <2> QED BY <1>3, <2>1 DEF RemoveChild, Evict, EmptyOutside, Registered, strategyVars
<1>4. ASSUME NEW c \in Evictable, ForceRemoveChild(c) PROVE EmptyOutside'
  BY <1>4 DEF ForceRemoveChild, Evict, EmptyOutside, Registered, strategyVars
<1>5. ASSUME \/ \E c \in Children, n \in KeeperAmounts : DrainChild(c, n) \/ FundChild(c, n)
             \/ \E c \in Children : RebalanceStep(c)
             \/ Rebalance
      PROVE  EmptyOutside'
  <2>1. UNCHANGED slots
    BY <1>5, KeeperMoves DEF allocatorVars
  <2>2. PICK out, into : /\ DOMAIN out \subseteq Registered /\ DOMAIN into \subseteq Registered
                         /\ MoveFunds(token, position, out, into)
    BY <1>5, KeeperMoves
  <2> QED BY <2>1, <2>2, MovesKeepOutside DEF Typed, StrategiesTypeOK
<1>6. ASSUME (\E b \in BOOLEAN : SetPaused(b)) \/ \E o \in WeightOrders : SetTargetWeights(o)
      PROVE  EmptyOutside'
  BY <1>6 DEF SetPaused, SetTargetWeights, EmptyOutside, Registered, strategyVars
<1> QED BY <1>2, <1>3, <1>4, <1>5, <1>6 DEF AdminStep

(* What the allocator reports depends on the basket's children, on what    *)
(* they hold and on the buffer.                                            *)
LEMMA SameValue ==
    ASSUME Registered' = Registered, \A c \in Registered : ChildValue(c)' = ChildValue(c),
           Native' = Native
    PROVE  AllocatorValue' = AllocatorValue
<1>1. ChildValues' = ChildValues
  BY DEF ChildValues
<1> QED BY <1>1 DEF AllocatorValue

(* Where neither a child's holdings nor the buffer shrink, neither does    *)
(* the value.                                                              *)
LEMMA ValueGrows ==
    ASSUME Typed, Typed', Registered' = Registered, Native' >= Native,
           \A c \in Registered : ChildValue(c)' >= ChildValue(c)
    PROVE  AllocatorValue' >= AllocatorValue
<1>1. /\ IsFiniteSet(Registered) /\ Native \in Nat /\ Native' \in Nat
      /\ \A c \in Registered : ChildValue(c) \in Nat /\ ChildValue(c)' \in Nat
  <2>1. Registered \subseteq Leaves /\ IsFiniteSet(Registered) /\ Native \in Nat
    BY ChildrenType, AllocatorValueType DEF Typed
  <2>2. Native' \in Nat
    BY AddressesFinite DEF Typed, StrategiesTypeOK, Native, Holders
  <2>3. \A c \in Leaves : ChildValue(c)' \in Nat
    BY ChildValueTypeNext DEF Typed
  <2> QED BY <2>1, <2>2, <2>3, ChildValueType
<1>2. Total(ChildValues, Registered) <= Total(ChildValues', Registered)
  <2>1. \A c \in Registered : /\ ChildValues[c] \in Nat /\ ChildValues'[c] \in Nat
                              /\ ChildValues[c] <= ChildValues'[c]
    BY <1>1 DEF ChildValues
  <2> QED BY <1>1, <2>1, TotalLess
<1>3. Total(ChildValues, Registered) \in Nat /\ Total(ChildValues', Registered) \in Nat
  <2>1. \A c \in Registered : ChildValues[c] \in Nat /\ ChildValues'[c] \in Nat
    BY <1>1 DEF ChildValues
  <2> QED BY <1>1, <2>1, TotalType
<1> QED BY <1>1, <1>2, <1>3 DEF AllocatorValue

\* A call that leaves the strategies alone leaves a child's value alone.
LEMMA SameChild ==
    ASSUME NEW c, UNCHANGED <<strategyVars, wedged>>
    PROVE  ChildValue(c)' = ChildValue(c)
BY DEF ChildValue, Value, strategyVars

(* A child that is added brings what it holds.                             *)
LEMMA AddedValue ==
    ASSUME Typed, NEW c \in Children, NEW a \in Authorities, AddChild(c, a)
    PROVE  AllocatorValue' = AllocatorValue + ChildValue(c)
<1>1. /\ Registered \subseteq Leaves /\ IsFiniteSet(Registered) /\ Native \in Nat
      /\ \A d \in Registered : ChildValues[d] \in Nat
      /\ ChildValue(c) \in Nat
  BY ChildrenType, ChildValueType, AllocatorValueType, AllocatorConstants DEF Typed, ChildValues
<1>2. /\ c \notin Registered /\ Registered' = Registered \union {c}
      /\ UNCHANGED <<strategyVars, wedged>>
  BY DEF AddChild, Registered
<1>3. /\ ChildValues'[c] = ChildValue(c)
      /\ \A d \in Registered : ChildValues'[d] = ChildValues[d]
  <2>1. \A d \in Registered' : ChildValues'[d] = ChildValue(d)' /\ ChildValue(d)' = ChildValue(d)
    BY <1>2, SameChild DEF ChildValues
  <2> QED BY <1>2, <2>1 DEF ChildValues
<1>4. Total(ChildValues', Registered \union {c}) = Total(ChildValues, Registered) + ChildValue(c)
  <2>1. ChildValues'[c] \in Nat
    BY <1>1, <1>3
  <2>2. Total(ChildValues', Registered \union {c}) = Total(ChildValues, Registered) + ChildValues'[c]
    <3>1. IsFiniteSet(Registered) /\ c \notin Registered
      BY <1>1, <1>2
    <3>2. \A d \in Registered : ChildValues[d] \in Nat
      BY <1>1
    <3>3. \A d \in Registered : ChildValues'[d] = ChildValues[d]
      BY <1>3
    <3> QED BY <2>1, <3>1, <3>2, <3>3, TotalAdd
  <2> QED BY <1>3, <2>2
<1>5. Total(ChildValues, Registered) \in Nat /\ Native' = Native
  BY <1>1, <1>2, TotalType DEF Native, strategyVars
<1> QED BY <1>1, <1>2, <1>4, <1>5 DEF AllocatorValue

(* A child that leaves takes what it is reported to hold with it.          *)
LEMMA EvictedValue ==
    ASSUME Typed, NEW c \in Registered, Evict(c)
    PROVE  AllocatorValue' = AllocatorValue - ChildValue(c)
<1>1. /\ Registered \subseteq Leaves /\ IsFiniteSet(Registered) /\ Native \in Nat
      /\ \A d \in Registered : ChildValues[d] \in Nat /\ ChildValues[d] = ChildValue(d)
  BY ChildrenType, ChildValueType, AllocatorValueType DEF Typed, ChildValues
<1>2. Registered' = Registered \ {c} /\ UNCHANGED <<strategyVars, wedged>>
  BY DEF Evict, Registered
<1>3. \A d \in Registered \ {c} : ChildValues'[d] = ChildValues[d]
  <2> TAKE d \in Registered \ {c}
  <2>1. ChildValue(d)' = ChildValue(d)
    BY <1>2, SameChild
  <2>2. ChildValues'[d] = ChildValue(d)' /\ ChildValues[d] = ChildValue(d)
    BY <1>2 DEF ChildValues
  <2> QED BY <2>1, <2>2
<1>4. Total(ChildValues', Registered \ {c}) = Total(ChildValues, Registered \ {c})
  BY <1>3, TotalSame
<1>5. Total(ChildValues, Registered) = Total(ChildValues, Registered \ {c}) + ChildValues[c]
      /\ Total(ChildValues, Registered \ {c}) \in Nat
  BY <1>1, TotalSplit
<1>6. Native' = Native
  BY <1>2 DEF Native, strategyVars
<1> QED BY <1>1, <1>2, <1>4, <1>5, <1>6 DEF AllocatorValue

(* Pauses and weights do not count.                                        *)
LEMMA SettingsKeepValue ==
    ASSUME (\E b \in BOOLEAN : SetPaused(b)) \/ \E o \in WeightOrders : SetTargetWeights(o)
    PROVE  AllocatorValue' = AllocatorValue
<1>1. Registered' = Registered /\ UNCHANGED <<strategyVars, wedged>>
  BY DEF SetPaused, SetTargetWeights, Registered
<1>2. Native' = Native
  BY <1>1 DEF strategyVars, Native
<1> QED BY <1>1, <1>2, SameChild, SameValue

(* Nor does it count where between the buffer and the mocks the funds are. *)
LEMMA MovesKeepValue ==
    ASSUME Typed, Children \subseteq MockStrategies,
           \/ \E c \in Children, n \in KeeperAmounts : DrainChild(c, n) \/ FundChild(c, n)
           \/ \E c \in Children : RebalanceStep(c)
           \/ Rebalance
    PROVE  AllocatorValue' = AllocatorValue
<1>1. UNCHANGED <<slots, wedged>>
  BY KeeperMoves DEF allocatorVars
<1>2. PICK out, into : /\ Available(out, token, position) /\ DOMAIN out \subseteq Registered
                       /\ ChildAmounts(into) /\ DOMAIN into \subseteq Registered
                       /\ MoveFunds(token, position, out, into)
  BY KeeperMoves
<1>3. token \in [Holders -> Nat] /\ position \in [Leaves -> Nat] /\ Registered \subseteq MockStrategies
  BY ChildrenType DEF Typed, StrategiesTypeOK
<1>4. AllocatorValue' = AllocatorValue - Native + token[Allocator]
  BY <1>1, <1>2, <1>3, MoveFundsKeepsValue
<1>5. AllocatorValue \in Nat /\ Native \in Nat
  BY AllocatorValueType
<1> QED BY <1>4, <1>5 DEF Native

(* No operation of the admin, and no child that starts or stops trapping   *)
(* elsewhere, changes what the allocator reports.                          *)
LEMMA KeeperKeepsValue ==
    ASSUME Typed, EmptyOutside, AuthoritativeIn(Children), Children \subseteq MockStrategies,
           Readable, Readable', AdminStep \/ ChildTrouble,
           ~ \E c \in Evictable :
               ForceRemoveChild(c) \/ \E a \in Authorities : AddChild(c, a)
    PROVE  AllocatorValue' = AllocatorValue
<1>1. Registered \subseteq Children /\ AllocatorValue \in Nat
  BY ChildrenType, AllocatorValueType DEF Typed
<1>2. ASSUME NEW c \in Children, NEW a \in Authorities, AddChild(c, a)
      PROVE  AllocatorValue' = AllocatorValue
  <2>1. c \notin Registered /\ c \notin Evictable /\ c \in MockStrategies
    BY <1>2 DEF AddChild
  <2>2. ChildValue(c) = 0
    BY <2>1 DEF EmptyOutside, ChildValue, Value
  <2> QED BY <1>1, <1>2, <2>2, AddedValue
<1>3. ASSUME NEW c \in Children, RemoveChild(c) PROVE AllocatorValue' = AllocatorValue
  <2>1. AllocatorValue' = AllocatorValue - 0
    BY <1>3, EvictedValue DEF RemoveChild
  <2> QED BY <1>1, <2>1
<1>4. ASSUME ChildTrouble PROVE AllocatorValue' = AllocatorValue
  <2>1. UNCHANGED <<slots, strategyVars>> /\ Registered' = Registered /\ Native' = Native
    BY <1>4 DEF ChildTrouble, Wedge, Recover, Registered, Native, strategyVars
  <2>2. Registered \intersect wedged = {} /\ Registered \intersect wedged' = {}
    BY <1>1, <2>1 DEF Readable, AuthoritativeIn
  <2>3. \A c \in Registered : ChildValue(c)' = ChildValue(c)
    BY <2>1, <2>2 DEF ChildValue, Value, strategyVars
  <2> QED BY <2>1, <2>3, SameValue
<1> QED BY <1>2, <1>3, <1>4, SettingsKeepValue, MovesKeepValue DEF AdminStep

(* Blend children cost what they round.                                    *)
LEMMA MovesLose ==
    ASSUME Typed,
           \/ \E c \in Children, n \in KeeperAmounts : DrainChild(c, n) \/ FundChild(c, n)
           \/ \E c \in Children : RebalanceStep(c)
           \/ Rebalance
    PROVE  AllocatorValue' + AllocatorLoss' >= AllocatorValue
<1>1. UNCHANGED <<slots, wedged>>
  BY KeeperMoves DEF allocatorVars
<1>2. PICK out, into : /\ Available(out, token, position) /\ DOMAIN out \subseteq Registered
                       /\ ChildAmounts(into) /\ DOMAIN into \subseteq Registered
                       /\ \A c \in Registered : Amount(out, c) = 0 \/ Amount(into, c) = 0
                       /\ MoveFunds(token, position, out, into)
  BY KeeperMoves
<1>3. token \in [Holders -> Nat] /\ position \in [Leaves -> Nat]
  BY DEF Typed, StrategiesTypeOK
<1>4. AllocatorValue' + AllocatorLoss >= AllocatorValue - Native + token[Allocator]
  BY <1>1, <1>2, <1>3, MoveFundsLoses
<1>5. AllocatorValue \in Nat /\ Native \in Nat
  BY AllocatorValueType
<1>6. AllocatorLoss' = AllocatorLoss
  BY <1>1, <1>2 DEF MoveFunds, AllocatorLoss, BTokenWorth, Registered
<1>7. AllocatorValue - Native + token[Allocator] = AllocatorValue
  BY <1>5 DEF Native
<1> QED BY <1>4, <1>6, <1>7

LEMMA AllocatorTypesNext ==
    Typed' => (AllocatorLoss \in Nat /\ AllocatorValue \in Nat)'
<1>1. Typed => AllocatorLoss \in Nat /\ AllocatorValue \in Nat
  BY AllocatorLossType, AllocatorValueType
<1> QED BY <1>1, PTL

(* Beyond that, only a child that is forced out, or that starts to trap,   *)
(* lowers it.                                                              *)
LEMMA AdminLoses ==
    ASSUME Typed, Typed', AdminStep \/ ChildTrouble
    PROVE  \/ AllocatorValue' + AllocatorLoss' >= AllocatorValue
           \/ \E c \in Evictable : ForceRemoveChild(c)
           \/ \E c \in Fragile : Wedge(c)
<1> DEFINE Whole == AllocatorValue' >= AllocatorValue
<1>1. /\ Registered \subseteq Children /\ AllocatorValue \in Nat
      /\ \A c \in Children : ChildValue(c) \in Nat
  BY ChildrenType, ChildValueType, AllocatorValueType, AllocatorConstants DEF Typed
<1>2. ASSUME NEW c \in Children, NEW a \in Authorities, AddChild(c, a) PROVE Whole
  BY <1>1, <1>2, AddedValue
<1>3. ASSUME NEW c \in Children, RemoveChild(c) PROVE Whole
  <2>1. AllocatorValue' = AllocatorValue - 0
    BY <1>3, EvictedValue DEF RemoveChild
  <2> QED BY <1>1, <2>1
<1>4. ASSUME NEW c \in Children, Recover(c) PROVE Whole
  <2>1. UNCHANGED <<slots, strategyVars>> /\ Registered' = Registered /\ Native' = Native
    BY <1>4 DEF Recover, Registered, Native, strategyVars
  <2>2. \A d \in Registered : ChildValue(d)' >= ChildValue(d)
    <3> TAKE d \in Registered
    <3>1. Value(d)' = Value(d) /\ Value(d) \in Nat
      BY <1>1, <2>1, ValueType, AllocatorConstants DEF Value, strategyVars, Typed
    <3> QED BY <1>4, <3>1 DEF Recover, ChildValue
  <2>3. Native' >= Native
    BY <2>1, AllocatorValueType
  <2> QED BY <2>1, <2>2, <2>3, ValueGrows
<1>5. AllocatorValue' = AllocatorValue => Whole
  BY <1>1
<1>6. Whole => AllocatorValue' + AllocatorLoss' >= AllocatorValue
  <2>1. \A x, y, z \in Nat : y >= x => y + z >= x
    OBVIOUS
  <2>2. AllocatorLoss' \in Nat /\ AllocatorValue' \in Nat
    BY AllocatorTypesNext
  <2> QED BY <1>1, <2>1, <2>2, Zenon
<1> HIDE DEF Whole
<1> QED BY <1>2, <1>3, <1>4, <1>5, <1>6, SettingsKeepValue, MovesLose, AllocatorConstants
        DEF AdminStep, ChildTrouble, Wedge

(* Strategies that are no children are beyond the admin's reach.           *)
LEMMA AdminLeavesOthers ==
    ASSUME Typed, AdminStep \/ ChildTrouble, NEW s \in Leaves \ Children
    PROVE  position'[s] = position[s] /\ bRate' = bRate
<1>1. CASE UNCHANGED strategyVars
  BY <1>1 DEF strategyVars
<1>2. CASE \/ \E c \in Children, n \in KeeperAmounts : DrainChild(c, n) \/ FundChild(c, n)
           \/ \E c \in Children : RebalanceStep(c)
           \/ Rebalance
  <2>1. PICK out, into : /\ DOMAIN out \subseteq Registered /\ DOMAIN into \subseteq Registered
                         /\ MoveFunds(token, position, out, into)
    BY <1>2, KeeperMoves
  <2>2. Amount(out, s) = 0 /\ Amount(into, s) = 0
    BY <2>1, ChildrenType DEF Amount, Typed
  <2> QED BY <2>1, <2>2, MoveFundsLeaves DEF Typed, StrategiesTypeOK, MoveFunds
<1> QED BY <1>1, <1>2 DEF AdminStep, ChildTrouble, Wedge, Recover, AddChild, RemoveChild,
        ForceRemoveChild, Evict, SetPaused, SetTargetWeights

(* With neither a buffer nor holdings there is nothing for the keeper to   *)
(* move.                                                                   *)
LEMMA KeeperMovesNothing ==
    ASSUME Typed, Native = 0, \A c \in Registered : position[c] = 0,
           \/ \E c \in Children, n \in KeeperAmounts : DrainChild(c, n) \/ FundChild(c, n)
           \/ \E c \in Children : RebalanceStep(c)
           \/ Rebalance
    PROVE  Native' = 0 /\ \A s \in Leaves : position'[s] = position[s]
<1>1. /\ Registered \subseteq Leaves /\ IsFiniteSet(Registered)
      /\ Excess \in [Registered -> Nat] /\ Deficit \in [Registered -> Nat]
      /\ KeeperAmounts \subseteq Nat \ {0} /\ position \in [Leaves -> Nat]
  BY ChildrenType, ImbalanceType, AllocatorConstants DEF Typed, StrategiesTypeOK
<1>2. ASSUME NEW c \in Registered, NEW n \in Int PROVE Deliverable(c, n) = {}
  <2>1. CASE c \in MockStrategies
    BY <2>1 DEF Deliverable
  <2>2. CASE c \notin MockStrategies
    <3>1. \A r \in Nat, d \in Nat \ {0} : (0 * r) \div d = 0
      OBVIOUS
    <3>2. Value(c) = 0
      BY <2>2, <3>1, RateType DEF Value, Typed
    <3> QED BY <2>2, <3>2 DEF Deliverable
  <2> QED BY <2>1, <2>2
<1>3. ASSUME NEW c \in Children, NEW n \in KeeperAmounts, DrainChild(c, n) PROVE FALSE
  BY <1>1, <1>2, <1>3 DEF DrainChild
<1>4. ASSUME NEW c \in Children, NEW n \in KeeperAmounts, FundChild(c, n) PROVE FALSE
  BY <1>1, <1>4 DEF FundChild
<1>5. ASSUME NEW c \in Children, RebalanceStep(c) PROVE FALSE
  <2>1. c \in Registered /\ Excess[c] \in Int /\ Deficit[c] \in Nat
    BY <1>1, <1>5 DEF RebalanceStep
  <2> QED BY <1>2, <1>5, <2>1 DEF RebalanceStep
<1>6. CASE Rebalance
  <2>1. PICK out \in Deliveries(Excess) : MoveFunds(token, position, out, Deficit)
    BY <1>6 DEF Rebalance
  <2>2. DOMAIN out = Registered /\ DOMAIN Deficit = Registered
    BY <1>1 DEF Deliveries
  <2>3. \A c \in Registered : out[c] = 0
    <3> TAKE c \in Registered
    <3>1. Excess[c] \in Int /\ DOMAIN Excess = Registered
      BY <1>1
    <3> QED BY <1>2, <3>1 DEF Deliveries
  <2>4. Total(out, DOMAIN out) = 0
    BY <2>2, <2>3, TotalZero
  <2>5. \A c \in Registered : Deficit[c] = 0
    <3> TAKE c \in Registered
    <3>1. Deficit[c] <= Total(Deficit, Registered) /\ Total(Deficit, Registered) \in Nat
      BY <1>1, TotalCovers, TotalType
    <3>2. Total(Deficit, Registered) <= 0
      BY <2>1, <2>2, <2>4 DEF MoveFunds, Native
    <3> QED BY <1>1, <3>1, <3>2
  <2>6. Total(Deficit, DOMAIN Deficit) = 0
    BY <2>2, <2>5, TotalZero
  <2>7. Native' = 0
    <3>1. Allocator \in Holders
      BY DEF Holders
    <3> QED BY <2>1, <2>4, <2>6, <3>1 DEF MoveFunds, TokensMoved, Native
  <2>8. ASSUME NEW s \in Leaves PROVE position'[s] = position[s]
    <3>1. Amount(out, s) = 0 /\ Amount(Deficit, s) = 0
      BY <2>2, <2>3, <2>5 DEF Amount
    <3> QED BY <1>1, <2>1, <3>1, MoveFundsLeaves DEF Typed
  <2> QED BY <2>7, <2>8
<1> QED BY <1>3, <1>4, <1>5, <1>6

(* A buffer that is worth the whole allocator leaves nothing elsewhere,    *)
(* unless a child is read as empty because it does not answer.             *)
LEMMA BufferIsAll ==
    ASSUME Typed, EmptyOutside, AuthoritativeIn(Fragile), Evictable = {}, Readable,
           AllocatorValue <= Native
    PROVE  AllocatorValue = Native /\ \A c \in Children : position[c] = 0
<1>1. /\ Registered \subseteq Children /\ Children \subseteq Leaves /\ IsFiniteSet(Registered)
      /\ Native \in Nat /\ Registered \intersect wedged = {}
  BY ChildrenType, AllocatorValueType, AllocatorConstants
     DEF Typed, AllocatorTypeOK, Readable, AuthoritativeIn
<1>2. \A c \in Registered : ChildValues[c] \in Nat /\ ChildValues[c] = Value(c)
  BY <1>1, ValueType DEF ChildValues, ChildValue, Typed
<1>3. Total(ChildValues, Registered) \in Nat
  BY <1>1, <1>2, TotalType
<1>4. Total(ChildValues, Registered) = 0 /\ AllocatorValue = Native
  BY <1>1, <1>3 DEF AllocatorValue
<1>5. ASSUME NEW c \in Registered PROVE position[c] = 0
  <2>1. Value(c) <= 0 /\ Value(c) \in Nat
    BY <1>1, <1>2, <1>4, TotalCovers
  <2> QED BY <1>1, <2>1, WorthNothing DEF Typed
<1> QED BY <1>4, <1>5 DEF EmptyOutside

-------------------------------------------------------------------------------
(* Weights and targets *)

Weights == [c \in Registered |-> slots[c].weight]
WeightsTotal == nativeBps + Total(Weights, Registered)

(* Never more than the whole is targeted.                                  *)
WeightsWithin == WeightsTotal <= BPS_DENOM

(* The types of the weights.                                               *)
LEMMA WeightsType ==
    ASSUME Typed
    PROVE  /\ IsFiniteSet(Registered) /\ Registered \subseteq Leaves /\ Registered \subseteq Children
           /\ \A c \in Registered : slots[c].weight \in Nat /\ Weights[c] = slots[c].weight
           /\ Total(Weights, Registered) \in Nat /\ nativeBps \in Nat /\ BPS_DENOM \in Nat \ {0}
<1>1. /\ IsFiniteSet(Registered) /\ Registered \subseteq Leaves /\ Registered \subseteq Children
      /\ slots \in [Registered -> Slot]
  BY ChildrenType DEF Typed
<1>2. \A c \in Registered : slots[c].weight \in Nat /\ Weights[c] = slots[c].weight
  BY <1>1, AllocatorConstants DEF Slot, Weights
<1>3. Total(Weights, Registered) \in Nat
  BY <1>1, <1>2, TotalType
<1> QED BY <1>1, <1>2, <1>3, AllocatorConstants DEF Typed, AllocatorTypeOK

(* The constructor's weights are the whole (WeightsSumInvalid).            *)
LEMMA InitWeights == AllocatorInit => WeightsTotal = BPS_DENOM
BY DEF AllocatorInit, WeightsTotal, Weights, Registered

Targets == [c \in Registered |-> Target(c)]

(* The targets are within what the allocator has: each is rounded down.    *)
LEMMA TargetsWithin ==
    ASSUME Typed, WeightsWithin
    PROVE  Total(Targets, Registered) <= AllocatorValue
<1> DEFINE A == AllocatorValue
           T == Total(Targets, Registered)
           W == Total(Weights, Registered)
<1>1. A \in Nat /\ W \in Nat /\ BPS_DENOM \in Nat \ {0} /\ W <= BPS_DENOM
  BY AllocatorValueType, WeightsType DEF WeightsWithin, WeightsTotal
<1>2. ASSUME NEW c \in Registered
      PROVE  Targets[c] \in Nat /\ Weights[c] \in Nat /\ Targets[c] * BPS_DENOM <= Weights[c] * A
  <2>1. Weights[c] \in Nat /\ Weights[c] = slots[c].weight
    BY WeightsType
  <2>2. Targets[c] \in Nat /\ Targets[c] = (A * Weights[c]) \div BPS_DENOM
    BY <2>1, TargetType DEF Targets, Target
  <2> HIDE DEF A
  <2>3. A * Weights[c] \in Nat
    BY <1>1, <2>1, ProductType
  <2>4. \A n \in Nat, d \in Nat \ {0} : (n \div d) * d <= n
    OBVIOUS
  <2>5. (A * Weights[c]) = Weights[c] * A
    BY <1>1, <2>1
  <2> QED BY <1>1, <2>1, <2>2, <2>3, <2>4, <2>5
<1>3. T * BPS_DENOM <= W * A
  <2>1. IsFiniteSet(Registered)
    BY WeightsType
  <2> HIDE DEF A
  <2> QED BY <1>1, <1>2, <2>1, TotalScaled
<1>4. T \in Nat
  BY <1>2, WeightsType, TotalType
<1> HIDE DEF A, T, W
<1>5. \A a, t, w \in Nat, d \in Nat \ {0} : t * d <= w * a /\ w <= d => t <= a
  <2> TAKE a, t, w \in Nat, d \in Nat \ {0}
  <2> HAVE t * d <= w * a /\ w <= d
  <2>1. w * a <= d * a
    OBVIOUS
  <2>2. t * d <= a * d
    BY <2>1
  <2> QED BY <2>2
<1> QED BY <1>1, <1>3, <1>4, <1>5 DEF A, T

(* What the children lack is in the buffer and in what others have too     *)
(* much.                                                                   *)
LEMMA DeficitsCovered ==
    ASSUME Typed, WeightsWithin
    PROVE  Total(Deficit, Registered) <= Native + Total(Excess, Registered)
<1> DEFINE R == Registered
           after == [c \in R |-> Deficit[c] + ChildValues[c]]
<1>1. IsFiniteSet(R) /\ R \subseteq Leaves
  BY WeightsType
<1>2. ASSUME NEW c \in R
      PROVE  /\ Deficit[c] \in Nat /\ Excess[c] \in Nat
             /\ ChildValues[c] \in Nat /\ Targets[c] \in Nat
             /\ after[c] = Targets[c] + Excess[c]
  <2>1. ChildValue(c) \in Nat /\ Target(c) \in Nat
    BY <1>1, ChildValueType, TargetType
  <2> QED BY <2>1 DEF Deficit, Excess, ChildValues, Targets
<1>3. Total(after, R) = Total(Deficit, R) + Total(ChildValues, R)
  <2>1. \A c \in R : after[c] = Deficit[c] + ChildValues[c]
    OBVIOUS
  <2> HIDE DEF after, R
  <2> QED BY <1>1, <1>2, <2>1, TotalPlus
<1>4. Total(after, R) = Total(Targets, R) + Total(Excess, R)
  <2> HIDE DEF after, R
  <2> QED BY <1>1, <1>2, TotalPlus
<1>5. /\ Total(Deficit, R) \in Nat /\ Total(Excess, R) \in Nat
      /\ Total(ChildValues, R) \in Nat /\ Total(Targets, R) \in Nat /\ Native \in Nat
  BY <1>1, <1>2, TotalType, AllocatorValueType
<1>6. Total(Targets, R) <= Total(ChildValues, R) + Native
  BY TargetsWithin DEF AllocatorValue
<1> HIDE DEF after
<1>7. Total(Deficit, R) <= Native + Total(Excess, R)
  BY <1>3, <1>4, <1>5, <1>6
<1> QED BY <1>7
=============================================================================
