----------------------------- MODULE TallyProofs -----------------------------
(***************************************************************************)
(* Facts about sums over finite sets of accounts.                          *)
(***************************************************************************)
EXTENDS Tally, FiniteSetTheorems, WellFoundedInduction, TLAPS

\* The units of one account.
UnitsOf(f, i) == {i} \X (1 .. f[i])

(* The units of finitely many accounts are finite, so a sum of naturals    *)
(* is a natural.                                                           *)
LEMMA TotalType ==
    ASSUME NEW S, IsFiniteSet(S), NEW f, \A i \in S : f[i] \in Nat
    PROVE  IsFiniteSet(Units(f, S)) /\ Total(f, S) \in Nat
<1> DEFINE Parts == {UnitsOf(f, i) : i \in S}
           part == [i \in S |-> UnitsOf(f, i)]
<1>1. part \in Surjection(S, Parts)
  BY DEF Surjection
<1>2. IsFiniteSet(Parts)
  BY <1>1, FS_Surjection
<1>3. ASSUME NEW i \in S PROVE IsFiniteSet(UnitsOf(f, i))
  <2>1. IsFiniteSet({i})
    BY FS_Singleton
  <2>2. IsFiniteSet(1 .. f[i])
    BY FS_Interval
  <2> QED BY <2>1, <2>2, FS_Product DEF UnitsOf
<1>4. IsFiniteSet(UNION Parts)
  BY <1>2, <1>3, FS_UNION
<1> QED BY <1>4, FS_CardinalityType DEF Units, Total, UnitsOf

(* A sum depends on the amounts of its accounts only. *)
LEMMA TotalSame ==
    ASSUME NEW S, NEW f, NEW g, \A i \in S : f[i] = g[i]
    PROVE  Total(f, S) = Total(g, S)
<1>1. \A i \in S : {i} \X (1 .. f[i]) = {i} \X (1 .. g[i])
  OBVIOUS
<1>2. Units(f, S) = Units(g, S)
  BY <1>1 DEF Units
<1> QED BY <1>2 DEF Total

(* The sum over no account. *)
LEMMA TotalNone == ASSUME NEW f PROVE Total(f, {}) = 0
<1>1. Units(f, {}) = {}
  BY DEF Units
<1> QED BY <1>1, FS_EmptySet DEF Total

(* The sum over empty accounts. *)
LEMMA TotalZero ==
    ASSUME NEW S, NEW f, \A i \in S : f[i] = 0
    PROVE  Total(f, S) = 0
<1>1. \A i \in S : {i} \X (1 .. f[i]) = {}
  OBVIOUS
<1>2. Units(f, S) = {}
  BY <1>1 DEF Units
<1> QED BY <1>2, FS_EmptySet DEF Total

(* One account can be split off a sum. *)
LEMMA TotalSplit ==
    ASSUME NEW S, IsFiniteSet(S), NEW c \in S, NEW f, \A i \in S : f[i] \in Nat
    PROVE  /\ Total(f, S) = Total(f, S \ {c}) + f[c]
           /\ Total(f, S \ {c}) \in Nat
           /\ IsFiniteSet(S \ {c})
<1> DEFINE R == S \ {c}
<1>1. IsFiniteSet(R)
  BY FS_RemoveElement
<1>2. IsFiniteSet(Units(f, R)) /\ Total(f, R) \in Nat
  BY <1>1, TotalType
<1>3. Units(f, S) = Units(f, R) \union UnitsOf(f, c)
  BY DEF Units, UnitsOf
<1>4. Units(f, R) \intersect UnitsOf(f, c) = {}
  BY DEF Units, UnitsOf
<1>5. IsFiniteSet(UnitsOf(f, c)) /\ Cardinality(UnitsOf(f, c)) = f[c]
  <2>1. IsFiniteSet({c}) /\ Cardinality({c}) = 1
    BY FS_Singleton
  <2>2. IsFiniteSet(1 .. f[c]) /\ Cardinality(1 .. f[c]) = f[c]
    BY FS_Interval
  <2>3. Cardinality(UnitsOf(f, c)) = 1 * f[c]
    BY <2>1, <2>2, FS_Product DEF UnitsOf
  <2> QED BY <2>1, <2>2, <2>3, FS_Product DEF UnitsOf
<1>6. Cardinality(Units(f, S)) = Cardinality(Units(f, R)) + f[c]
  <2> DEFINE A == Units(f, R)
             B == UnitsOf(f, c)
  <2>1. Cardinality(A \union B)
          = Cardinality(A) + Cardinality(B) - Cardinality(A \intersect B)
    <3> HIDE DEF A, B
    <3> QED BY <1>2, <1>5, FS_Union DEF A, B
  <2>2. Cardinality(A \intersect B) = 0
    BY <1>4, FS_EmptySet
  <2>3. Cardinality(A) \in Nat
    BY <1>2 DEF Total
  <2> HIDE DEF A, B
  <2> QED BY <1>3, <1>5, <2>1, <2>2, <2>3 DEF A, B
<1> QED BY <1>1, <1>2, <1>6 DEF Total

(* No account holds more than the sum. *)
LEMMA TotalCovers ==
    ASSUME NEW S, IsFiniteSet(S), NEW c \in S, NEW f, \A i \in S : f[i] \in Nat
    PROVE  f[c] <= Total(f, S)
<1>1. Total(f, S) = Total(f, S \ {c}) + f[c] /\ Total(f, S \ {c}) \in Nat
  BY TotalSplit
<1>2. f[c] \in Nat
  OBVIOUS
<1> QED BY <1>1, <1>2

(* The sum after one account has changed. *)
LEMMA TotalUpdate ==
    ASSUME NEW S, IsFiniteSet(S), NEW c \in S,
           NEW f, \A i \in S : f[i] \in Nat,
           NEW g, \A i \in S : g[i] \in Nat,
           \A i \in S \ {c} : g[i] = f[i]
    PROVE  Total(g, S) = Total(f, S) - f[c] + g[c]
<1>1. Total(f, S \ {c}) = Total(g, S \ {c})
  BY TotalSame
<1>2. Total(f, S) = Total(f, S \ {c}) + f[c] /\ Total(f, S \ {c}) \in Nat
  BY TotalSplit
<1>3. Total(g, S) = Total(g, S \ {c}) + g[c]
  BY TotalSplit
<1> QED BY <1>1, <1>2, <1>3

(* The sum after an account has been added. *)
LEMMA TotalAdd ==
    ASSUME NEW S, IsFiniteSet(S), NEW c, c \notin S,
           NEW f, \A i \in S : f[i] \in Nat,
           NEW g, \A i \in S : g[i] = f[i], g[c] \in Nat
    PROVE  Total(g, S \union {c}) = Total(f, S) + g[c]
<1> DEFINE T == S \union {c}
<1>1. IsFiniteSet(T) /\ T \ {c} = S
  BY FS_AddElement
<1>2. \A i \in T : g[i] \in Nat
  OBVIOUS
<1>3. Total(g, T) = Total(g, T \ {c}) + g[c]
  BY <1>1, <1>2, TotalSplit
<1>4. Total(g, S) = Total(f, S)
  BY TotalSame
<1> QED BY <1>1, <1>3, <1>4

(* Amounts in proportion sum up in proportion: were there a set of         *)
(* accounts for which they did not, a smallest one would have an account   *)
(* to leave out.                                                           *)
LEMMA TotalScaled ==
    ASSUME NEW S, IsFiniteSet(S), NEW m \in Nat, NEW k \in Nat,
           NEW f, \A i \in S : f[i] \in Nat,
           NEW g, \A i \in S : g[i] \in Nat,
           \A i \in S : f[i] * m <= g[i] * k
    PROVE  Total(f, S) * m <= Total(g, S) * k
<1> DEFINE Good(T) == Total(f, T) * m <= Total(g, T) * k
           bad == {T \in SUBSET S : ~Good(T)}
<1> SUFFICES ASSUME bad # {} PROVE FALSE
  OBVIOUS
<1>1. bad \subseteq FiniteSubsetsOf(S)
  BY FS_FiniteSubsetsOfFinite
<1>2. PICK T \in bad : \A R \in bad : ~(<<R, T>> \in StrictSubsetOrdering(S))
  <2> HIDE DEF bad
  <2> QED BY <1>1, FS_StrictSubsetOrderingWellFounded, WFMin
<1>3. T \subseteq S /\ IsFiniteSet(T) /\ ~Good(T)
  BY FS_Subset
<1>4. T # {}
  <2>1. Total(f, {}) = 0 /\ Total(g, {}) = 0
    BY TotalNone
  <2> QED BY <1>3, <2>1
<1>5. PICK c \in T : TRUE
  BY <1>4
<1> DEFINE R == T \ {c}
<1>6. Good(R)
  <2>1. <<R, T>> \in StrictSubsetOrdering(S)
    BY <1>3, <1>5 DEF StrictSubsetOrdering
  <2>2. R \notin bad
    BY <1>2, <2>1
  <2> QED BY <1>3, <2>2
<1>7. /\ Total(f, T) = Total(f, R) + f[c] /\ Total(f, R) \in Nat
      /\ Total(g, T) = Total(g, R) + g[c] /\ Total(g, R) \in Nat
  BY <1>3, TotalSplit
<1>8. f[c] \in Nat /\ g[c] \in Nat /\ f[c] * m <= g[c] * k
  BY <1>3
<1>9. \A x, y \in Nat : (x + y) * m = x * m + y * m /\ x * m \in Nat /\ y * m \in Nat
  OBVIOUS
<1>10. \A x, y \in Nat : (x + y) * k = x * k + y * k /\ x * k \in Nat /\ y * k \in Nat
  OBVIOUS
<1>11. Good(T)
  <2> HIDE DEF R, bad
  <2>1. /\ Total(f, T) * m = Total(f, R) * m + f[c] * m
        /\ Total(f, R) * m \in Nat /\ f[c] * m \in Nat
    BY <1>7, <1>8, <1>9
  <2>2. /\ Total(g, T) * k = Total(g, R) * k + g[c] * k
        /\ Total(g, R) * k \in Nat /\ g[c] * k \in Nat
    BY <1>7, <1>8, <1>10
  <2> QED BY <1>6, <1>8, <2>1, <2>2
<1> QED BY <1>3, <1>11

(* A non-empty finite set of integers has a largest member: the one with   *)
(* the fewest members above it.                                            *)
LEMMA GreatestOfSome ==
    ASSUME NEW at, IsFiniteSet(at), at \subseteq Int, at # {}
    PROVE  \E i \in at : \A j \in at : j <= i
<1> DEFINE Above(i) == {j \in at : i < j}
           aboves == {Above(i) : i \in at}
<1>2. aboves \subseteq SUBSET at /\ aboves # {}
  OBVIOUS
<1>3. PICK X \in aboves : \A Y \in aboves : ~(<<Y, X>> \in StrictSubsetOrdering(at))
  <2> HIDE DEF aboves
  <2>1. aboves \subseteq FiniteSubsetsOf(at)
    BY <1>2, FS_FiniteSubsetsOfFinite
  <2> QED BY <1>2, <2>1, FS_StrictSubsetOrderingWellFounded, WFMin
<1>4. PICK i \in at : X = Above(i)
  OBVIOUS
<1>5. ASSUME NEW j \in at, i < j PROVE FALSE
  <2>1. i \in Int /\ j \in Int
    OBVIOUS
  <2>2. \A k \in at : k \in Int
    OBVIOUS
  <2>3. Above(j) \subseteq Above(i) /\ j \in Above(i) /\ j \notin Above(j)
    <3>1. \A k \in at : j < k => i < k
      BY <1>5, <2>1, <2>2
    <3>2. ~(j < j)
      BY <2>1
    <3> QED BY <1>5, <3>1, <3>2
  <2>4. <<Above(j), X>> \in StrictSubsetOrdering(at)
    BY <1>4, <2>3 DEF StrictSubsetOrdering
  <2> QED BY <1>3, <2>4
<1>6. \A j \in at : j \in Int
  OBVIOUS
<1> QED BY <1>5, <1>6

(* A non-empty set of naturals up to n has a largest member.               *)
LEMMA LastOfSome ==
    ASSUME NEW n \in Nat, NEW at, at \subseteq 1 .. n, at # {}
    PROVE  \E i \in at : \A j \in at : j <= i
<1>1. IsFiniteSet(at)
  <2>1. IsFiniteSet(1 .. n)
    BY FS_Interval
  <2> QED BY <2>1, FS_Subset
<1>2. at \subseteq Int
  OBVIOUS
<1> QED BY <1>1, <1>2, GreatestOfSome

(* A sum over accounts of at most m each. *)
LEMMA TotalAtMost ==
    ASSUME NEW S, IsFiniteSet(S), NEW m \in Nat,
           NEW f, \A i \in S : f[i] \in Nat /\ f[i] <= m
    PROVE  Total(f, S) <= Cardinality(S) * m
<1> DEFINE ones == [i \in S |-> 1]
<1>1. Total(ones, S) = Cardinality(S)
  <2>1. Units(ones, S) = S \X {1}
    <3> DEFINE A == UNION { {i} \X {1} : i \in S }
    <3>1. \A i \in S : {i} \X (1 .. ones[i]) = {i} \X {1}
      OBVIOUS
    <3>2. Units(ones, S) = A
      BY <3>1 DEF Units
    <3>3. ASSUME NEW u PROVE u \in A <=> u \in S \X {1}
      <4>1. u \in A <=> \E i \in S : u \in {i} \X {1}
        OBVIOUS
      <4>2. \A i : u \in {i} \X {1} <=> u = <<i, 1>>
        OBVIOUS
      <4>3. u \in S \X {1} <=> \E i \in S : u = <<i, 1>>
        OBVIOUS
      <4> QED BY <4>1, <4>2, <4>3
    <3> HIDE DEF A, ones
    <3>4. A = S \X {1}
      BY <3>3
    <3> QED BY <3>2, <3>4
  <2>2. IsFiniteSet({1}) /\ Cardinality({1}) = 1
    BY FS_Singleton
  <2>3. Cardinality(S \X {1}) = Cardinality(S) * 1
    BY <2>2, FS_Product
  <2>4. Cardinality(S) \in Nat
    BY FS_CardinalityType
  <2>5. Total(ones, S) = Cardinality(S) * 1
    <3> HIDE DEF ones
    <3> QED BY <2>1, <2>3 DEF Total
  <2> QED BY <2>4, <2>5
<1>2. Total(f, S) * 1 <= Total(ones, S) * m
  <2>1. \A i \in S : f[i] * 1 <= ones[i] * m
    OBVIOUS
  <2>2. \A i \in S : f[i] \in Nat /\ ones[i] \in Nat
    OBVIOUS
  <2> HIDE DEF ones
  <2> QED BY <2>1, <2>2, TotalScaled
<1>3. Total(f, S) \in Nat
  BY TotalType
<1> QED BY <1>1, <1>2, <1>3

(* Less in every account is less in the sum. *)
LEMMA TotalLess ==
    ASSUME NEW S, IsFiniteSet(S), NEW f, NEW g,
           \A i \in S : f[i] \in Nat /\ g[i] \in Nat /\ g[i] <= f[i]
    PROVE  Total(g, S) <= Total(f, S)
<1>1. \A i \in S : g[i] * 1 <= f[i] * 1
  OBVIOUS
<1>2. Total(g, S) * 1 <= Total(f, S) * 1
  BY <1>1, TotalScaled
<1>3. Total(f, S) \in Nat /\ Total(g, S) \in Nat
  BY TotalType
<1> QED BY <1>2, <1>3

(* Accounts that are told apart by others with at least as much sum up to  *)
(* no more than those: their units are units of the others.                *)
LEMMA TotalInjected ==
    ASSUME NEW S, NEW T, IsFiniteSet(T),
           NEW f, \A i \in S : f[i] \in Nat, NEW g, \A c \in T : g[c] \in Nat,
           NEW m, \A i \in S : f[i] > 0 => m[i] \in T /\ f[i] <= g[m[i]],
           \A i, j \in S : f[i] > 0 /\ f[j] > 0 /\ m[i] = m[j] => i = j
    PROVE  Total(f, S) <= Total(g, T)
<1> DEFINE U == Units(f, S)
           V == Units(g, T)
           F == [u \in U |-> <<m[u[1]], u[2]>>]
<1>1. ASSUME NEW u \in U PROVE u[1] \in S /\ f[u[1]] > 0 /\ u[2] \in 1 .. f[u[1]] /\ u = <<u[1], u[2]>>
  <2>1. PICK i \in S : u \in {i} \X (1 .. f[i])
    BY DEF Units
  <2>2. u[1] = i /\ u[2] \in 1 .. f[i] /\ u = <<u[1], u[2]>>
    BY <2>1
  <2>3. f[i] > 0
    BY <2>2
  <2> QED BY <2>2, <2>3
<1>2. ASSUME NEW u \in U PROVE F[u] \in V
  <2>1. m[u[1]] \in T /\ u[2] \in 1 .. g[m[u[1]]]
    <3>1. m[u[1]] \in T /\ f[u[1]] <= g[m[u[1]]] /\ f[u[1]] \in Nat
      BY <1>1
    <3> QED BY <1>1, <3>1
  <2>2. <<m[u[1]], u[2]>> \in {m[u[1]]} \X (1 .. g[m[u[1]]])
    BY <2>1
  <2> QED BY <2>1, <2>2 DEF Units
<1>3. ASSUME NEW u \in U, NEW v \in U, F[u] = F[v] PROVE u = v
  <2>1. m[u[1]] = m[v[1]] /\ u[2] = v[2]
    BY <1>3
  <2>2. u[1] = v[1]
    BY <1>1, <2>1
  <2> QED BY <1>1, <2>1, <2>2
<1>4. IsFiniteSet(V)
  BY TotalType
<1>5. F \in Injection(U, V)
  <2>1. F \in [U -> V]
    BY <1>2
  <2>2. \A u, v \in U : F[u] = F[v] => u = v
    BY <1>3
  <2> HIDE DEF F, U, V
  <2> QED BY <2>1, <2>2 DEF Injection, IsInjective
<1>6. Cardinality(U) <= Cardinality(V)
  <2> HIDE DEF F, U, V
  <2> QED BY <1>4, <1>5, FS_Injection
<1> QED BY <1>6 DEF Total

(* Accounts put together account by account.                               *)
LEMMA TotalPlus ==
    ASSUME NEW S, IsFiniteSet(S),
           NEW f, \A i \in S : f[i] \in Nat, NEW g, \A i \in S : g[i] \in Nat,
           NEW h, \A i \in S : h[i] = f[i] + g[i]
    PROVE  Total(h, S) = Total(f, S) + Total(g, S)
<1> DEFINE Good(T) == Total(h, T) = Total(f, T) + Total(g, T)
           bad == {T \in SUBSET S : ~Good(T)}
<1> SUFFICES ASSUME bad # {} PROVE FALSE
  OBVIOUS
<1>1. bad \subseteq FiniteSubsetsOf(S)
  BY FS_FiniteSubsetsOfFinite
<1>2. PICK T \in bad : \A R \in bad : ~(<<R, T>> \in StrictSubsetOrdering(S))
  <2> HIDE DEF bad
  <2> QED BY <1>1, FS_StrictSubsetOrderingWellFounded, WFMin
<1>3. T \subseteq S /\ IsFiniteSet(T) /\ ~Good(T)
  BY FS_Subset
<1>4. T # {}
  <2>1. Total(f, {}) = 0 /\ Total(g, {}) = 0 /\ Total(h, {}) = 0
    BY TotalNone
  <2>2. Good({})
    BY <2>1
  <2> HIDE DEF Good
  <2> QED BY <1>3, <2>2
<1>5. PICK c \in T : TRUE
  BY <1>4
<1> DEFINE R == T \ {c}
<1>6. Good(R)
  <2>1. <<R, T>> \in StrictSubsetOrdering(S)
    BY <1>3, <1>5 DEF StrictSubsetOrdering
  <2>2. R \notin bad
    BY <1>2, <2>1
  <2> QED BY <1>3, <2>2
<1>7. \A i \in T : f[i] \in Nat /\ g[i] \in Nat /\ h[i] \in Nat /\ h[i] = f[i] + g[i]
  BY <1>3
<1>8. /\ Total(f, T) = Total(f, R) + f[c] /\ Total(f, R) \in Nat
      /\ Total(g, T) = Total(g, R) + g[c] /\ Total(g, R) \in Nat
      /\ Total(h, T) = Total(h, R) + h[c] /\ Total(h, R) \in Nat
  BY <1>3, <1>7, TotalSplit
<1>9. f[c] \in Nat /\ g[c] \in Nat /\ h[c] = f[c] + g[c]
  BY <1>7
<1>10. Good(T)
  <2> HIDE DEF R, bad
  <2> QED BY <1>6, <1>8, <1>9
<1> QED BY <1>3, <1>10

(* Accounts with nothing in them do not count.                             *)
LEMMA TotalExtended ==
    ASSUME NEW S, IsFiniteSet(S), NEW D \in SUBSET S,
           NEW f, \A i \in D : f[i] \in Nat,
           NEW g, \A i \in S : g[i] = IF i \in D THEN f[i] ELSE 0
    PROVE  Total(g, S) = Total(f, D)
<1> DEFINE m == [i \in S |-> i]
<1>1. IsFiniteSet(D)
  BY FS_Subset
<1>2. \A i \in S : g[i] \in Nat
  OBVIOUS
<1>3. \A i \in S : g[i] > 0 => m[i] \in D /\ g[i] <= f[m[i]]
  BY <1>2
<1>4. \A i \in D : f[i] > 0 => m[i] \in S /\ f[i] <= g[m[i]]
  BY <1>2
<1>5. \A i, j \in S : m[i] = m[j] => i = j
  OBVIOUS
<1>6. \A i, j \in D : m[i] = m[j] => i = j
  OBVIOUS
<1> HIDE DEF m
<1>7. Total(g, S) <= Total(f, D)
  BY <1>1, <1>2, <1>3, <1>5, TotalInjected
<1>8. Total(f, D) <= Total(g, S)
  BY <1>2, <1>4, <1>6, TotalInjected
<1>9. Total(g, S) \in Nat /\ Total(f, D) \in Nat
  BY <1>1, <1>2, TotalType
<1> QED BY <1>7, <1>8, <1>9
=============================================================================
