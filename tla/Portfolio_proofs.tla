-------------------------- MODULE Portfolio_proofs --------------------------
(***************************************************************************)
(* Theorems about the trading service, for any number of concurrent calls, *)
(* products and keys, any NAVs and any fee rate a product may disclose;    *)
(* and about the weights of an allocation review, for any number of        *)
(* holdings and any limits.                                                *)
(***************************************************************************)
EXTENDS AccountPanel, Allocation, FiniteSetTheorems, WellFoundedInduction, TLAPS

-----------------------------------------------------------------------------
(* Money.  A rounded amount is a natural number of cents, a fee is at most *)
(* what it is charged on, and a partial redemption takes at most the cost. *)

LEMMA RoundMoneyType ==
  ASSUME NEW p \in Nat, NEW q \in Nat \ {0}, NEW m \in RoundMoney(p, q)
  PROVE  m \in Nat
<1>1. p \div q \in Nat
  OBVIOUS
<1>. QED BY <1>1 DEF RoundMoney

\* Rounding a part of g, given as g * n / d, gives at most g.
LEMMA RoundMoneyPart ==
  ASSUME NEW g \in Nat, NEW d \in Nat \ {0}, NEW n \in 0 .. d,
         NEW m \in RoundMoney(g * n, d)
  PROVE  m \in 0 .. g
<1>1. g * n \in Nat
  OBVIOUS
<1>2. m \in Nat
  BY <1>1, RoundMoneyType
<1>3. 2 * (m * d - g * n) <= d
  BY <1>1, <1>2 DEF RoundMoney
<1>4. g * n <= g * d
  OBVIOUS
<1>5. ASSUME m >= g + 1 PROVE FALSE
  <2>1. m * d >= (g + 1) * d
    BY <1>2, <1>5
  <2>2. (g + 1) * d = g * d + d
    OBVIOUS
  <2>3. m * d \in Nat /\ g * d \in Nat /\ g * n \in Nat
    BY <1>1, <1>2
  <2>4. m * d - g * n >= d
    BY <1>4, <2>1, <2>2, <2>3
  <2>. QED BY <1>3, <2>3, <2>4
<1>. QED BY <1>2, <1>5

LEMMA GrossType ==
  ASSUME NEW n \in Nat, NEW nav \in Nat, NEW g \in Gross(n, nav)
  PROVE  g \in Nat
BY ScalesPositive, RoundMoneyType DEF Gross

LEMMA SubscriptionType ==
  ASSUME NEW a \in Nat, NEW nav \in Nat \ {0}, NEW rate \in Nat,
         NEW b \in SubscriptionByAmount(a, nav, rate) \cup SubscriptionByShares(a, nav, rate)
  PROVE  b.shares \in Nat /\ b.cashOut \in Nat
<1>1. CASE b \in SubscriptionByAmount(a, nav, rate)
  <2> DEFINE n == SharesFor(a, nav, rate)
  <2>1. PICK f \in RoundMoney(a * rate, RateScale + rate), g \in Gross(n, nav) :
             b = [shares |-> n, fee |-> f, invested |-> g, cashOut |-> g + f]
    BY <1>1 DEF SubscriptionByAmount
  <2>2. a * RateScale * NavScale \in Nat /\ (RateScale + rate) * nav \in Nat \ {0}
    BY ScalesPositive
  <2>3. n \in Nat
    BY <2>2 DEF SharesFor, RoundShares
  <2>4. g \in Nat
    BY <2>3, GrossType
  <2>5. a * rate \in Nat /\ RateScale + rate \in Nat \ {0}
    BY ScalesPositive
  <2>6. f \in Nat
    BY <2>5, RoundMoneyType
  <2>. QED BY <2>1, <2>3, <2>4, <2>6
<1>2. CASE b \in SubscriptionByShares(a, nav, rate)
  <2>0. PICK g \in Gross(a, nav) : \E f \in FeeOn(g, rate) :
             b = [shares |-> a, fee |-> f, invested |-> g, cashOut |-> g + f]
    BY <1>2 DEF SubscriptionByShares
  <2>1. PICK f \in FeeOn(g, rate) :
             b = [shares |-> a, fee |-> f, invested |-> g, cashOut |-> g + f]
    BY <2>0
  <2>2. g \in Nat
    BY GrossType
  <2>3. f \in Nat
    BY <2>2, ScalesPositive, RoundMoneyType DEF FeeOn
  <2>. QED BY <2>1, <2>2, <2>3
<1>. QED BY <1>1, <1>2

LEMMA RedemptionType ==
  ASSUME NEW n \in Nat, NEW nav \in Nat, NEW rate \in 0 .. RateScale,
         NEW b \in Redemption(n, nav, rate)
  PROVE  b.cashIn \in Nat
<1>0. PICK g \in Gross(n, nav) : \E f \in FeeOn(g, rate) :
           b = [shares |-> n, fee |-> f, gross |-> g, cashIn |-> g - f]
  BY DEF Redemption
<1>1. PICK f \in FeeOn(g, rate) :
           b = [shares |-> n, fee |-> f, gross |-> g, cashIn |-> g - f]
  BY <1>0
<1>2. g \in Nat
  BY GrossType
<1>3. f \in 0 .. g
  BY <1>2, ScalesPositive, RoundMoneyPart DEF FeeOn
<1>. QED BY <1>1, <1>2, <1>3

LEMMA CostOutType ==
  ASSUME NEW held \in Nat \ {0}, NEW heldCost \in Nat, NEW wanted \in 1 .. held,
         NEW k \in CostOut(heldCost, wanted, held)
  PROVE  k \in 0 .. heldCost
<1>1. CASE wanted >= held
  BY <1>1 DEF CostOut
<1>2. CASE ~(wanted >= held)
  <2>1. wanted \in 0 .. held /\ k \in RoundMoney(heldCost * wanted, held)
    BY <1>2 DEF CostOut
  <2>. QED BY <2>1, RoundMoneyPart
<1>. QED BY <1>1, <1>2

-----------------------------------------------------------------------------
(* Sums.  FoldFunction adds the entries up in an order of its own choice: the *)
(* lemmas show that the order does not matter and what one entry contributes.*)

\* One unfolding of the fold: the sum over s, given the sums `it` over smaller sets.
AnyOf(s) == CHOOSE x \in s : TRUE
Unfold(f, it, s) == IF s = {} THEN 0 ELSE f[AnyOf(s)] + it[s \ {AnyOf(s)}]
PartialSums(f, S) == CHOOSE it : it = [s \in SUBSET S |-> Unfold(f, it, s)]

LEMMA SumIsPartial ==
  ASSUME NEW f PROVE SumOver(f) = PartialSums(f, DOMAIN f)[DOMAIN f]
BY Zenon DEF SumOver, FoldFunction, FoldFunctionOnSet, MapThenFoldSet,
             PartialSums, Unfold, AnyOf

\* Induction on the natural numbers, for a set of them.
Below == {ss \in Nat \X Nat : ss[1] < ss[2]}

LEMMA SetInduction ==
  ASSUME NEW S \in SUBSET Nat, 0 \in S, \A n \in S : n + 1 \in S
  PROVE  S = Nat
<1>1. SUFFICES ASSUME Nat \ S # {} PROVE FALSE
  OBVIOUS
<1>2. IsWellFoundedOn(Below, Nat)
  BY NatLessThanWellFounded DEF OpToRel, Below
<1>3. \A x, y \in Nat : x < y => <<x, y>> \in Below
  BY DEF Below
<1>4. PICK x \in Nat \ S : \A y \in Nat \ S : ~ (<<y, x>> \in Below)
  BY <1>1, <1>2, WFMin
<1>5. x - 1 \in Nat \ S /\ x - 1 < x
  BY <1>4
<1>. QED BY <1>3, <1>4, <1>5

\* A set of finite sets that is not empty has a member none of whose proper
\* subsets is a member.
LEMMA SmallestSet ==
  ASSUME NEW S, IsFiniteSet(S), NEW Bad \in SUBSET (SUBSET S), Bad # {}
  PROVE  \E s \in Bad : \A t \in Bad : t \subseteq s => t = s
<1>1. IsWellFoundedOn(StrictSubsetOrdering(S), SUBSET S)
  BY FS_StrictSubsetOrderingWellFounded, FS_FiniteSubsetsOfFinite
<1>2. PICK s \in Bad : \A t \in Bad : ~ (<<t, s>> \in StrictSubsetOrdering(S))
  BY <1>1, WFMin
<1>3. \A t \in Bad : t \subseteq s /\ t # s => <<t, s>> \in StrictSubsetOrdering(S)
  BY DEF StrictSubsetOrdering
<1>4. \A t \in Bad : t \subseteq s => t = s
  BY <1>2, <1>3
<1>. QED BY <1>4

LEMMA AnyOfMember == ASSUME NEW s, s # {} PROVE AnyOf(s) \in s
BY DEF AnyOf

\* The recursion of the fold has a solution on a finite set.
LEMMA PartialSumsAt ==
  ASSUME NEW f, NEW S, IsFiniteSet(S)
  PROVE  \A s \in SUBSET S : PartialSums(f, S)[s] = Unfold(f, PartialSums(f, S), s)
<1> DEFINE D(n) == {s \in SUBSET S : Cardinality(s) <= n}
           Solves(it, n) == it = [s \in D(n) |-> Unfold(f, it, s)]
           N == {n \in Nat : \E it : Solves(it, n)}
<1>1. \A s \in SUBSET S : IsFiniteSet(s) /\ Cardinality(s) \in Nat
  BY FS_Subset, FS_CardinalityType
<1>2. 0 \in N
  <2> DEFINE it == [s \in D(0) |-> 0]
  <2>1. \A s \in D(0) : s = {}
    BY <1>1, FS_EmptySet
  <2>2. \A s \in D(0) : Unfold(f, it, s) = 0
    BY <2>1 DEF Unfold
  <2>3. Solves(it, 0)
    BY <2>2
  <2>. QED BY <2>3
<1>3. ASSUME NEW n \in N PROVE n + 1 \in N
  <2>1. PICK it : Solves(it, n)
    OBVIOUS
  <2> HIDE DEF Solves
  <2> DEFINE jt == [s \in D(n + 1) |-> Unfold(f, it, s)]
  <2>2. ASSUME NEW s \in D(n + 1) PROVE Unfold(f, jt, s) = Unfold(f, it, s)
    <3>1. CASE s = {}
      BY <3>1 DEF Unfold
    <3>2. CASE s # {}
      <4> DEFINE r == s \ {AnyOf(s)}
      <4>1. AnyOf(s) \in s /\ IsFiniteSet(s)
        BY <3>2, <1>1, AnyOfMember
      <4>2. Cardinality(r) = Cardinality(s) - 1
        BY <4>1, FS_RemoveElement
      <4>3. r \in D(n) /\ r \in D(n + 1)
        BY <1>1, <4>2
      <4>4. it[r] = Unfold(f, it, r)
        BY <2>1, <4>3 DEF Solves
      <4>5. jt[r] = it[r]
        BY <4>3, <4>4
      <4>. QED BY <3>2, <4>5 DEF Unfold
    <3>. QED BY <3>1, <3>2
  <2>3. jt = [s \in D(n + 1) |-> Unfold(f, jt, s)]
    BY <2>2
  <2>4. Solves(jt, n + 1)
    BY <2>3 DEF Solves
  <2>. QED BY <2>4
<1>4. N = Nat
  BY <1>2, <1>3, SetInduction
<1>5. PICK it : Solves(it, Cardinality(S))
  BY <1>4, FS_CardinalityType
<1>6. D(Cardinality(S)) = SUBSET S
  BY FS_Subset, FS_CardinalityType
<1>7. it = [s \in SUBSET S |-> Unfold(f, it, s)]
  BY <1>5, <1>6
<1> DEFINE P == PartialSums(f, S)
<1>8. P = [s \in SUBSET S |-> Unfold(f, P, s)]
  BY <1>7 DEF PartialSums
<1>. HIDE DEF P
<1>9. \A s \in SUBSET S : P[s] = Unfold(f, P, s)
  BY <1>8, Zenon
<1>. QED BY <1>9 DEF P

LEMMA PartialSumsType ==
  ASSUME NEW S, IsFiniteSet(S), NEW f \in [S -> Int], NEW s \in SUBSET S
  PROVE  PartialSums(f, S)[s] \in Int
<1> DEFINE P == PartialSums(f, S)
           Bad == {t \in SUBSET S : P[t] \notin Int}
<1>1. SUFFICES ASSUME Bad # {} PROVE FALSE
  OBVIOUS
<1>2. PICK b \in Bad : \A t \in Bad : t \subseteq b => t = b
  <2>1. Bad \in SUBSET (SUBSET S)
    OBVIOUS
  <2>. HIDE DEF Bad
  <2>. QED BY <1>1, <2>1, SmallestSet
<1>3. P[b] = Unfold(f, P, b)
  BY PartialSumsAt
<1>4. b # {}
  BY <1>2, <1>3 DEF Unfold
<1>5. AnyOf(b) \in b /\ b \ {AnyOf(b)} \notin Bad
  BY <1>2, <1>4, AnyOfMember
<1>6. P[b \ {AnyOf(b)}] \in Int /\ f[AnyOf(b)] \in Int
  BY <1>5
<1>. QED BY <1>2, <1>3, <1>4, <1>6 DEF Unfold

\* Any element may be taken first.
LEMMA TakeAny ==
  ASSUME NEW S, IsFiniteSet(S), NEW f \in [S -> Int], NEW s \in SUBSET S, NEW x \in s
  PROVE  PartialSums(f, S)[s] = f[x] + PartialSums(f, S)[s \ {x}]
<1> DEFINE P == PartialSums(f, S)
           Bad == {t \in SUBSET S : \E y \in t : P[t] # f[y] + P[t \ {y}]}
<1>1. SUFFICES ASSUME Bad # {} PROVE FALSE
  OBVIOUS
<1>2. PICK b \in Bad : \A t \in Bad : t \subseteq b => t = b
  <2>1. Bad \in SUBSET (SUBSET S)
    OBVIOUS
  <2>. HIDE DEF Bad
  <2>. QED BY <1>1, <2>1, SmallestSet
<1>3. PICK y \in b : P[b] # f[y] + P[b \ {y}]
  BY <1>2
<1> DEFINE z == AnyOf(b)
<1>4. z \in b
  BY <1>3, AnyOfMember
<1>5. P[b] = f[z] + P[b \ {z}]
  BY <1>4, PartialSumsAt DEF Unfold
<1>6. y # z
  BY <1>3, <1>5
<1>7. b \ {z} \notin Bad /\ b \ {y} \notin Bad
  BY <1>2, <1>3, <1>4
<1>8. /\ P[b \ {z}] = f[y] + P[(b \ {z}) \ {y}]
      /\ P[b \ {y}] = f[z] + P[(b \ {y}) \ {z}]
  BY <1>3, <1>4, <1>6, <1>7
<1>9. (b \ {z}) \ {y} = (b \ {y}) \ {z}
  OBVIOUS
<1>10. P[(b \ {y}) \ {z}] \in Int /\ f[y] \in Int /\ f[z] \in Int
  BY <1>3, <1>4, PartialSumsType
<1>11. P[b] # f[y] + P[b \ {y}]
  BY <1>3
<1> DEFINE w == P[(b \ {y}) \ {z}]
<1>12. P[b] = f[z] + (f[y] + w)
  BY <1>5, <1>8, <1>9
<1>13. f[y] + (f[z] + w) # P[b]
  BY <1>8, <1>11
<1>14. w \in Int /\ f[y] \in Int /\ f[z] \in Int
  BY <1>10
<1>. HIDE DEF w, P, z, Bad
<1>. QED BY <1>12, <1>13, <1>14

\* A sum depends on the entries it adds up, on nothing else.
LEMMA SameEntries ==
  ASSUME NEW S, IsFiniteSet(S), NEW f \in [S -> Int],
         NEW T, IsFiniteSet(T), NEW g \in [T -> Int],
         NEW s \in (SUBSET S) \cap (SUBSET T), \A x \in s : f[x] = g[x]
  PROVE  PartialSums(f, S)[s] = PartialSums(g, T)[s]
<1> DEFINE P == PartialSums(f, S)
           Q == PartialSums(g, T)
           Bad == {t \in SUBSET s : P[t] # Q[t]}
<1>1. SUFFICES ASSUME Bad # {} PROVE FALSE
  OBVIOUS
<1>2. PICK b \in Bad : \A t \in Bad : t \subseteq b => t = b
  <2>1. Bad \in SUBSET (SUBSET S)
    OBVIOUS
  <2>. HIDE DEF Bad
  <2>. QED BY <1>1, <2>1, SmallestSet
<1>3. P[b] = Unfold(f, P, b) /\ Q[b] = Unfold(g, Q, b)
  BY PartialSumsAt
<1>4. b # {}
  BY <1>2, <1>3 DEF Unfold
<1>5. AnyOf(b) \in b /\ b \ {AnyOf(b)} \notin Bad
  BY <1>2, <1>4, AnyOfMember
<1>6. P[b \ {AnyOf(b)}] = Q[b \ {AnyOf(b)}] /\ f[AnyOf(b)] = g[AnyOf(b)]
  BY <1>5
<1>. QED BY <1>2, <1>3, <1>4, <1>6 DEF Unfold

LEMMA SumType ==
  ASSUME NEW S, IsFiniteSet(S), NEW f \in [S -> Int]
  PROVE  SumOver(f) \in Int
BY SumIsPartial, PartialSumsType

\* The sum over the rows of a table, after a row is appended.
LEMMA SumAppend ==
  ASSUME NEW n \in Nat, NEW f \in [1 .. n -> Int], NEW g \in [1 .. n + 1 -> Int],
         \A i \in 1 .. n : g[i] = f[i]
  PROVE  SumOver(f) \in Int /\ SumOver(g) = SumOver(f) + g[n + 1]
<1> DEFINE S == 1 .. n
           T == 1 .. n + 1
<1>1. IsFiniteSet(S) /\ IsFiniteSet(T) /\ S \in (SUBSET S) \cap (SUBSET T)
  BY FS_Interval
<1>2. n + 1 \in T /\ T \ {n + 1} = S
  OBVIOUS
<1>3. PartialSums(g, T)[T] = g[n + 1] + PartialSums(g, T)[T \ {n + 1}]
  <2> DEFINE x == n + 1
  <2>1. T \in SUBSET T /\ x \in T /\ g \in [T -> Int]
    BY <1>2
  <2>. HIDE DEF x, T
  <2>2. PartialSums(g, T)[T] = g[x] + PartialSums(g, T)[T \ {x}]
    BY <1>1, <2>1, TakeAny, SMTT(30)
  <2>. QED BY <2>2 DEF x
<1>4. PartialSums(f, S)[S] = PartialSums(g, T)[S]
  BY <1>1, SameEntries, SMTT(30)
<1>5. SumOver(g) = PartialSums(g, T)[T] /\ SumOver(f) = PartialSums(f, S)[S]
  BY SumIsPartial
<1>6. SumOver(f) \in Int /\ g[n + 1] \in Int
  BY <1>1, <1>2, SumType
<1>7. SumOver(g) = g[n + 1] + SumOver(f)
  BY <1>2, <1>3, <1>4, <1>5
<1>. QED BY <1>6, <1>7

\* The sum of a function with one entry replaced.
LEMMA SumReplaced ==
  ASSUME NEW S, IsFiniteSet(S), NEW f \in [S -> Int], NEW x \in S,
         NEW g \in [S -> Int], \A y \in S \ {x} : g[y] = f[y]
  PROVE  SumOver(g) = SumOver(f) - f[x] + g[x]
<1> DEFINE P == PartialSums(f, S)
           Q == PartialSums(g, S)
<1>2. P[S] = f[x] + P[S \ {x}] /\ Q[S] = g[x] + Q[S \ {x}]
  BY TakeAny
<1>3. P[S \ {x}] = Q[S \ {x}]
  BY SameEntries
<1>4. P[S \ {x}] \in Int /\ f[x] \in Int /\ g[x] \in Int
  BY PartialSumsType
<1>5. SumOver(f) = P[S] /\ SumOver(g) = Q[S]
  BY SumIsPartial
<1>. HIDE DEF P, Q
<1>. QED BY <1>2, <1>3, <1>4, <1>5

LEMMA SumZero ==
  ASSUME NEW S, IsFiniteSet(S)
  PROVE  SumOver([x \in S |-> 0]) = 0
<1> DEFINE f == [x \in S |-> 0]
           P == PartialSums(f, S)
           Bad == {t \in SUBSET S : P[t] # 0}
<1>1. SUFFICES ASSUME Bad # {} PROVE FALSE
  BY SumIsPartial
<1>2. PICK b \in Bad : \A t \in Bad : t \subseteq b => t = b
  <2>1. Bad \in SUBSET (SUBSET S)
    OBVIOUS
  <2>. HIDE DEF Bad
  <2>. QED BY <1>1, <2>1, SmallestSet
<1>3. P[b] = Unfold(f, P, b)
  BY PartialSumsAt
<1>4. b # {}
  BY <1>2, <1>3 DEF Unfold
<1>5. AnyOf(b) \in b /\ b \ {AnyOf(b)} \notin Bad
  BY <1>2, <1>4, AnyOfMember
<1>6. P[b \ {AnyOf(b)}] = 0 /\ f[AnyOf(b)] = 0
  BY <1>5
<1>. QED BY <1>2, <1>3, <1>4, <1>6 DEF Unfold

\* The difference of two sums is the sum of the differences.
LEMMA SumDifference ==
  ASSUME NEW S, IsFiniteSet(S), NEW f \in [S -> Int], NEW g \in [S -> Int]
  PROVE  SumOver([x \in S |-> f[x] - g[x]]) = SumOver(f) - SumOver(g)
<1> DEFINE h == [x \in S |-> f[x] - g[x]]
           P == PartialSums(f, S)
           Q == PartialSums(g, S)
           R == PartialSums(h, S)
           Bad == {t \in SUBSET S : R[t] # P[t] - Q[t]}
<1>1. SUFFICES ASSUME Bad # {} PROVE FALSE
  BY SumIsPartial
<1>2. PICK b \in Bad : \A t \in Bad : t \subseteq b => t = b
  <2>1. Bad \in SUBSET (SUBSET S)
    OBVIOUS
  <2>. HIDE DEF Bad
  <2>. QED BY <1>1, <2>1, SmallestSet
<1>3. P[b] = Unfold(f, P, b) /\ Q[b] = Unfold(g, Q, b) /\ R[b] = Unfold(h, R, b)
  BY PartialSumsAt
<1>4. b # {}
  BY <1>2, <1>3 DEF Unfold
<1> DEFINE x == AnyOf(b)
           r == b \ {x}
<1>5. x \in b /\ x \in S /\ r \in SUBSET S /\ r \notin Bad
  BY <1>2, <1>4, AnyOfMember
<1>6. R[r] = P[r] - Q[r] /\ h[x] = f[x] - g[x]
  BY <1>5
<1>7. P[r] \in Int /\ Q[r] \in Int /\ f[x] \in Int /\ g[x] \in Int
  BY <1>5, PartialSumsType
<1>8. P[b] = f[x] + P[r] /\ Q[b] = g[x] + Q[r] /\ R[b] = h[x] + R[r]
  BY <1>3, <1>4 DEF Unfold
<1>9. R[b] # P[b] - Q[b]
  BY <1>2
<1>. HIDE DEF P, Q, R, h, x, r
<1>. QED BY <1>6, <1>7, <1>8, <1>9
-----------------------------------------------------------------------------
(* What the steps of a call do to the tables: three of them book a row,    *)
(* each with what it read under the lock; no other step touches a table.   *)

LEMMA OpType ==
  ASSUME NEW c \in Calls
  PROVE  /\ Op[c].kind \in {"deposit", "buy", "sell", "liquidate"}
         /\ Op[c].product \in Products
         /\ Op[c].n \in Nat
         /\ Op[c].key \in Keys \cup {NoKey}
         /\ KeyOf(c) \in Keys \cup {NoKey}
BY CallsAssumption DEF Ops, KeyOf

LEMMA QuoteType ==
  ASSUME TypeOK, NEW c \in Calls, quote[c] # NoNav
  PROVE  quote[c] \in Nat
BY CallsAssumption DEF TypeOK

Solvent == TypeOK /\ LockInv /\ NoOverdraft

Silent == UNCHANGED rows

\* A row of the ledger whose balance is the account's new cash.
Booking(kind, amount, key) ==
  /\ cash' = cash + amount
  /\ txns' = Append(txns, [kind |-> kind, amount |-> amount,
                           balanceAfter |-> cash', key |-> key])

LEMMA DepositEffect ==
  ASSUME Solvent, NEW c \in Calls, Deposit(c)
  PROVE  /\ Booking("deposit", Op[c].n, KeyOf(c))
         /\ Op[c].n \in Nat \ {0}
         /\ ~ Liquidates(c)
         /\ \A i \in DOMAIN txns : KeyOf(c) # NoKey => txns[i].key # KeyOf(c)
         /\ answer' = [answer EXCEPT ![c] = [status |-> "filled", row |-> Len(txns) + 1]]
<1>1. seen[c] = cash /\ Op[c].n > 0 /\ Op[c].n \in Nat
  BY OpType DEF Solvent, LockInv, Deposit, InTransaction, Priced
<1>2. ~ Liquidates(c)
  BY DEF Deposit, Liquidates
<1>. QED BY <1>1, <1>2 DEF Deposit, Booking, Record, Booked, Table, Settled, Respond

LEMMA BuyEffect ==
  ASSUME Solvent, NEW c \in Calls, Buy(c)
  PROVE  /\ item[c] \in Products
         /\ plan[c].shares \in Nat \ {0} /\ plan[c].cashOut \in 0 .. cash
         /\ Booking("buy", -plan[c].cashOut, NoKey)
         /\ shares' = [shares EXCEPT ![item[c]] = @ + plan[c].shares]
         /\ cost' = [cost EXCEPT ![item[c]] = @ + plan[c].cashOut]
         /\ Place(c, "buy", plan[c].shares, plan[c].cashOut, 0)
         /\ ~ Liquidates(c)
         /\ \A i \in DOMAIN orders : KeyOf(c) # NoKey => orders[i].key # KeyOf(c)
         /\ answer' = [answer EXCEPT ![c] = [status |-> "filled", row |-> Len(orders) + 1]]
<1>1. item[c] \in Products /\ plan[c].shares \in Nat /\ plan[c].cashOut \in Nat /\ cash \in Int
  BY DEF Solvent, TypeOK
<1>2. seen[c] = cash /\ plan[c].shares > 0
  BY DEF Solvent, LockInv, Buy, InTransaction, Priced
<1>3. plan[c].cashOut <= cash
  BY <1>2 DEF Buy, CanPay
<1>4. ~ Liquidates(c) /\ Op[c].kind # "deposit"
  BY DEF Buy, Liquidates
<1>5. Booking("buy", -plan[c].cashOut, NoKey)
  BY <1>1, <1>2 DEF Buy, Booking, Record
<1>. QED BY <1>1, <1>2, <1>3, <1>4, <1>5 DEF Buy, Booked, Table, Settled, Respond

LEMMA SellEffect ==
  ASSUME Solvent, NEW c \in Calls, Sell(c)
  PROVE  /\ item[c] \in Products
         /\ \E n \in 1 .. shares[item[c]], gain \in Nat, k \in 0 .. cost[item[c]] :
              /\ Booking("sell", gain, NoKey)
              /\ shares' = [shares EXCEPT ![item[c]] = @ - n]
              /\ cost' = [cost EXCEPT ![item[c]] = @ - k]
              /\ n = shares[item[c]] => k = cost[item[c]]
              /\ Place(c, "sell", n, gain, gain - k)
         /\ Op[c].kind # "deposit"
         /\ \A i \in DOMAIN orders : KeyOf(c) # NoKey => orders[i].key # KeyOf(c)
         /\ IF Liquidates(c) THEN answer' = answer
            ELSE answer' = [answer EXCEPT ![c] = [status |-> "filled", row |-> Len(orders) + 1]]
<1> DEFINE p == item[c]
           n == Wanted(c)
<1>1. p \in Products /\ shares[p] \in Nat /\ cost[p] \in Nat /\ cash \in Nat
  BY DEF Solvent, TypeOK, NoOverdraft
<1>2. seen[c] = cash /\ quote[c] \in Nat
  BY QuoteType DEF Solvent, LockInv, Sell, InTransaction, Priced
<1>3. n \in 1 .. shares[p]
  BY DEF Sell, CanDeliver
<1>4. PICK b \in Redemption(n, quote[c], RedemptionRate), costOut \in CostOut(cost[p], n, shares[p]) :
        /\ shares' = [shares EXCEPT ![p] = @ - n]
        /\ cost' = [cost EXCEPT ![p] = IF shares[p] = n THEN 0 ELSE @ - costOut]
        /\ cash' = seen[c] + b.cashIn
        /\ Place(c, "sell", n, b.cashIn, b.cashIn - costOut)
        /\ Record("sell", b.cashIn, seen[c] + b.cashIn, NoKey)
  BY DEF Sell
<1>5. b.cashIn \in Nat
  BY <1>1, <1>2, <1>3, RedemptionType, RatesAssumption
<1>6. costOut \in 0 .. cost[p]
  BY <1>1, <1>3, CostOutType
<1>7. shares[p] = n => costOut = cost[p]
  BY <1>1, <1>3 DEF CostOut
<1>8. Booking("sell", b.cashIn, NoKey)
  BY <1>2, <1>4 DEF Booking, Record
<1>9. cost' = [cost EXCEPT ![p] = @ - costOut]
  <2>1. (IF shares[p] = n THEN 0 ELSE cost[p] - costOut) = cost[p] - costOut
    BY <1>1, <1>6, <1>7
  <2>. QED BY <1>4, <2>1 DEF Solvent, TypeOK
<1>10. Op[c].kind # "deposit"
  BY DEF Sell, Sells, Liquidates
<1>11. \A i \in DOMAIN orders : KeyOf(c) # NoKey => orders[i].key # KeyOf(c)
  BY <1>10 DEF Sell, Booked, Table
<1>12. IF Liquidates(c) THEN answer' = answer
       ELSE answer' = [answer EXCEPT ![c] = [status |-> "filled", row |-> Len(orders) + 1]]
  BY DEF Sell, Settled, Respond
<1>13. \E nn \in 1 .. shares[item[c]], gain \in Nat, k \in 0 .. cost[item[c]] :
              /\ Booking("sell", gain, NoKey)
              /\ shares' = [shares EXCEPT ![item[c]] = @ - nn]
              /\ cost' = [cost EXCEPT ![item[c]] = @ - k]
              /\ nn = shares[item[c]] => k = cost[item[c]]
              /\ Place(c, "sell", nn, gain, gain - k)
  BY <1>3, <1>4, <1>5, <1>6, <1>7, <1>8, <1>9
<1>. QED BY <1>1, <1>10, <1>11, <1>12, <1>13

\* Any other step books nothing.
LEMMA SilentSteps ==
  ASSUME NEW c \in Calls, Step(c) \/ Die(c)
  PROVE  Silent \/ Deposit(c) \/ Buy(c) \/ Sell(c)
BY DEF Step, Die, Silent, RejectDeposit, Lookup, QuoteFails, Quote, LockAccount,
       Refuse, Collide, ReplayConflict, Reply, StartLiquidation, NextItem

-----------------------------------------------------------------------------
(* Type correctness.                                                       *)

LEMMA AppendType ==
  ASSUME NEW S, NEW s \in Seq(S), NEW e \in S
  PROVE  Append(s, e) \in Seq(S)
OBVIOUS

LEMMA InitSolvent == Init => Solvent /\ LedgerExplainsCash
<1>1. Init => TypeOK
  BY CallsAssumption, OpType DEF Init, TypeOK, Places, Answers, NoAnswer, NoPlan
<1>2. Init => LockInv
  BY CallsAssumption DEF Init, LockInv
<1>3. Init => NoOverdraft
  BY DEF Init, NoOverdraft
<1>4. Init => LedgerExplainsCash
  BY DEF Init, LedgerExplainsCash, BalanceBefore
<1>. QED BY <1>1, <1>2, <1>3, <1>4 DEF Solvent

\* The tables keep their types: a booking is an integer amount of money.
LEMMA RowTypes ==
  ASSUME Solvent, NEW c \in Calls, Step(c) \/ Die(c)
  PROVE  /\ cash' \in Int /\ totalDeposit' \in Nat
         /\ shares' \in [Products -> Int] /\ cost' \in [Products -> Int]
         /\ orders' \in Seq(OrderRows) /\ txns' \in Seq(TxnRows)
<1>0. /\ cash \in Int /\ totalDeposit \in Nat
      /\ shares \in [Products -> Int] /\ cost \in [Products -> Int]
      /\ orders \in Seq(OrderRows) /\ txns \in Seq(TxnRows)
  BY DEF Solvent, TypeOK
<1>1. ASSUME NEW kind \in {"deposit", "buy", "sell"}, NEW amount \in Int,
             NEW key \in Keys \cup {NoKey}, Booking(kind, amount, key)
      PROVE  cash' \in Int /\ txns' \in Seq(TxnRows)
  <2>1. cash' \in Int
    BY <1>0, <1>1 DEF Booking
  <2>2. [kind |-> kind, amount |-> amount, balanceAfter |-> cash', key |-> key] \in TxnRows
    BY <1>1, <2>1 DEF TxnRows
  <2>. QED BY <1>0, <1>1, <2>1, <2>2, AppendType DEF Booking
<1>2. ASSUME NEW side \in {"buy", "sell"}, NEW n \in Nat, NEW net \in Int, NEW realized \in Int,
             Place(c, side, n, net, realized), item[c] \in Products
      PROVE  orders' \in Seq(OrderRows)
  <2>1. [key |-> KeyOf(c), product |-> item[c], side |-> side, shares |-> n,
         net |-> net, realized |-> realized, by |-> c] \in OrderRows
    BY <1>2, OpType DEF OrderRows
  <2>. QED BY <1>0, <1>2, <2>1, AppendType DEF Place
<1>3. CASE Silent
  BY <1>0, <1>3 DEF Silent, rows, account, positions
<1>4. CASE Deposit(c)
  <2>1. cash' \in Int /\ txns' \in Seq(TxnRows)
    BY <1>1, <1>4, DepositEffect, OpType
  <2>. QED BY <1>0, <1>4, <2>1, OpType DEF Deposit, positions
<1>5. CASE Buy(c)
  <2>1. item[c] \in Products /\ plan[c].shares \in Nat /\ plan[c].cashOut \in Nat
    BY <1>0, <1>5, BuyEffect
  <2>2. cash' \in Int /\ txns' \in Seq(TxnRows)
    BY <1>1, <1>5, <2>1, BuyEffect
  <2>3. orders' \in Seq(OrderRows)
    <3>1. Place(c, "buy", plan[c].shares, plan[c].cashOut, 0)
      BY <1>5, BuyEffect
    <3>2. 0 \in Int /\ plan[c].cashOut \in Int
      BY <2>1
    <3>. QED BY <1>2, <2>1, <3>1, <3>2, Zenon
  <2>4. shares' \in [Products -> Int] /\ cost' \in [Products -> Int]
    BY <1>0, <1>5, <2>1, BuyEffect
  <2>. QED BY <1>0, <1>5, <2>2, <2>3, <2>4 DEF Buy
<1>6. CASE Sell(c)
  <2>1. item[c] \in Products
    BY <1>6, SellEffect
  <2>2. PICK n \in 1 .. shares[item[c]], gain \in Nat, k \in 0 .. cost[item[c]] :
              /\ Booking("sell", gain, NoKey)
              /\ shares' = [shares EXCEPT ![item[c]] = @ - n]
              /\ cost' = [cost EXCEPT ![item[c]] = @ - k]
              /\ Place(c, "sell", n, gain, gain - k)
    BY <1>6, SellEffect
  <2>3. n \in Nat /\ k \in Int
    BY <1>0, <2>1, <2>2
  <2>4. cash' \in Int /\ txns' \in Seq(TxnRows)
    BY <1>1, <2>2
  <2>5. orders' \in Seq(OrderRows)
    <3>1. Place(c, "sell", n, gain, gain - k) /\ gain \in Int /\ gain - k \in Int
      BY <2>2, <2>3
    <3>. QED BY <1>2, <2>1, <2>3, <3>1
  <2>6. shares' \in [Products -> Int] /\ cost' \in [Products -> Int]
    BY <1>0, <2>1, <2>2, <2>3
  <2>. QED BY <1>0, <1>6, <2>4, <2>5, <2>6 DEF Sell
<1>. QED BY <1>3, <1>4, <1>5, <1>6, SilentSteps

\* So does everything a call remembers.
LEMMA CallTypes ==
  ASSUME TypeOK, NEW c \in Calls, Step(c) \/ Die(c)
  PROVE  /\ lock' \in Calls \cup {Nobody}
         /\ at' \in [Calls -> Places]
         /\ item' \in [Calls -> Products]
         /\ todo' \in [Calls -> SUBSET Products]
         /\ quote' \in [Calls -> Navs \cup {NoNav}]
         /\ plan' \in [Calls -> [shares : Nat, cashOut : Nat]]
         /\ seen' \in [Calls -> Int]
         /\ answer' \in [Calls -> Answers]
<1>0. /\ lock \in Calls \cup {Nobody}
      /\ at \in [Calls -> Places]
      /\ item \in [Calls -> Products]
      /\ todo \in [Calls -> SUBSET Products]
      /\ quote \in [Calls -> Navs \cup {NoNav}]
      /\ plan \in [Calls -> [shares : Nat, cashOut : Nat]]
      /\ seen \in [Calls -> Int]
      /\ answer \in [Calls -> Answers]
      /\ cash \in Int
      /\ orders \in Seq(OrderRows) /\ txns \in Seq(TxnRows)
  BY DEF TypeOK
<1>1. Len(orders) + 1 \in Nat /\ Len(txns) + 1 \in Nat
  BY <1>0
<1>2. \A status \in {"none", "filled", "replayed", "failed"}, i \in Nat :
          [status |-> status, row |-> i] \in Answers
  BY DEF Answers
<1>3. \A i \in Booked(c) : i \in Nat
  BY <1>0 DEF Booked, Table
<1>4. \A l \in Places : Goto(c, l) => at' \in [Calls -> Places]
  BY <1>0 DEF Goto
<1>5. \A status \in {"filled", "replayed"}, i \in Nat :
          Respond(c, status, i) => /\ at' \in [Calls -> Places]
                                   /\ answer' \in [Calls -> Answers]
  BY <1>0, <1>2, <1>4 DEF Respond, Places
<1>51. Fail(c) => at' \in [Calls -> Places] /\ answer' \in [Calls -> Answers]
  <2>1. CASE Liquidates(c)
    BY <1>0, <1>4, <2>1 DEF Fail, Places
  <2>2. CASE ~ Liquidates(c)
    <3>1. [status |-> "failed", row |-> 0] \in Answers
      BY DEF Answers
    <3>2. "done" \in Places
      BY DEF Places
    <3>. QED BY <1>0, <1>4, <2>2, <3>1, <3>2 DEF Fail
  <2>. QED BY <2>1, <2>2
<1>52. \A i \in Nat : Settled(c, i) => /\ at' \in [Calls -> Places]
                                       /\ answer' \in [Calls -> Answers]
  BY <1>0, <1>4, <1>5 DEF Settled, Places
<1> USE DEF Release, local, Places
<1>6. CASE RejectDeposit(c)
  BY <1>0, <1>1, <1>3, <1>4, <1>5, <1>51, <1>52, <1>6 DEF RejectDeposit
<1>7. CASE Lookup(c)
  BY <1>0, <1>1, <1>3, <1>4, <1>5, <1>51, <1>52, <1>7 DEF Lookup
<1>8. CASE QuoteFails(c)
  BY <1>0, <1>1, <1>3, <1>4, <1>5, <1>51, <1>52, <1>8 DEF QuoteFails
<1>9. CASE Quote(c)
  <2>1. plan' \in [Calls -> [shares : Nat, cashOut : Nat]]
    <3>1. ASSUME NEW nav \in Navs, NEW b \in Plans(c, nav)
          PROVE  b \in [shares : Nat, cashOut : Nat]
      <4>1. nav \in Nat \ {0} /\ Op[c].n \in Nat /\ SubscriptionRate \in Nat
        BY CallsAssumption, OpType, RatesAssumption
      <4>2. PICK s \in SubscriptionByAmount(Op[c].n, nav, SubscriptionRate)
                      \cup SubscriptionByShares(Op[c].n, nav, SubscriptionRate) :
                 b = [shares |-> s.shares, cashOut |-> s.cashOut]
        BY <3>1 DEF Plans
      <4>. QED BY <4>1, <4>2, SubscriptionType
    <3>2. CASE Sells(c)
      BY <1>0, <1>9, <3>2 DEF Quote
    <3>3. CASE ~ Sells(c)
      <4>1. PICK nav \in Navs :
                   \E b \in Plans(c, nav) : plan' = [plan EXCEPT ![c] = b]
        BY <1>9, <3>3 DEF Quote
      <4>. QED BY <1>0, <3>1, <4>1
    <3>. QED BY <3>2, <3>3
  <2>2. quote' \in [Calls -> Navs \cup {NoNav}]
    BY <1>0, <1>9 DEF Quote
  <2>. QED BY <1>0, <1>4, <1>9, <2>1, <2>2 DEF Quote
<1>10. CASE LockAccount(c)
  BY <1>0, <1>1, <1>3, <1>4, <1>5, <1>51, <1>52, <1>10 DEF LockAccount
<1>11. CASE Deposit(c)
  BY <1>0, <1>1, <1>3, <1>4, <1>5, <1>51, <1>52, <1>11 DEF Deposit
<1>12. CASE Buy(c)
  BY <1>0, <1>1, <1>3, <1>4, <1>5, <1>51, <1>52, <1>12 DEF Buy
<1>13. CASE Sell(c)
  BY <1>0, <1>1, <1>3, <1>4, <1>5, <1>51, <1>52, <1>13 DEF Sell
<1>14. CASE Refuse(c)
  BY <1>0, <1>1, <1>3, <1>4, <1>5, <1>51, <1>52, <1>14 DEF Refuse
<1>15. CASE Collide(c)
  BY <1>0, <1>1, <1>3, <1>4, <1>5, <1>51, <1>52, <1>15 DEF Collide
<1>16. CASE ReplayConflict(c)
  BY <1>0, <1>1, <1>3, <1>4, <1>5, <1>51, <1>52, <1>16 DEF ReplayConflict
<1>17. CASE Reply(c)
  BY <1>0, <1>1, <1>3, <1>4, <1>5, <1>51, <1>52, <1>17 DEF Reply
<1>18. CASE StartLiquidation(c)
  BY <1>0, <1>1, <1>3, <1>4, <1>5, <1>51, <1>52, <1>18 DEF StartLiquidation
<1>19. CASE NextItem(c)
  <2>1. item' \in [Calls -> Products] /\ todo' \in [Calls -> SUBSET Products]
    <3>1. CASE UNCHANGED <<item, todo>>
      BY <1>0, <3>1
    <3>2. CASE \E p \in todo[c] : /\ item' = [item EXCEPT ![c] = p]
                                  /\ todo' = [todo EXCEPT ![c] = @ \ {p}]
      <4>1. PICK p \in todo[c] : /\ item' = [item EXCEPT ![c] = p]
                                 /\ todo' = [todo EXCEPT ![c] = @ \ {p}]
        BY <3>2
      <4>2. p \in Products /\ todo[c] \ {p} \in SUBSET Products
        BY <1>0
      <4>. QED BY <1>0, <4>1, <4>2
    <3>. QED BY <1>19, <3>1, <3>2 DEF NextItem
  <2>2. at' \in [Calls -> Places] /\ answer' \in [Calls -> Answers]
    <3>1. (Goto(c, "quote") /\ UNCHANGED answer) \/ Respond(c, "filled", 0)
      BY <1>19 DEF NextItem
    <3>2. "quote" \in Places /\ 0 \in Nat /\ "filled" \in {"filled", "replayed"}
      BY DEF Places
    <3>. QED BY <1>0, <1>4, <1>5, <3>1, <3>2
  <2>. QED BY <1>0, <1>19, <2>1, <2>2 DEF NextItem
<1>20. CASE Die(c)
  BY <1>0, <1>1, <1>3, <1>4, <1>5, <1>51, <1>52, <1>20 DEF Die
<1>. QED BY <1>6, <1>7, <1>8, <1>9, <1>10, <1>11, <1>12, <1>13, <1>14, <1>15, <1>16, <1>17, <1>18, <1>19, <1>20 DEF Step

LEMMA NextTyping ==
  ASSUME Solvent, NEW c \in Calls, Step(c) \/ Die(c)
  PROVE  TypeOK'
BY RowTypes, CallTypes DEF TypeOK, Solvent

-----------------------------------------------------------------------------
(* The row lock.  Only the holder writes the account, and it lets go of it *)
(* in the same step; so what a call read under the lock is the balance.    *)

LEMMA NextLocking ==
  ASSUME Solvent, NEW c \in Calls, Step(c) \/ Die(c)
  PROVE  LockInv'
<1>0. TypeOK /\ LockInv
  BY DEF Solvent
<1> USE CallsAssumption DEF Goto, Fail, Respond, Settled, Release, local, rows, account,
        InTransaction, Priced
<1>1. CASE RejectDeposit(c)
  BY <1>0, <1>1 DEF RejectDeposit, TypeOK, LockInv
<1>2. CASE Lookup(c)
  <2>1. lock' = lock /\ cash' = cash /\ seen' = seen /\ plan' = plan /\ quote' = quote
    BY <1>2 DEF Lookup
  <2>2. at[c] = "idle" /\ (Op[c].kind = "deposit" => Op[c].n > 0) /\ ~ Liquidates(c)
    BY <1>2 DEF Lookup, Liquidates
  <2>3. \E l \in {"reply", "begin", "quote"} :
           /\ at' = [at EXCEPT ![c] = l]
           /\ l = "begin" <=> (l # "reply" /\ Op[c].kind = "deposit")
    <3>1. CASE \E i \in Booked(c) : Respond(c, "replayed", i)
      BY <3>1
    <3>2. CASE Goto(c, IF Op[c].kind = "deposit" THEN "begin" ELSE "quote")
      BY <3>2
    <3>. QED BY <1>2, <3>1, <3>2 DEF Lookup
  <2>. QED BY <1>0, <2>1, <2>2, <2>3 DEF TypeOK, LockInv, Sells
<1>3. CASE QuoteFails(c)
  BY <1>0, <1>3, SMTT(30) DEF QuoteFails, TypeOK, LockInv
<1>4. CASE Quote(c)
  <2>1. lock' = lock /\ cash' = cash /\ seen' = seen /\ at' = [at EXCEPT ![c] = "begin"]
    BY <1>4 DEF Quote
  <2>2. at[c] = "quote" /\ Op[c].kind # "deposit"
    BY <1>0, <1>4 DEF Quote, LockInv
  <2>3. \E nav \in Navs : quote' = [quote EXCEPT ![c] = nav]
    BY <1>4 DEF Quote
  <2>4. Sells(c) => plan' = plan
    BY <1>4 DEF Quote
  <2>5. ~ Sells(c) => \E b : b.shares > 0 /\ plan' = [plan EXCEPT ![c] = b]
    BY <1>4 DEF Quote
  <2>6. Sells(c) => Op[c].kind # "buy"
    BY DEF Sells, Liquidates
  <2>7. Priced(c)'
    BY <1>0, <2>2, <2>3, <2>4, <2>5, <2>6 DEF TypeOK, Sells, Liquidates
  <2>8. \A d \in Calls \ {c} : quote'[d] = quote[d] /\ plan'[d] = plan[d]
    BY <1>0, <2>3, <2>4, <2>5 DEF TypeOK
  <2>. QED BY <1>0, <2>1, <2>2, <2>7, <2>8 DEF TypeOK, LockInv, Sells, Liquidates
<1>5. CASE LockAccount(c)
  BY <1>0, <1>5 DEF LockAccount, TypeOK, LockInv
<1>6. CASE Deposit(c)
  BY <1>0, <1>6 DEF Deposit, TypeOK, LockInv
<1>7. CASE Buy(c)
  BY <1>0, <1>7 DEF Buy, TypeOK, LockInv
<1>8. CASE Sell(c)
  BY <1>0, <1>8 DEF Sell, TypeOK, LockInv
<1>9. CASE Refuse(c)
  BY <1>0, <1>9 DEF Refuse, TypeOK, LockInv
<1>10. CASE Collide(c)
  BY <1>0, <1>10 DEF Collide, TypeOK, LockInv
<1>11. CASE ReplayConflict(c)
  BY <1>0, <1>11 DEF ReplayConflict, TypeOK, LockInv
<1>12. CASE Reply(c)
  BY <1>0, <1>12 DEF Reply, TypeOK, LockInv
<1>13. CASE StartLiquidation(c)
  BY <1>0, <1>13 DEF StartLiquidation, TypeOK, LockInv
<1>14. CASE NextItem(c)
  <2>1. lock' = lock /\ cash' = cash /\ seen' = seen /\ plan' = plan /\ quote' = quote
    BY <1>14 DEF NextItem
  <2>2. at[c] = "next" /\ Liquidates(c)
    BY <1>0, <1>14 DEF NextItem, LockInv
  <2>3. \E l \in {"quote", "reply"} : at' = [at EXCEPT ![c] = l]
    BY <1>14 DEF NextItem
  <2>. QED BY <1>0, <2>1, <2>2, <2>3 DEF TypeOK, LockInv, Liquidates
<1>15. CASE Die(c)
  BY <1>0, <1>15 DEF Die, TypeOK, LockInv
<1>. QED BY <1>1, <1>2, <1>3, <1>4, <1>5, <1>6, <1>7, <1>8, <1>9, <1>10, <1>11, <1>12, <1>13, <1>14, <1>15 DEF Step

-----------------------------------------------------------------------------
(* Money and shares never run out, and the ledger explains the balance.    *)

\* A booking that leaves a balance continues the ledger's chain with it.
LEMMA BookingKept ==
  ASSUME Solvent, LedgerExplainsCash, NEW kind, NEW amount \in Int, NEW key,
         Booking(kind, amount, key), cash + amount >= 0
  PROVE  /\ LedgerExplainsCash'
         /\ cash' >= 0 /\ \A i \in DOMAIN txns' : txns'[i].balanceAfter >= 0
<1> DEFINE t == [kind |-> kind, amount |-> amount, balanceAfter |-> cash', key |-> key]
           len == Len(txns)
<1>1. /\ cash \in Int /\ txns \in Seq(TxnRows)
      /\ \A i \in 1 .. len : txns[i].balanceAfter >= 0
  BY DEF Solvent, TypeOK, NoOverdraft
<1>2. cash' = cash + amount /\ txns' = Append(txns, t)
  BY DEF Booking
<1>3. len \in Nat /\ DOMAIN txns = 1 .. len /\ DOMAIN txns' = 1 .. len + 1 /\ Len(txns') = len + 1
  BY <1>1, <1>2
<1>4. (\A i \in 1 .. len : txns'[i] = txns[i]) /\ txns'[len + 1] = t
  BY <1>1, <1>2, <1>3
<1>5. /\ \A i \in 1 .. len : txns[i].balanceAfter =
            (IF i = 1 THEN 0 ELSE txns[i - 1].balanceAfter) + txns[i].amount
      /\ cash = IF len + 1 = 1 THEN 0 ELSE txns[len].balanceAfter
  BY <1>3 DEF LedgerExplainsCash, BalanceBefore
<1>6. ASSUME NEW i \in 1 .. len + 1
      PROVE  txns'[i].balanceAfter =
               (IF i = 1 THEN 0 ELSE txns'[i - 1].balanceAfter) + txns'[i].amount
  <2>1. CASE i \in 1 .. len
    <3>1. txns'[i] = txns[i] /\ (i # 1 => txns'[i - 1] = txns[i - 1])
      BY <1>3, <1>4, <2>1
    <3>. QED BY <1>5, <2>1, <3>1
  <2>2. CASE i = len + 1
    <3>1. txns'[i] = t /\ (i # 1 => txns'[i - 1] = txns[len])
      BY <1>3, <1>4, <2>2
    <3>. QED BY <1>2, <1>5, <2>2, <3>1
  <2>. QED BY <1>3, <2>1, <2>2
<1>7. cash' = txns'[len + 1].balanceAfter
  BY <1>4
<1>8. LedgerExplainsCash'
  BY <1>3, <1>6, <1>7 DEF LedgerExplainsCash, BalanceBefore
<1>9. \A i \in DOMAIN txns' : txns'[i].balanceAfter >= 0
  BY <1>1, <1>2, <1>3, <1>4
<1>. QED BY <1>1, <1>2, <1>8, <1>9

LEMMA NextMoney ==
  ASSUME Solvent, LedgerExplainsCash, NEW c \in Calls, Step(c) \/ Die(c)
  PROVE  NoOverdraft' /\ LedgerExplainsCash'
<1>0. /\ cash \in Nat /\ shares \in [Products -> Int] /\ cost \in [Products -> Int]
      /\ \A p \in Products : shares[p] >= 0 /\ cost[p] >= 0
  BY DEF Solvent, TypeOK, NoOverdraft
<1>1. CASE Silent
  BY <1>1 DEF Solvent, Silent, rows, account, positions, NoOverdraft, LedgerExplainsCash,
              BalanceBefore
<1>2. CASE Deposit(c)
  <2>1. Booking("deposit", Op[c].n, KeyOf(c)) /\ Op[c].n \in Int /\ cash + Op[c].n >= 0
    BY <1>0, <1>2, DepositEffect
  <2>2. shares' = shares /\ cost' = cost
    BY <1>2 DEF Deposit, positions
  <2>. QED BY <1>0, <2>1, <2>2, BookingKept DEF NoOverdraft
<1>3. CASE Buy(c)
  <2> DEFINE p == item[c]
  <2>1. p \in Products /\ plan[c].shares \in Nat /\ plan[c].cashOut \in 0 .. cash
    BY <1>3, BuyEffect
  <2>2. Booking("buy", -plan[c].cashOut, NoKey) /\ -plan[c].cashOut \in Int
    BY <1>0, <1>3, <2>1, BuyEffect
  <2>3. cash + (-plan[c].cashOut) >= 0
    BY <1>0, <2>1
  <2>4. /\ shares' = [shares EXCEPT ![p] = @ + plan[c].shares]
        /\ cost' = [cost EXCEPT ![p] = @ + plan[c].cashOut]
    BY <1>3, BuyEffect
  <2>5. \A q \in Products : shares'[q] >= 0 /\ cost'[q] >= 0
    BY <1>0, <2>1, <2>4
  <2>. QED BY <2>2, <2>3, <2>5, BookingKept DEF NoOverdraft
<1>4. CASE Sell(c)
  <2> DEFINE p == item[c]
  <2>1. p \in Products
    BY <1>4, SellEffect
  <2>2. PICK n \in 1 .. shares[p], gain \in Nat, k \in 0 .. cost[p] :
              /\ Booking("sell", gain, NoKey)
              /\ shares' = [shares EXCEPT ![p] = @ - n]
              /\ cost' = [cost EXCEPT ![p] = @ - k]
    BY <1>4, SellEffect
  <2>3. gain \in Int /\ cash + gain >= 0
    BY <1>0, <2>2
  <2>4. \A q \in Products : shares'[q] >= 0 /\ cost'[q] >= 0
    BY <1>0, <2>1, <2>2
  <2>. QED BY <2>2, <2>3, <2>4, BookingKept DEF NoOverdraft
<1>. QED BY <1>1, <1>2, <1>3, <1>4, SilentSteps

LEMMA Stutter == Solvent /\ LedgerExplainsCash /\ UNCHANGED vars
                 => (Solvent /\ LedgerExplainsCash)'
BY DEF Solvent, TypeOK, LockInv, Priced, NoOverdraft, LedgerExplainsCash, BalanceBefore,
       vars, rows, local, account, positions, Sells, Liquidates

LEMMA SolventStep == Solvent /\ LedgerExplainsCash /\ [Next]_vars
                     => (Solvent /\ LedgerExplainsCash)'
<1>0. SUFFICES ASSUME Solvent, LedgerExplainsCash, [Next]_vars
               PROVE  (Solvent /\ LedgerExplainsCash)'
  OBVIOUS
<1>1. ASSUME NEW c \in Calls, Step(c) \/ Die(c) PROVE (Solvent /\ LedgerExplainsCash)'
  BY <1>0, <1>1, NextTyping, NextLocking, NextMoney DEF Solvent
<1>2. CASE UNCHANGED vars
  BY <1>0, <1>2, Stutter
<1>. QED BY <1>0, <1>1, <1>2 DEF Next

\* The tables are well typed and the customer is never overdrawn, neither in money
\* nor in shares, however the calls interleave, whoever dies, at any NAV and rate.
THEOREM NeverOverdrawn == Spec => [](TypeOK /\ LockInv /\ NoOverdraft)
<1>1. Solvent => TypeOK /\ LockInv /\ NoOverdraft
  BY DEF Solvent
<1>. QED BY <1>1, InitSolvent, SolventStep, PTL DEF Spec

\* The ledger is gapless and ends in the account's balance: no update of the
\* balance is ever lost.
THEOREM LedgerExact == Spec => []LedgerExplainsCash
BY InitSolvent, SolventStep, PTL DEF Spec

-----------------------------------------------------------------------------
(* The books.  What a step changes in the account and the positions is what *)
(* it appends to the orders and to the ledger.                              *)

GainIn(s) == SumOver([i \in DOMAIN s |-> s[i].realized])
MovedIn(s, p) == SumOver([i \in DOMAIN s |-> Change(s[i], p)])
Trades(s, j) == {i \in 1 .. j : IsTrade(s[i])}

LEMMA GainAppend ==
  ASSUME NEW s \in Seq(OrderRows), NEW o \in OrderRows
  PROVE  GainIn(s) \in Int /\ GainIn(Append(s, o)) = GainIn(s) + o.realized
<1> DEFINE n == Len(s)
           t == Append(s, o)
           f == [i \in 1 .. n |-> s[i].realized]
           g == [i \in 1 .. n + 1 |-> t[i].realized]
<1>1. n \in Nat /\ DOMAIN s = 1 .. n /\ DOMAIN t = 1 .. n + 1
  OBVIOUS
<1>2. \A r \in OrderRows : r.realized \in Int
  BY DEF OrderRows
<1>3. f \in [1 .. n -> Int]
  BY <1>2
<1>4. g \in [1 .. n + 1 -> Int]
  <2>1. \A i \in 1 .. n + 1 : t[i] \in OrderRows
    OBVIOUS
  <2>. QED BY <1>2, <2>1
<1>5. g[n + 1] = o.realized /\ \A i \in 1 .. n : g[i] = f[i]
  OBVIOUS
<1>6. GainIn(s) = SumOver(f) /\ GainIn(t) = SumOver(g)
  BY <1>1, Zenon DEF GainIn
<1>. HIDE DEF n, f, g
<1>7. SumOver(f) \in Int /\ SumOver(g) = SumOver(f) + g[n + 1]
  BY <1>1, <1>3, <1>4, <1>5, SumAppend
<1>. QED BY <1>5, <1>6, <1>7

LEMMA GainType ==
  ASSUME NEW s \in Seq(OrderRows)
  PROVE  GainIn(s) \in Int
<1>1. IsFiniteSet(DOMAIN s)
  <2>1. DOMAIN s = 1 .. Len(s) /\ Len(s) \in Nat
    OBVIOUS
  <2>. QED BY <2>1, FS_Interval
<1>2. \A r \in OrderRows : r.realized \in Int
  BY DEF OrderRows
<1>3. [i \in DOMAIN s |-> s[i].realized] \in [DOMAIN s -> Int]
  <2>1. \A i \in DOMAIN s : s[i] \in OrderRows
    OBVIOUS
  <2>. QED BY <1>2, <2>1
<1>. QED BY <1>1, <1>3, SumType DEF GainIn

LEMMA ChangeType ==
  ASSUME NEW o \in OrderRows, NEW p \in Products
  PROVE  Change(o, p) \in Int
BY DEF OrderRows, Change

LEMMA MovedAppend ==
  ASSUME NEW s \in Seq(OrderRows), NEW o \in OrderRows, NEW p \in Products
  PROVE  MovedIn(s, p) \in Int /\ MovedIn(Append(s, o), p) = MovedIn(s, p) + Change(o, p)
<1> DEFINE n == Len(s)
           t == Append(s, o)
           f == [i \in 1 .. n |-> Change(s[i], p)]
           g == [i \in 1 .. n + 1 |-> Change(t[i], p)]
<1>1. n \in Nat /\ DOMAIN s = 1 .. n /\ DOMAIN t = 1 .. n + 1
  OBVIOUS
<1>2. \A r \in OrderRows : Change(r, p) \in Int
  BY ChangeType
<1>3. f \in [1 .. n -> Int]
  BY <1>2
<1>4. g \in [1 .. n + 1 -> Int]
  <2>1. \A i \in 1 .. n + 1 : t[i] \in OrderRows
    OBVIOUS
  <2>. QED BY <1>2, <2>1
<1>5. g[n + 1] = Change(o, p) /\ \A i \in 1 .. n : g[i] = f[i]
  OBVIOUS
<1>6. MovedIn(s, p) = SumOver(f) /\ MovedIn(t, p) = SumOver(g)
  BY <1>1, Zenon DEF MovedIn
<1>. HIDE DEF n, f, g
<1>7. SumOver(f) \in Int /\ SumOver(g) = SumOver(f) + g[n + 1]
  BY <1>1, <1>3, <1>4, <1>5, SumAppend
<1>. QED BY <1>5, <1>6, <1>7

LEMMA TradesFinite ==
  ASSUME NEW s, NEW j \in Nat
  PROVE  IsFiniteSet(Trades(s, j)) /\ Cardinality(Trades(s, j)) \in Nat
<1>1. IsFiniteSet(1 .. j) /\ Trades(s, j) \subseteq 1 .. j
  BY FS_Interval DEF Trades
<1>. QED BY <1>1, FS_Subset, FS_CardinalityType

\* The place of a trade entry among the trade entries: from 1 to their number.
LEMMA TradePlace ==
  ASSUME NEW s, NEW n \in Nat, NEW j \in 1 .. n, IsTrade(s[j])
  PROVE  Cardinality(Trades(s, j)) \in 1 .. Cardinality(Trades(s, n))
<1>1. j \in Trades(s, j) /\ Trades(s, j) \subseteq Trades(s, n)
  BY DEF Trades
<1>2. Cardinality(Trades(s, j)) # 0
  BY <1>1, TradesFinite, FS_EmptySet
<1>3. Cardinality(Trades(s, j)) <= Cardinality(Trades(s, n))
  BY <1>1, TradesFinite, FS_Subset
<1>. QED BY <1>2, <1>3, TradesFinite

LEMMA TradesAppend ==
  ASSUME NEW S, NEW s \in Seq(S), NEW t
  PROVE  /\ \A j \in 0 .. Len(s) : Trades(Append(s, t), j) = Trades(s, j)
         /\ Cardinality(Trades(Append(s, t), Len(s) + 1))
               = Cardinality(Trades(s, Len(s))) + (IF IsTrade(t) THEN 1 ELSE 0)
<1> DEFINE n == Len(s)
<1>1. \A i \in 1 .. n : Append(s, t)[i] = s[i]
  OBVIOUS
<1>2. Append(s, t)[n + 1] = t
  OBVIOUS
<1>3. ASSUME NEW j \in 0 .. n PROVE Trades(Append(s, t), j) = Trades(s, j)
  BY <1>1 DEF Trades
<1>4. CASE IsTrade(t)
  <2>1. Trades(Append(s, t), n + 1) = Trades(s, n) \cup {n + 1}
    BY <1>1, <1>2, <1>4 DEF Trades
  <2>2. n + 1 \notin Trades(s, n)
    BY DEF Trades
  <2>. QED BY <1>3, <1>4, <2>1, <2>2, TradesFinite, FS_AddElement
<1>5. CASE ~ IsTrade(t)
  <2>1. Trades(Append(s, t), n + 1) = Trades(s, n)
    BY <1>1, <1>2, <1>5 DEF Trades
  <2>2. Cardinality(Trades(s, n)) \in Nat
    BY TradesFinite
  <2>. QED BY <1>3, <1>5, <2>1, <2>2
<1>. QED BY <1>3, <1>4, <1>5

\* A position without shares carries no cost.
CostlessWhenEmpty == \A p \in Products : shares[p] = 0 => cost[p] = 0

Books == BooksBalance /\ TablesAgree /\ CostlessWhenEmpty

\* TablesAgree, in terms of the tables.
Matches(os, ts) ==
  /\ Cardinality(Trades(ts, Len(ts))) = Len(os)
  /\ \A j \in DOMAIN ts :
        IsTrade(ts[j]) => EntryOf(ts[j], os[Cardinality(Trades(ts, j))])

LEMMA BooksInTerms ==
  /\ BooksBalance <=> cash + SumOver(cost) = totalDeposit + GainIn(orders)
  /\ TablesAgree <=> /\ Matches(orders, txns)
                     /\ \A p \in Products : shares[p] = MovedIn(orders, p)
BY DEF BooksBalance, Realized, GainIn, TablesAgree, TradesUpTo, Trades, Matches, Moved, MovedIn

LEMMA BooksInit == Init => Books
<1> SUFFICES ASSUME Init PROVE Books
  OBVIOUS
<1>1. cash = 0 /\ totalDeposit = 0 /\ orders = <<>> /\ txns = <<>>
      /\ shares = [p \in Products |-> 0] /\ cost = [p \in Products |-> 0]
  BY DEF Init
<1>2. SumOver(cost) = 0
  BY <1>1, SumZero, CallsAssumption
<1>3. ASSUME NEW f \in [{} -> Int] PROVE SumOver(f) = 0
  <2>1. f = [x \in {} |-> 0] /\ IsFiniteSet({})
    BY FS_EmptySet
  <2>. QED BY <2>1, SumZero
<1>4. GainIn(orders) = 0
  <2>1. [i \in DOMAIN orders |-> orders[i].realized] \in [{} -> Int]
    BY <1>1
  <2>. QED BY <1>3, <2>1 DEF GainIn
<1>5. ASSUME NEW p \in Products PROVE MovedIn(orders, p) = 0
  <2>1. [i \in DOMAIN orders |-> Change(orders[i], p)] \in [{} -> Int]
    BY <1>1
  <2>. QED BY <1>3, <2>1 DEF MovedIn
<1>6. Matches(orders, txns)
  <2>1. Trades(txns, 0) = {}
    BY DEF Trades
  <2>. QED BY <1>1, <2>1, FS_EmptySet DEF Matches
<1>. QED BY <1>1, <1>2, <1>4, <1>5, <1>6, BooksInTerms DEF Books, CostlessWhenEmpty

\* A ledger entry that is no trade leaves the match alone.
LEMMA MatchesDeposit ==
  ASSUME NEW os \in Seq(OrderRows), NEW ts \in Seq(TxnRows), NEW t, ~ IsTrade(t),
         Matches(os, ts)
  PROVE  Matches(os, Append(ts, t))
<1> DEFINE us == Append(ts, t)
           n == Len(ts)
<1>1. Len(us) = n + 1 /\ n \in Nat /\ DOMAIN us = 1 .. n + 1 /\ DOMAIN ts = 1 .. n
  OBVIOUS
<1>2. us[n + 1] = t /\ \A j \in 1 .. n : us[j] = ts[j]
  OBVIOUS
<1>3. /\ \A j \in 0 .. n : Trades(us, j) = Trades(ts, j)
      /\ Cardinality(Trades(us, n + 1)) = Cardinality(Trades(ts, n)) + (IF IsTrade(t) THEN 1 ELSE 0)
  BY TradesAppend
<1>4. Cardinality(Trades(us, Len(us))) = Len(os)
  BY <1>1, <1>3 DEF Matches
<1>5. ASSUME NEW j \in DOMAIN us, IsTrade(us[j])
      PROVE  j \in 1 .. n /\ us[j] = ts[j] /\ Trades(us, j) = Trades(ts, j)
  BY <1>1, <1>2, <1>3, <1>5
<1>. HIDE DEF us, n
<1>6. Matches(os, us)
  BY <1>1, <1>4, <1>5 DEF Matches
<1>. QED BY <1>6 DEF us

\* A trade entry and its order, appended together, match.
LEMMA MatchesTrade ==
  ASSUME NEW os \in Seq(OrderRows), NEW ts \in Seq(TxnRows), NEW t, IsTrade(t),
         NEW o, EntryOf(t, o), Matches(os, ts)
  PROVE  Matches(Append(os, o), Append(ts, t))
<1> DEFINE us == Append(ts, t)
           ps == Append(os, o)
           n == Len(ts)
           m == Len(os)
           Rank(s, j) == Cardinality(Trades(s, j))
<1>1. Len(us) = n + 1 /\ n \in Nat /\ DOMAIN us = 1 .. n + 1 /\ DOMAIN ts = 1 .. n
  OBVIOUS
<1>2. us[n + 1] = t /\ \A j \in 1 .. n : us[j] = ts[j]
  OBVIOUS
<1>3. Len(ps) = m + 1 /\ m \in Nat /\ ps[m + 1] = o /\ \A j \in 1 .. m : ps[j] = os[j]
  OBVIOUS
<1>4. /\ \A j \in 0 .. n : Trades(us, j) = Trades(ts, j)
      /\ Rank(us, n + 1) = Rank(ts, n) + (IF IsTrade(t) THEN 1 ELSE 0)
  BY TradesAppend
<1>5. Rank(ts, n) = m
  BY DEF Matches
<1>6. Rank(us, Len(us)) = Len(ps)
  BY <1>1, <1>3, <1>4, <1>5
<1>7. ASSUME NEW j \in DOMAIN us, IsTrade(us[j])
      PROVE  EntryOf(us[j], ps[Rank(us, j)])
  <2>1. CASE j = n + 1
    <3>1. us[j] = t /\ Rank(us, j) = m + 1
      BY <1>2, <1>3, <1>4, <1>5, <2>1
    <3>. QED BY <1>3, <3>1
  <2>2. CASE j \in 1 .. n
    <3>1. us[j] = ts[j] /\ Rank(us, j) = Rank(ts, j) /\ IsTrade(ts[j])
      BY <1>2, <1>4, <1>7, <2>2
    <3>2. Rank(ts, j) \in 1 .. Rank(ts, n)
      BY <1>1, <2>2, <3>1, TradePlace
    <3>3. Rank(ts, j) \in 1 .. m
      BY <3>2, <1>5
    <3>4. ps[Rank(us, j)] = os[Rank(ts, j)]
      BY <1>3, <3>1, <3>3
    <3>5. EntryOf(ts[j], os[Rank(ts, j)])
      BY <1>1, <2>2, <3>1 DEF Matches
    <3>. QED BY <3>1, <3>4, <3>5
  <2>3. j \in 1 .. n + 1
    BY <1>1
  <2>. HIDE DEF us, ps, m, Rank
  <2>. QED BY <1>1, <2>1, <2>2, <2>3
<1>. HIDE DEF us, ps, n, m
<1>8. Matches(ps, us)
  BY <1>6, <1>7 DEF Matches
<1>. QED BY <1>8 DEF us, ps

\* What a trade writes: order o with its ledger entry, and k on the cost of o's
\* product.
Traded(o, amount, k) ==
  /\ o \in OrderRows /\ amount \in Int /\ k \in Int
  /\ amount = (IF o.side = "buy" THEN -o.net ELSE o.net)
  /\ amount + k = o.realized
  /\ orders' = Append(orders, o) /\ totalDeposit' = totalDeposit
  /\ Booking(o.side, amount, NoKey)
  /\ cost'[o.product] = cost[o.product] + k
  /\ \A q \in Products \ {o.product} : cost'[q] = cost[q]
  /\ \A q \in Products : shares'[q] = shares[q] + Change(o, q)
  /\ shares'[o.product] = 0 => cost'[o.product] = 0

\* A trade leaves the books right.
LEMMA TradeBooks ==
  ASSUME Solvent, Books, NEW c \in Calls, Step(c) \/ Die(c),
         NEW o, NEW amount, NEW k, Traded(o, amount, k)
  PROVE  Books'
<1>1. /\ cash \in Int /\ totalDeposit \in Int /\ orders \in Seq(OrderRows)
      /\ txns \in Seq(TxnRows) /\ shares \in [Products -> Int] /\ cost \in [Products -> Int]
  BY DEF Solvent, TypeOK
<1>2. shares' \in [Products -> Int] /\ cost' \in [Products -> Int]
  BY RowTypes
<1>3. /\ o \in OrderRows /\ o.product \in Products /\ o.side \in {"buy", "sell"}
      /\ amount \in Int /\ k \in Int /\ orders' = Append(orders, o)
      /\ Booking(o.side, amount, NoKey)
  BY DEF OrderRows, Traded
<1>4. BooksBalance'
  <2>1. SumOver(cost') = SumOver(cost) - cost[o.product] + cost'[o.product]
    <3>1. ASSUME NEW f \in [Products -> Int], NEW g \in [Products -> Int], NEW x \in Products,
                 \A q \in Products \ {x} : g[q] = f[q]
          PROVE  SumOver(g) = SumOver(f) - f[x] + g[x]
      BY <3>1, SumReplaced, CallsAssumption
    <3>. QED BY <1>1, <1>2, <1>3, <3>1 DEF Traded
  <2>2. SumOver(cost) \in Int /\ cost[o.product] \in Int
    BY <1>1, <1>3, SumType, CallsAssumption
  <2>3. GainIn(orders') = GainIn(orders) + o.realized /\ GainIn(orders) \in Int
    BY <1>1, <1>3, GainAppend
  <2>4. cash' = cash + amount /\ totalDeposit' = totalDeposit
    BY DEF Booking, Traded
  <2>5. cash + SumOver(cost) = totalDeposit + GainIn(orders)
    BY BooksInTerms DEF Books
  <2>6. amount + k = o.realized /\ cost'[o.product] = cost[o.product] + k
    BY DEF Traded
  <2> DEFINE sum == SumOver(cost)
             gain == GainIn(orders)
  <2>7. /\ sum \in Int /\ gain \in Int /\ cash + sum = totalDeposit + gain
        /\ SumOver(cost') = sum + k /\ GainIn(orders') = gain + (amount + k)
    BY <1>3, <2>1, <2>2, <2>3, <2>5, <2>6
  <2>8. cash \in Int /\ totalDeposit \in Int
    BY <1>1
  <2>. HIDE DEF sum, gain
  <2>9. (cash + amount) + (sum + k) = totalDeposit + (gain + (amount + k))
    BY <1>3, <2>7, <2>8
  <2>. QED BY <2>4, <2>7, <2>9 DEF BooksBalance, Realized, GainIn
<1>5. Matches(orders', txns')
  <2> DEFINE t == [kind |-> o.side, amount |-> amount, balanceAfter |-> cash', key |-> NoKey]
  <2>1. txns' = Append(txns, t)
    BY <1>3 DEF Booking
  <2>2. IsTrade(t) /\ EntryOf(t, o)
    BY <1>3 DEF IsTrade, EntryOf, Traded
  <2>3. Matches(orders, txns)
    BY BooksInTerms DEF Books
  <2>. HIDE DEF t
  <2>. QED BY <1>1, <1>3, <2>1, <2>2, <2>3, MatchesTrade
<1>6. ASSUME NEW p \in Products PROVE shares'[p] = MovedIn(orders', p)
  <2>1. shares'[p] = shares[p] + Change(o, p)
    BY DEF Traded
  <2>2. MovedIn(orders', p) = MovedIn(orders, p) + Change(o, p)
    BY <1>1, <1>3, MovedAppend
  <2>. QED BY <2>1, <2>2, BooksInTerms DEF Books
<1>7. TablesAgree'
  BY <1>5, <1>6 DEF TablesAgree, TradesUpTo, Trades, Matches, Moved, MovedIn
<1>8. ASSUME NEW q \in Products, shares'[q] = 0 PROVE cost'[q] = 0
  <2>1. CASE q = o.product
    BY <1>8, <2>1 DEF Traded
  <2>2. CASE q # o.product
    <3>1. Change(o, q) = 0
      BY <2>2 DEF Change
    <3>2. shares'[q] = shares[q] + Change(o, q) /\ cost'[q] = cost[q]
      BY <2>2 DEF Traded
    <3>3. shares[q] = 0
      BY <1>1, <1>8, <3>1, <3>2
    <3>. QED BY <3>2, <3>3 DEF Books, CostlessWhenEmpty
  <2>. QED BY <2>1, <2>2
<1>. QED BY <1>4, <1>7, <1>8 DEF Books, CostlessWhenEmpty

LEMMA NextBooks ==
  ASSUME Solvent, Books, NEW c \in Calls, Step(c) \/ Die(c)
  PROVE  Books'
<1>0. /\ cash \in Int /\ totalDeposit \in Int /\ orders \in Seq(OrderRows)
      /\ txns \in Seq(TxnRows) /\ shares \in [Products -> Int] /\ cost \in [Products -> Int]
  BY DEF Solvent, TypeOK
<1>1. CASE Silent
  BY <1>1 DEF Silent, rows, account, positions, Books, BooksBalance, Realized, TablesAgree,
              TradesUpTo, Moved, CostlessWhenEmpty
<1>2. CASE Deposit(c)
  <2>1. Booking("deposit", Op[c].n, KeyOf(c)) /\ Op[c].n \in Int
    BY <1>2, DepositEffect
  <2>2. /\ shares' = shares /\ cost' = cost /\ orders' = orders
        /\ totalDeposit' = totalDeposit + Op[c].n
    BY <1>2 DEF Deposit, positions
  <2>3. BooksBalance'
    <3>1. SumOver(cost) \in Int /\ cash' = cash + Op[c].n
      BY <1>0, <2>1, SumType, CallsAssumption DEF Booking
    <3>2. cash + SumOver(cost) = totalDeposit + GainIn(orders)
      BY BooksInTerms DEF Books
    <3>3. GainIn(orders) = cash + SumOver(cost) - totalDeposit
      <4>1. GainIn(orders) \in Int
        BY <1>0, GainType
      <4>2. cash \in Int /\ totalDeposit \in Int
        BY <1>0
      <4> DEFINE g == GainIn(orders)
                 sum == SumOver(cost)
      <4>3. g \in Int /\ sum \in Int /\ cash + sum = totalDeposit + g
        BY <3>1, <3>2, <4>1
      <4>. HIDE DEF g, sum
      <4>4. g = cash + sum - totalDeposit
        BY <4>2, <4>3
      <4>. QED BY <4>4 DEF g, sum
    <3>4. cash' + SumOver(cost') = totalDeposit' + GainIn(orders')
      <4> DEFINE g == GainIn(orders)
                 sum == SumOver(cost)
      <4>1. /\ cash' + SumOver(cost') = (cash + Op[c].n) + sum
            /\ totalDeposit' + GainIn(orders') = (totalDeposit + Op[c].n) + g
        BY <2>2, <3>1
      <4>2. g = cash + sum - totalDeposit /\ sum \in Int
        BY <3>1, <3>3
      <4>3. cash \in Int /\ totalDeposit \in Int /\ Op[c].n \in Int
        BY <1>0, <2>1
      <4>. HIDE DEF g, sum
      <4>4. (cash + Op[c].n) + sum = (totalDeposit + Op[c].n) + g
        BY <4>2, <4>3
      <4>. QED BY <4>1, <4>4, Zenon
    <3>. QED BY <3>4 DEF BooksBalance, Realized, GainIn
  <2>4. Matches(orders', txns')
    <3> DEFINE t == [kind |-> "deposit", amount |-> Op[c].n, balanceAfter |-> cash', key |-> KeyOf(c)]
    <3>1. txns' = Append(txns, t) /\ ~ IsTrade(t)
      BY <2>1 DEF Booking, IsTrade
    <3>2. Matches(orders, txns)
      BY BooksInTerms DEF Books
    <3>. HIDE DEF t
    <3>. QED BY <1>0, <2>2, <3>1, <3>2, MatchesDeposit
  <2>5. \A p \in Products : shares'[p] = MovedIn(orders', p)
    BY <2>2, BooksInTerms DEF Books
  <2>6. TablesAgree'
    BY <2>4, <2>5 DEF TablesAgree, TradesUpTo, Trades, Matches, Moved, MovedIn
  <2>. QED BY <2>2, <2>3, <2>6 DEF Books, CostlessWhenEmpty
<1>3. CASE Buy(c)
  <2> DEFINE p == item[c]
             n == plan[c].shares
             m == plan[c].cashOut
             o == [key |-> KeyOf(c), product |-> p, side |-> "buy", shares |-> n,
                   net |-> m, realized |-> 0, by |-> c]
  <2>1. p \in Products /\ n \in Nat \ {0} /\ m \in Nat
    BY <1>0, <1>3, BuyEffect
  <2>2. /\ Booking("buy", -m, NoKey) /\ orders' = Append(orders, o)
        /\ shares' = [shares EXCEPT ![p] = @ + n] /\ cost' = [cost EXCEPT ![p] = @ + m]
    BY <1>3, BuyEffect DEF Place
  <2>3. totalDeposit' = totalDeposit
    BY <1>3 DEF Buy
  <2>4. o \in OrderRows
    BY <2>1, OpType DEF OrderRows
  <2>5. /\ o.side = "buy" /\ o.net = m /\ o.realized = 0 /\ o.product = p /\ o.shares = n
    OBVIOUS
  <2>. HIDE DEF o, p, n, m
  <2>6. \A q \in Products : shares'[q] = shares[q] + Change(o, q)
    BY <1>0, <2>1, <2>2, <2>5 DEF Change
  <2>7. cost'[p] = cost[p] + m /\ \A q \in Products \ {p} : cost'[q] = cost[q]
    BY <1>0, <2>1, <2>2
  <2>8. shares'[p] # 0
    BY <1>0, <2>1, <2>2 DEF Solvent, NoOverdraft
  <2>9. -m \in Int /\ m \in Int /\ -m + m = 0
    BY <2>1
  <2>10. -m = (IF o.side = "buy" THEN -o.net ELSE o.net)
    BY <2>5
  <2>11. Booking(o.side, -m, NoKey)
    BY <2>2, <2>5
  <2>12. Traded(o, -m, m)
    BY <2>2, <2>3, <2>4, <2>5, <2>6, <2>7, <2>8, <2>9, <2>10, <2>11 DEF Traded
  <2>. QED BY <2>12, TradeBooks
<1>4. CASE Sell(c)
  <2> DEFINE p == item[c]
  <2>1. p \in Products
    BY <1>4, SellEffect
  <2>2. PICK n \in 1 .. shares[p], gain \in Nat, k \in 0 .. cost[p] :
              /\ Booking("sell", gain, NoKey)
              /\ shares' = [shares EXCEPT ![p] = @ - n]
              /\ cost' = [cost EXCEPT ![p] = @ - k]
              /\ n = shares[p] => k = cost[p]
              /\ Place(c, "sell", n, gain, gain - k)
    BY <1>4, SellEffect
  <2> DEFINE r == gain - k
             o == [key |-> KeyOf(c), product |-> p, side |-> "sell", shares |-> n,
                   net |-> gain, realized |-> r, by |-> c]
  <2>3. totalDeposit' = totalDeposit
    BY <1>4 DEF Sell
  <2>0. n \in Nat /\ k \in Int /\ r \in Int /\ gain \in Int /\ shares[p] \in Int /\ cost[p] \in Int
    BY <1>0, <2>1, <2>2
  <2>4. o \in OrderRows
    BY <2>0, <2>1, OpType DEF OrderRows
  <2>5. /\ o.side = "sell" /\ o.net = gain /\ o.realized = r /\ o.product = p /\ o.shares = n
    OBVIOUS
  <2>51. orders' = Append(orders, o)
    BY <2>2 DEF Place
  <2>. HIDE DEF o, p
  <2>6. \A q \in Products : shares'[q] = shares[q] + Change(o, q)
    BY <1>0, <2>0, <2>1, <2>2, <2>5 DEF Change
  <2>7. cost'[p] = cost[p] + (-k) /\ \A q \in Products \ {p} : cost'[q] = cost[q]
    BY <1>0, <2>0, <2>1, <2>2
  <2>8. shares'[p] = 0 => cost'[p] = 0
    BY <1>0, <2>0, <2>1, <2>2
  <2>9. -k \in Int /\ gain + (-k) = r
    BY <2>0
  <2>10. gain = (IF o.side = "buy" THEN -o.net ELSE o.net)
    BY <2>5
  <2>11. Booking(o.side, gain, NoKey)
    BY <2>2, <2>5
  <2>. HIDE DEF r
  <2>12. Traded(o, gain, -k)
    BY <2>0, <2>3, <2>4, <2>5, <2>51, <2>6, <2>7, <2>8, <2>9, <2>10, <2>11 DEF Traded
  <2>. QED BY <2>12, TradeBooks
<1>. QED BY <1>1, <1>2, <1>3, <1>4, SilentSteps

LEMMA BooksStutter == Books /\ UNCHANGED vars => Books'
BY DEF Books, BooksBalance, Realized, TablesAgree, TradesUpTo, Moved, CostlessWhenEmpty,
       vars, rows, account, positions

LEMMA BooksStep == Solvent /\ Books /\ [Next]_vars => Books'
BY NextBooks, BooksStutter DEF Next

\* Profit is accounted for once: cash and the cost of what is held are what was
\* paid in plus what the sell orders realized, whatever was rounded on the way.
THEOREM ProfitCountedOnce == Spec => []BooksBalance
<1>1. Books => BooksBalance
  BY DEF Books
<1>. QED BY <1>1, InitSolvent, SolventStep, BooksInit, BooksStep, PTL DEF Spec

\* Orders, ledger and positions tell one story: the n-th trade entry is the n-th
\* order with the same money, and a position is what its orders bought and sold.
THEOREM OneStory == Spec => []TablesAgree
<1>1. Books => TablesAgree
  BY DEF Books
<1>. QED BY <1>1, InitSolvent, SolventStep, BooksInit, BooksStep, PTL DEF Spec

-----------------------------------------------------------------------------
(* The account panel.  What it read before a trade commits is still true,   *)
(* and the sum of the position profits is the difference of two sums.       *)

Panels == [at : {"account", "positions", "realized", "shown"}, cash : Int,
           totalDeposit : Int, marketValue : Int, positionCost : Int,
           positionPnl : Int, complete : BOOLEAN, realized : Int, disturbed : BOOLEAN]

PanelInv ==
  /\ panel \in Panels
  /\ panel.at \in {"positions", "realized"} /\ ~ panel.disturbed
        => panel.cash = cash /\ panel.totalDeposit = totalDeposit
  /\ panel.at = "realized" /\ ~ panel.disturbed => panel.positionCost = SumOver(cost)
  /\ panel.at \in {"realized", "shown"} /\ panel.complete
        => panel.positionPnl = panel.marketValue - panel.positionCost
  /\ panel.at = "shown" /\ ~ panel.disturbed
        => panel.cash + panel.positionCost = panel.totalDeposit + panel.realized

LEMMA PanelInvAddsUp == PanelInv => UndisturbedPanelAddsUp
<1> SUFFICES ASSUME PanelInv, panel.at = "shown", ~ panel.disturbed, panel.complete
             PROVE  TotalPnl = panel.realized + panel.positionPnl
  BY DEF UndisturbedPanelAddsUp
<1>1. /\ panel.cash \in Int /\ panel.totalDeposit \in Int /\ panel.marketValue \in Int
      /\ panel.positionCost \in Int /\ panel.realized \in Int
  BY DEF PanelInv, Panels
<1>2. /\ panel.positionPnl = panel.marketValue - panel.positionCost
      /\ panel.cash + panel.positionCost = panel.totalDeposit + panel.realized
  BY DEF PanelInv
<1>. QED BY <1>1, <1>2 DEF TotalPnl

LEMMA PanelInitInv == PanelInit => PanelInv
BY DEF PanelInit, EmptyPanel, PanelInv, Panels

\* What the positions are worth, and what they gained.
LEMMA PositionsWorth ==
  ASSUME Solvent, Books, NEW nav \in [Products -> Navs \cup {NoNav}],
         NEW value, value \in [Products -> UNION {Worth(p, nav) : p \in Products}],
         \A p \in Products : value[p] \in Worth(p, nav)
  PROVE  LET pnl == [p \in Products |-> PositionPnl(p, nav, value)] IN
         /\ SumOver(value) \in Int /\ SumOver(cost) \in Int /\ SumOver(pnl) \in Int
         /\ (\A p \in Products : shares[p] > 0 => nav[p] # NoNav)
               => SumOver(pnl) = SumOver(value) - SumOver(cost)
<1> DEFINE pnl == [p \in Products |-> PositionPnl(p, nav, value)]
<1>1. /\ shares \in [Products -> Int] /\ cost \in [Products -> Int]
      /\ \A p \in Products : shares[p] >= 0
  BY DEF Solvent, TypeOK, NoOverdraft
<1>2. ASSUME NEW p \in Products PROVE value[p] \in Int /\ (nav[p] = NoNav => value[p] = 0)
  <2>1. CASE nav[p] = NoNav
    BY <2>1 DEF Worth
  <2>2. CASE nav[p] # NoNav
    <3>1. nav[p] \in Nat /\ shares[p] \in Nat
      BY <1>1, <2>2, CallsAssumption
    <3>2. value[p] \in Gross(shares[p], nav[p])
      BY <2>2 DEF Worth
    <3>3. value[p] \in Nat
      BY <3>1, <3>2, GrossType
    <3>. QED BY <2>2, <3>3
  <2>. QED BY <2>1, <2>2
<1>3. value \in [Products -> Int]
  BY <1>2
<1>4. ASSUME NEW p \in Products PROVE PositionPnl(p, nav, value) \in Int
  BY <1>1, <1>2 DEF PositionPnl
<1>5. pnl \in [Products -> Int]
  BY <1>4
<1>6. SumOver(value) \in Int /\ SumOver(cost) \in Int /\ SumOver(pnl) \in Int
  BY <1>1, <1>3, <1>5, SumType, CallsAssumption
<1>7. ASSUME \A p \in Products : shares[p] > 0 => nav[p] # NoNav
      PROVE  SumOver(pnl) = SumOver(value) - SumOver(cost)
  <2>1. ASSUME NEW p \in Products PROVE PositionPnl(p, nav, value) = value[p] - cost[p]
    <3>1. CASE nav[p] # NoNav
      BY <3>1 DEF PositionPnl
    <3>2. CASE nav[p] = NoNav
      <4>1. shares[p] = 0 /\ value[p] = 0
        BY <1>1, <1>2, <1>7, <3>2
      <4>2. cost[p] = 0
        BY <4>1 DEF Books, CostlessWhenEmpty
      <4>. QED BY <3>2, <4>1, <4>2 DEF PositionPnl
    <3>. QED BY <3>1, <3>2
  <2>2. pnl = [p \in Products |-> value[p] - cost[p]]
    BY <2>1
  <2>3. ASSUME NEW f \in [Products -> Int], NEW g \in [Products -> Int]
        PROVE  SumOver([p \in Products |-> f[p] - g[p]]) = SumOver(f) - SumOver(g)
    BY SumDifference, CallsAssumption
  <2>4. SumOver([p \in Products |-> value[p] - cost[p]]) = SumOver(value) - SumOver(cost)
    BY <1>1, <1>3, <2>3
  <2>. QED BY <2>2, <2>4
<1>. QED BY <1>6, <1>7

LEMMA PanelReadAccount ==
  ASSUME Solvent, PanelInv, ReadAccount
  PROVE  PanelInv'
<1>1. cash \in Int /\ totalDeposit \in Int
  BY DEF Solvent, TypeOK
<1>2. panel \in Panels /\ UNCHANGED vars
  BY DEF PanelInv, ReadAccount
<1>3. panel' = [panel EXCEPT !.at = "positions", !.cash = cash, !.totalDeposit = totalDeposit]
  BY DEF ReadAccount
<1>4. panel' \in Panels /\ panel'.at = "positions"
      /\ panel'.cash = cash /\ panel'.totalDeposit = totalDeposit
  BY <1>1, <1>2, <1>3 DEF Panels
<1>5. cash' = cash /\ totalDeposit' = totalDeposit
  BY <1>2 DEF vars, rows, account
<1>. QED BY <1>4, <1>5 DEF PanelInv

LEMMA PanelReadPositions ==
  ASSUME Solvent, Books, PanelInv, ReadPositions
  PROVE  PanelInv'
<1>1. panel \in Panels /\ panel.at = "positions" /\ UNCHANGED vars
  BY DEF PanelInv, ReadPositions
<1>2. PICK nav \in [Products -> Navs \cup {NoNav}] :
      \E value \in [Products -> UNION {Worth(p, nav) : p \in Products}] :
          /\ \A p \in Products : value[p] \in Worth(p, nav)
          /\ panel' = [panel EXCEPT
                !.at = "realized",
                !.marketValue = SumOver(value),
                !.positionCost = SumOver(cost),
                !.positionPnl = SumOver([p \in Products |-> PositionPnl(p, nav, value)]),
                !.complete = \A p \in Products : shares[p] > 0 => nav[p] # NoNav]
  BY DEF ReadPositions
<1>3. PICK value \in [Products -> UNION {Worth(p, nav) : p \in Products}] :
          /\ \A p \in Products : value[p] \in Worth(p, nav)
          /\ panel' = [panel EXCEPT
                !.at = "realized",
                !.marketValue = SumOver(value),
                !.positionCost = SumOver(cost),
                !.positionPnl = SumOver([p \in Products |-> PositionPnl(p, nav, value)]),
                !.complete = \A p \in Products : shares[p] > 0 => nav[p] # NoNav]
  BY <1>2
<1> DEFINE worth == SumOver(value)
           paid == SumOver(cost)
           pnl == SumOver([p \in Products |-> PositionPnl(p, nav, value)])
           priced == \A p \in Products : shares[p] > 0 => nav[p] # NoNav
<1>4. /\ worth \in Int /\ paid \in Int /\ pnl \in Int
      /\ priced => pnl = worth - paid
      /\ priced \in BOOLEAN
  BY <1>3, PositionsWorth
<1>5. panel' = [panel EXCEPT !.at = "realized", !.marketValue = worth, !.positionCost = paid,
                             !.positionPnl = pnl, !.complete = priced]
  BY <1>3
<1>6. cash' = cash /\ totalDeposit' = totalDeposit /\ cost' = cost
  BY <1>1 DEF vars, rows, account, positions
<1>61. SumOver(cost') = paid
  BY <1>6
<1>. HIDE DEF worth, paid, pnl, priced
<1>7. PICK b : b = priced
  OBVIOUS
<1>8. b \in BOOLEAN /\ (b => pnl = worth - paid)
  BY <1>4, <1>7
<1>9. panel' = [panel EXCEPT !.at = "realized", !.marketValue = worth, !.positionCost = paid,
                             !.positionPnl = pnl, !.complete = b]
  BY <1>5, <1>7
<1>10. /\ panel' \in Panels /\ panel'.at = "realized" /\ panel'.marketValue = worth
       /\ panel'.positionCost = paid /\ panel'.positionPnl = pnl
       /\ panel'.cash = panel.cash /\ panel'.totalDeposit = panel.totalDeposit
  BY <1>1, <1>4, <1>8, <1>9 DEF Panels
<1>11. panel'.complete = b /\ panel'.disturbed = panel.disturbed
  BY <1>1, <1>9 DEF Panels
<1>12. panel'.complete => panel'.positionPnl = panel'.marketValue - panel'.positionCost
  BY <1>8, <1>10, <1>11
<1>13. ~ panel'.disturbed => panel'.cash = cash' /\ panel'.totalDeposit = totalDeposit'
  BY <1>1, <1>6, <1>10, <1>11 DEF PanelInv
<1>. QED BY <1>10, <1>12, <1>13, <1>61 DEF PanelInv

LEMMA PanelReadRealized ==
  ASSUME Solvent, Books, PanelInv, ReadRealized
  PROVE  PanelInv'
<1>1. panel \in Panels /\ panel.at = "realized" /\ panel' = [panel EXCEPT !.at = "shown", !.realized = Realized]
  BY DEF PanelInv, ReadRealized
<1>2. Realized \in Int
  BY GainType DEF Solvent, TypeOK, GainIn, Realized
<1>. DEFINE gain == Realized
<1>3. gain \in Int /\ panel' = [panel EXCEPT !.at = "shown", !.realized = gain]
  BY <1>1, <1>2
<1>4. cash + SumOver(cost) = totalDeposit + gain
  BY DEF Books, BooksBalance
<1>. HIDE DEF gain
<1>5. /\ panel' \in Panels /\ panel'.at = "shown" /\ panel'.realized = gain
      /\ panel'.cash = panel.cash /\ panel'.totalDeposit = panel.totalDeposit
      /\ panel'.positionCost = panel.positionCost /\ panel'.marketValue = panel.marketValue
      /\ panel'.positionPnl = panel.positionPnl
  BY <1>1, <1>3 DEF Panels
<1>6. panel'.complete = panel.complete /\ panel'.disturbed = panel.disturbed
  BY <1>1, <1>3 DEF Panels
<1>7. ~ panel.disturbed => /\ panel.cash = cash /\ panel.totalDeposit = totalDeposit
                          /\ panel.positionCost = SumOver(cost)
  BY <1>1 DEF PanelInv
<1>8. panel.complete => panel.positionPnl = panel.marketValue - panel.positionCost
  BY <1>1 DEF PanelInv
<1>. QED BY <1>4, <1>5, <1>6, <1>7, <1>8 DEF PanelInv

LEMMA PanelTrade ==
  ASSUME PanelInv, Trade
  PROVE  PanelInv'
<1> DEFINE hit == panel.disturbed \/ (panel.at \in {"positions", "realized"} /\ rows' # rows)
<1>1. panel \in Panels /\ panel' = [panel EXCEPT !.disturbed = hit]
  BY DEF PanelInv, Trade
<1>2. PICK b : b = hit
  OBVIOUS
<1>3. /\ b \in BOOLEAN
      /\ ~ b => ~ panel.disturbed
      /\ ~ b /\ panel.at \in {"positions", "realized"} => rows' = rows
  BY <1>1, <1>2 DEF Panels
<1>4. panel' = [panel EXCEPT !.disturbed = b]
  BY <1>1, <1>2
<1>. HIDE DEF hit
<1>5. /\ panel' \in Panels /\ panel'.at = panel.at /\ panel'.realized = panel.realized
      /\ panel'.cash = panel.cash /\ panel'.totalDeposit = panel.totalDeposit
      /\ panel'.positionCost = panel.positionCost /\ panel'.marketValue = panel.marketValue
      /\ panel'.positionPnl = panel.positionPnl
  BY <1>1, <1>3, <1>4 DEF Panels
<1>6. panel'.complete = panel.complete /\ panel'.disturbed = b
  BY <1>1, <1>4 DEF Panels
<1>7. ~ panel'.disturbed => ~ panel.disturbed
  BY <1>3, <1>6, Zenon
<1>8. ~ panel'.disturbed /\ panel.at \in {"positions", "realized"}
         => cash' = cash /\ totalDeposit' = totalDeposit /\ cost' = cost
  BY <1>3, <1>6, Zenon DEF rows, account, positions
<1>9. panel.at = "realized" => panel.at \in {"positions", "realized"}
  OBVIOUS
<1>. QED BY <1>5, <1>6, <1>7, <1>8, <1>9 DEF PanelInv

LEMMA PanelStutter == PanelInv /\ UNCHANGED panelVars => PanelInv'
BY DEF PanelInv, panelVars, vars, rows, account, positions

LEMMA PanelStep == Solvent /\ Books /\ PanelInv /\ [PanelNext]_panelVars => PanelInv'
BY PanelReadAccount, PanelReadPositions, PanelReadRealized, PanelTrade, PanelStutter
   DEF PanelNext

LEMMA PanelLeavesTrades == [PanelNext]_panelVars => [Next]_vars
BY DEF PanelNext, panelVars, ReadAccount, ReadPositions, ReadRealized, Trade

\* A panel shown without a trade in between adds up: its total profit is the
\* realized profit plus the profit of the positions, at any NAVs.
THEOREM PanelAddsUp == PanelSpec => []UndisturbedPanelAddsUp
<1>1. PanelInit => Init
  BY DEF PanelInit
<1>. QED BY <1>1, InitSolvent, SolventStep, BooksInit, BooksStep, PanelInitInv, PanelStep,
            PanelLeavesTrades, PanelInvAddsUp, PTL DEF PanelSpec

-----------------------------------------------------------------------------
(* Idempotency keys: a key is booked once, and a keyed answer names its    *)
(* row.  Rows are only appended, so a row once named stays what it was.    *)

KeyedOnce(table) == \A i, j \in DOMAIN table :
                       table[i].key = table[j].key /\ table[i].key # NoKey => i = j

LEMMA AppendedRows ==
  ASSUME NEW S, NEW s \in Seq(S), NEW e
  PROVE  /\ DOMAIN Append(s, e) = DOMAIN s \cup {Len(s) + 1}
         /\ Len(s) + 1 \notin DOMAIN s
         /\ Len(s) + 1 \in Nat \ {0}
         /\ \A i \in DOMAIN s : Append(s, e)[i] = s[i]
         /\ Append(s, e)[Len(s) + 1] = e
OBVIOUS

LEMMA KeyedOnceAppend ==
  ASSUME NEW S, NEW s \in Seq(S), NEW e, KeyedOnce(s),
         \A i \in DOMAIN s : e.key # NoKey => s[i].key # e.key
  PROVE  KeyedOnce(Append(s, e))
BY AppendedRows DEF KeyedOnce

\* The keys that a table has used after a row is appended to it.
LEMMA KeysAppend ==
  ASSUME NEW S, NEW s \in Seq(S), NEW e
  PROVE  KeysIn(Append(s, e)) = IF e.key = NoKey THEN KeysIn(s) ELSE KeysIn(s) \cup {e.key}
<1>1. {Append(s, e)[i].key : i \in DOMAIN Append(s, e)} = {s[i].key : i \in DOMAIN s} \cup {e.key}
  BY AppendedRows
<1>. QED BY <1>1 DEF KeysIn

Keyed == KeyedOnce(orders) /\ KeyedOnce(txns) /\ AnsweredFromItsRow

\* What a call that books a keyed row is told.
LEMMA AnswersKept ==
  ASSUME TypeOK, AnsweredFromItsRow, NEW c \in Calls, NEW i, NEW status,
         \/ answer' = answer
         \/ answer' = [answer EXCEPT ![c] = [status |-> status, row |-> i]],
         i # 0 => i \in DOMAIN Table(c)' /\ Table(c)'[i].key = KeyOf(c),
         \A d \in Calls : \A k \in DOMAIN Table(d) :
            k \in DOMAIN Table(d)' /\ Table(d)'[k] = Table(d)[k]
  PROVE  AnsweredFromItsRow'
<1>1. answer \in [Calls -> Answers]
  BY DEF TypeOK
<1>2. ASSUME NEW d \in Calls, answer'[d].row # 0
      PROVE  answer'[d].row \in DOMAIN Table(d)' /\ Table(d)'[answer'[d].row].key = KeyOf(d)
  <2>1. CASE answer'[d] = answer[d]
    BY <1>2, <2>1 DEF AnsweredFromItsRow
  <2>2. CASE d = c /\ answer'[d] = [status |-> status, row |-> i]
    BY <1>2, <2>2
  <2>. QED BY <1>1, <2>1, <2>2
<1>3. \A d \in Calls : KeyOf(d)' = KeyOf(d)
  BY DEF KeyOf, Liquidates
<1>. QED BY <1>2, <1>3 DEF AnsweredFromItsRow

LEMMA TablesGrow ==
  ASSUME Solvent, NEW c \in Calls, Step(c) \/ Die(c), NEW d \in Calls, NEW k \in DOMAIN Table(d)
  PROVE  k \in DOMAIN Table(d)' /\ Table(d)'[k] = Table(d)[k]
<1>0. orders \in Seq(OrderRows) /\ txns \in Seq(TxnRows)
  BY DEF Solvent, TypeOK
<1>1. orders' = orders \/ \E e : orders' = Append(orders, e)
  <2>1. CASE Silent
    BY <2>1 DEF Silent, rows
  <2>2. CASE Deposit(c)
    BY <2>2 DEF Deposit
  <2>3. CASE Buy(c)
    BY <2>3 DEF Buy, Place
  <2>4. CASE Sell(c)
    BY <2>4, SellEffect DEF Place
  <2>. QED BY <2>1, <2>2, <2>3, <2>4, SilentSteps
<1>2. txns' = txns \/ \E e : txns' = Append(txns, e)
  <2>1. CASE Silent
    BY <2>1 DEF Silent, rows
  <2>2. CASE Deposit(c)
    BY <2>2 DEF Deposit, Record
  <2>3. CASE Buy(c)
    BY <2>3 DEF Buy, Record
  <2>4. CASE Sell(c)
    BY <2>4, SellEffect DEF Booking
  <2>. QED BY <2>1, <2>2, <2>3, <2>4, SilentSteps
<1>3. \A i \in DOMAIN orders : i \in DOMAIN orders' /\ orders'[i] = orders[i]
  BY <1>0, <1>1, AppendedRows
<1>4. \A i \in DOMAIN txns : i \in DOMAIN txns' /\ txns'[i] = txns[i]
  BY <1>0, <1>2, AppendedRows
<1>. QED BY <1>3, <1>4 DEF Table

LEMMA NextKeyed ==
  ASSUME Solvent, Keyed, NEW c \in Calls, Step(c) \/ Die(c)
  PROVE  Keyed'
<1>0. TypeOK /\ orders \in Seq(OrderRows) /\ txns \in Seq(TxnRows) /\ KeyOf(c) \in Keys \cup {NoKey}
  BY OpType DEF Solvent, TypeOK
<1>1. CASE Deposit(c)
  <2>1. Booking("deposit", Op[c].n, KeyOf(c)) /\ orders' = orders
    BY <1>1, DepositEffect DEF Deposit
  <2>2. \A i \in DOMAIN txns : KeyOf(c) # NoKey => txns[i].key # KeyOf(c)
    BY <1>1, DepositEffect
  <2>3. KeyedOnce(txns)'
    BY <1>0, <2>1, <2>2, KeyedOnceAppend DEF Keyed, Booking
  <2>4. Len(txns) + 1 \in DOMAIN txns' /\ txns'[Len(txns) + 1].key = KeyOf(c)
    BY <1>0, <2>1, AppendedRows DEF Booking
  <2>5. Table(c)' = txns'
    BY <1>1 DEF Table, Deposit
  <2>6. answer' = [answer EXCEPT ![c] = [status |-> "filled", row |-> Len(txns) + 1]]
    BY <1>1, DepositEffect
  <2>7. AnsweredFromItsRow'
    BY <1>0, <2>4, <2>5, <2>6, TablesGrow, AnswersKept DEF Keyed
  <2>. QED BY <2>1, <2>3, <2>7 DEF Keyed
<1>2. ASSUME NEW e, orders' = Append(orders, e), e.key = KeyOf(c), Op[c].kind # "deposit",
             \A i \in DOMAIN orders : KeyOf(c) # NoKey => orders[i].key # KeyOf(c),
             NEW t, txns' = Append(txns, t), t.key = NoKey,
             \/ answer' = answer
             \/ answer' = [answer EXCEPT ![c] = [status |-> "filled", row |-> Len(orders) + 1]]
      PROVE  Keyed'
  <2>1. KeyedOnce(orders)'
    BY <1>0, <1>2, KeyedOnceAppend DEF Keyed
  <2>2. KeyedOnce(txns)'
    BY <1>0, <1>2, KeyedOnceAppend DEF Keyed
  <2>3. Len(orders) + 1 \in DOMAIN orders' /\ orders'[Len(orders) + 1].key = KeyOf(c)
    BY <1>0, <1>2, AppendedRows
  <2>4. Table(c)' = orders'
    BY <1>2 DEF Table
  <2>5. AnsweredFromItsRow'
    <3>1. \A d \in Calls : \A k \in DOMAIN Table(d) :
             k \in DOMAIN Table(d)' /\ Table(d)'[k] = Table(d)[k]
      BY TablesGrow
    <3>2. Len(orders) + 1 # 0 =>
             Len(orders) + 1 \in DOMAIN Table(c)' /\ Table(c)'[Len(orders) + 1].key = KeyOf(c)
      BY <2>3, <2>4
    <3>3. \/ answer' = answer
          \/ answer' = [answer EXCEPT ![c] = [status |-> "filled", row |-> Len(orders) + 1]]
      BY <1>2
    <3>4. TypeOK /\ AnsweredFromItsRow
      BY <1>0 DEF Keyed
    <3>. QED BY <3>1, <3>2, <3>3, <3>4, AnswersKept, Zenon
  <2>. QED BY <2>1, <2>2, <2>5 DEF Keyed
<1>3. CASE Buy(c)
  <2>1. PICK e : orders' = Append(orders, e) /\ e.key = KeyOf(c)
    BY <1>3 DEF Buy, Place
  <2>2. PICK t : txns' = Append(txns, t) /\ t.key = NoKey
    BY <1>3 DEF Buy, Record
  <2>3. Op[c].kind # "deposit"
    BY <1>3 DEF Buy
  <2>. QED BY <1>2, <1>3, <2>1, <2>2, <2>3, BuyEffect
<1>4. CASE Sell(c)
  <2>0. PICK n \in 1 .. shares[item[c]], gain \in Nat, k \in 0 .. cost[item[c]] :
              Booking("sell", gain, NoKey) /\ Place(c, "sell", n, gain, gain - k)
    BY <1>4, SellEffect
  <2>1. PICK e : orders' = Append(orders, e) /\ e.key = KeyOf(c)
    BY <2>0 DEF Place
  <2>2. PICK t : txns' = Append(txns, t) /\ t.key = NoKey
    BY <2>0 DEF Booking
  <2>3. \/ answer' = answer
        \/ answer' = [answer EXCEPT ![c] = [status |-> "filled", row |-> Len(orders) + 1]]
    BY <1>4, SellEffect
  <2>. QED BY <1>2, <1>4, <2>1, <2>2, <2>3, SellEffect
<1>5. CASE Silent
  <2>1. orders' = orders /\ txns' = txns
    BY <1>5 DEF Silent, rows
  <2>2. \E i, status : /\ \/ answer' = answer
                          \/ answer' = [answer EXCEPT ![c] = [status |-> status, row |-> i]]
                       /\ i # 0 => i \in DOMAIN Table(c)' /\ Table(c)'[i].key = KeyOf(c)
    <3>1. CASE answer' = answer
      BY <3>1
    <3>2. CASE \E i, status : /\ answer' = [answer EXCEPT ![c] = [status |-> status, row |-> i]]
                              /\ i \in Booked(c) \cup {0}
      BY <2>1, <3>2 DEF Booked, Table
    <3>3. (answer' = answer)
          \/ \E i, status : /\ answer' = [answer EXCEPT ![c] = [status |-> status, row |-> i]]
                            /\ i \in Booked(c) \cup {0}
      <4> USE DEF Fail, Respond
      <4>1. CASE RejectDeposit(c) \/ QuoteFails(c) \/ Refuse(c)
        BY <4>1 DEF RejectDeposit, QuoteFails, Refuse
      <4>2. CASE Lookup(c) \/ ReplayConflict(c) \/ NextItem(c)
        BY <4>2 DEF Lookup, ReplayConflict, NextItem
      <4>3. CASE Quote(c) \/ LockAccount(c) \/ Collide(c) \/ Reply(c) \/ StartLiquidation(c) \/ Die(c)
        BY <4>3 DEF Quote, LockAccount, Collide, Reply, StartLiquidation, Die
      <4>4. CASE Deposit(c)
        BY <4>4, <2>1, <1>0, AppendedRows DEF Deposit, Record
      <4>5. CASE Buy(c) \/ Sell(c)
        <5>1. PICK e : orders' = Append(orders, e)
          BY <4>5, SellEffect DEF Buy, Place
        <5>. QED BY <2>1, <1>0, <5>1, AppendedRows
      <4>. QED BY <4>1, <4>2, <4>3, <4>4, <4>5 DEF Step
    <3>. QED BY <3>1, <3>2, <3>3
  <2>3. AnsweredFromItsRow'
    BY <1>0, <2>2, TablesGrow, AnswersKept DEF Keyed
  <2>. QED BY <2>1, <2>3 DEF Keyed, KeyedOnce
<1>. QED BY <1>1, <1>3, <1>4, <1>5, SilentSteps

LEMMA KeyedInit == Init => Keyed
BY DEF Init, Keyed, KeyedOnce, AnsweredFromItsRow, NoAnswer

LEMMA KeyedStutter == Keyed /\ UNCHANGED vars => Keyed'
BY DEF Keyed, KeyedOnce, AnsweredFromItsRow, Table, KeyOf, Liquidates, vars, rows

LEMMA KeyedStep == Solvent /\ Keyed /\ [Next]_vars => Keyed'
BY NextKeyed, KeyedStutter DEF Next

\* However often and however concurrently a keyed request is sent, its key books
\* one order and one deposit at most.
THEOREM BookedOnce == Spec => []OncePerKey
<1>1. Keyed => OncePerKey
  BY DEF Keyed, KeyedOnce, OncePerKey
<1>. QED BY <1>1, InitSolvent, SolventStep, KeyedInit, KeyedStep, PTL DEF Spec

\* An answer that names a row names the one its key was booked under.
THEOREM AnsweredRight == Spec => []AnsweredFromItsRow
<1>1. Keyed => AnsweredFromItsRow
  BY DEF Keyed
<1>. QED BY <1>1, InitSolvent, SolventStep, KeyedInit, KeyedStep, PTL DEF Spec

-----------------------------------------------------------------------------
(* The service implements the trade book: a call books in the one step that *)
(* commits its transaction, and nothing it does before or after is visible. *)

LEMMA BookInit == Init => Book!Init
BY DEF Init, Book!Init, KeysIn

LEMMA BookDeposit ==
  ASSUME Solvent, NEW c \in Calls, Deposit(c)
  PROVE  Book!Deposit(KeyOf(c))
<1>1. Booking("deposit", Op[c].n, KeyOf(c)) /\ Op[c].n \in Nat \ {0}
  BY DepositEffect
<1>2. txns \in Seq(TxnRows) /\ cash \in Int
  BY DEF Solvent, TypeOK
<1>3. KeyOf(c) \notin KeysIn(txns)
  BY DepositEffect DEF KeysIn
<1>4. KeysIn(txns') = IF KeyOf(c) = NoKey THEN KeysIn(txns) ELSE KeysIn(txns) \cup {KeyOf(c)}
  <2>1. PICK e : txns' = Append(txns, e) /\ e.key = KeyOf(c)
    BY <1>1 DEF Booking
  <2>. QED BY <1>2, <2>1, KeysAppend
<1>5. cash' \in Int /\ cash' > cash
  BY <1>1, <1>2 DEF Booking
<1>6. shares' = shares /\ orders' = orders
  BY DEF Deposit, positions
<1>7. KeysIn(orders)' = KeysIn(orders) /\ KeysIn(txns)' = KeysIn(txns')
  BY <1>6 DEF KeysIn
<1>. QED BY <1>3, <1>4, <1>5, <1>6, <1>7 DEF Book!Deposit, Book!Fresh, Book!Used

\* An order enters the ledger without a key, and the orders under its own.
LEMMA OrderKeys ==
  ASSUME Solvent, NEW c \in Calls, NEW e, orders' = Append(orders, e), e.key = KeyOf(c),
         NEW t, txns' = Append(txns, t), t.key = NoKey,
         \A i \in DOMAIN orders : KeyOf(c) # NoKey => orders[i].key # KeyOf(c)
  PROVE  /\ Book!Fresh(KeyOf(c), KeysIn(orders))
         /\ KeysIn(orders)' = Book!Used(KeyOf(c), KeysIn(orders))
         /\ KeysIn(txns)' = KeysIn(txns)
<1>1. orders \in Seq(OrderRows) /\ txns \in Seq(TxnRows)
  BY DEF Solvent, TypeOK
<1>2. KeysIn(orders') = IF KeyOf(c) = NoKey THEN KeysIn(orders)
                        ELSE KeysIn(orders) \cup {KeyOf(c)}
  BY <1>1, KeysAppend
<1>3. KeysIn(txns') = KeysIn(txns)
  BY <1>1, KeysAppend
<1>4. KeyOf(c) \notin KeysIn(orders)
  BY DEF KeysIn
<1>5. KeysIn(orders)' = KeysIn(orders') /\ KeysIn(txns)' = KeysIn(txns')
  BY DEF KeysIn
<1>. QED BY <1>2, <1>3, <1>4, <1>5 DEF Book!Fresh, Book!Used

LEMMA BookBuy ==
  ASSUME Solvent, NEW c \in Calls, Buy(c)
  PROVE  Book!Buy(KeyOf(c), item[c])
<1> DEFINE p == item[c]
<1>0. cash \in Int /\ shares \in [Products -> Int]
  BY DEF Solvent, TypeOK
<1>1. /\ p \in Products /\ plan[c].shares \in Nat \ {0} /\ plan[c].cashOut \in 0 .. cash
      /\ shares' = [shares EXCEPT ![p] = @ + plan[c].shares]
      /\ Booking("buy", -plan[c].cashOut, NoKey)
  BY BuyEffect
<1>2. PICK e : orders' = Append(orders, e) /\ e.key = KeyOf(c)
  BY DEF Buy, Place
<1>3. PICK t : txns' = Append(txns, t) /\ t.key = NoKey
  BY DEF Buy, Record
<1>4. /\ Book!Fresh(KeyOf(c), KeysIn(orders))
      /\ KeysIn(orders)' = Book!Used(KeyOf(c), KeysIn(orders))
      /\ KeysIn(txns)' = KeysIn(txns)
  BY <1>2, <1>3, OrderKeys, BuyEffect
<1>5. cash' \in 0 .. cash
  BY <1>0, <1>1 DEF Booking
<1>6. Book!Holding(p) /\ shares'[p] > shares[p]
  <2>1. shares'[p] = shares[p] + plan[c].shares /\ shares[p] \in Int
    BY <1>0, <1>1
  <2>2. shares' = [shares EXCEPT ![p] = shares'[p]]
    BY <1>0, <1>1, <2>1
  <2>. QED BY <1>1, <2>1, <2>2 DEF Book!Holding
<1>. QED BY <1>4, <1>5, <1>6 DEF Book!Buy

LEMMA BookSell ==
  ASSUME Solvent, NEW c \in Calls, Sell(c)
  PROVE  Book!Sell(KeyOf(c), item[c])
<1> DEFINE p == item[c]
<1>0. cash \in Int /\ shares \in [Products -> Int]
  BY DEF Solvent, TypeOK
<1>1. p \in Products
  BY SellEffect
<1>2. PICK n \in 1 .. shares[p], gain \in Nat, k \in 0 .. cost[p] :
           /\ Booking("sell", gain, NoKey)
           /\ shares' = [shares EXCEPT ![p] = @ - n]
           /\ Place(c, "sell", n, gain, gain - k)
  BY SellEffect
<1>3. PICK e : orders' = Append(orders, e) /\ e.key = KeyOf(c)
  BY <1>2 DEF Place
<1>4. PICK t : txns' = Append(txns, t) /\ t.key = NoKey
  BY <1>2 DEF Booking
<1>5. /\ Book!Fresh(KeyOf(c), KeysIn(orders))
      /\ KeysIn(orders)' = Book!Used(KeyOf(c), KeysIn(orders))
      /\ KeysIn(txns)' = KeysIn(txns)
  BY <1>3, <1>4, OrderKeys, SellEffect
<1>6. cash' \in Int /\ cash' >= cash
  BY <1>0, <1>2 DEF Booking
<1>7. Book!Holding(p) /\ shares'[p] \in 0 .. shares[p] - 1
  <2>1. shares'[p] = shares[p] - n /\ shares[p] \in Int
    BY <1>0, <1>1, <1>2
  <2>2. shares' = [shares EXCEPT ![p] = shares'[p]]
    BY <1>0, <1>1, <1>2, <2>1
  <2>. QED BY <1>2, <2>1, <2>2 DEF Book!Holding
<1>. QED BY <1>5, <1>6, <1>7 DEF Book!Sell

LEMMA BookStep == Solvent /\ [Next]_vars => [Book!Next]_(Book!book)
<1>0. SUFFICES ASSUME Solvent, [Next]_vars PROVE [Book!Next]_(Book!book)
  OBVIOUS
<1>1. CASE UNCHANGED vars
  BY <1>1 DEF vars, rows, account, positions, Book!book, KeysIn
<1>2. ASSUME NEW c \in Calls, Step(c) \/ Die(c) PROVE [Book!Next]_(Book!book)
  <2>1. CASE Silent
    BY <2>1 DEF Silent, rows, account, positions, Book!book, KeysIn
  <2>2. CASE Deposit(c)
    BY <1>0, <2>2, BookDeposit, OpType DEF Book!Next
  <2>3. CASE Buy(c)
    BY <1>0, <2>3, BookBuy, BuyEffect, OpType DEF Book!Next
  <2>4. CASE Sell(c)
    BY <1>0, <2>4, BookSell, SellEffect, OpType DEF Book!Next
  <2>. QED BY <1>2, <2>1, <2>2, <2>3, <2>4, SilentSteps
<1>. QED BY <1>0, <1>1, <1>2 DEF Next

\* Concurrent, retried, dying calls amount to atomic bookings, one at a time, each
\* key at most once, never with money or shares the customer does not have.
THEOREM TradesAreAtomic == Spec => BookedAtomically
BY BookInit, BookStep, InitSolvent, SolventStep, PTL DEF Spec, BookedAtomically, Book!Spec
-----------------------------------------------------------------------------
(* Nobody waits for ever: whoever waits for the account's row waits for a   *)
(* call inside its transaction, and every check of a transaction leads out  *)
(* of it.                                                                   *)

\* Every amount rounds to some number of cents.
LEMMA RoundMoneySome ==
  ASSUME NEW p \in Nat, NEW q \in Nat \ {0}
  PROVE  \E m \in Nat : m \in RoundMoney(p, q)
<1>. DEFINE d == p \div q
            r == p % q
<1>1. d \in Nat /\ r \in 0 .. q - 1 /\ p = q * d + r
  OBVIOUS
<1>2. d * q = q * d /\ (d + 1) * q = q * d + q /\ q * d \in Nat
  BY <1>1
<1>. HIDE DEF r
<1>3. d * q - p = -r /\ (d + 1) * q - p = q - r
  BY <1>1, <1>2
<1>4. CASE 2 * r <= q
  <2>1. 2 * (d * q - p) \in -q .. q
    BY <1>1, <1>3, <1>4
  <2>. QED BY <1>1, <2>1 DEF RoundMoney
<1>5. CASE ~(2 * r <= q)
  <2>1. 2 * ((d + 1) * q - p) \in -q .. q
    BY <1>1, <1>3, <1>5
  <2>. QED BY <1>1, <2>1 DEF RoundMoney
<1>. QED BY <1>4, <1>5

\* Every redemption has an outcome ...
LEMMA RedemptionSome ==
  ASSUME NEW n \in Nat, NEW nav \in Nat, NEW rate \in Nat
  PROVE  Redemption(n, nav, rate) # {}
<1>1. n * nav \in Nat
  OBVIOUS
<1>2. PICK g \in Nat : g \in Gross(n, nav)
  BY <1>1, ScalesPositive, RoundMoneySome DEF Gross
<1>3. g * rate \in Nat
  OBVIOUS
<1>4. PICK f : f \in FeeOn(g, rate)
  BY <1>3, ScalesPositive, RoundMoneySome DEF FeeOn
<1>5. [shares |-> n, fee |-> f, gross |-> g, cashIn |-> g - f] \in Redemption(n, nav, rate)
  BY <1>2, <1>4 DEF Redemption
<1>. QED BY <1>5

\* ... and so has the cost it takes out of the position.
LEMMA CostOutSome ==
  ASSUME NEW held \in Nat \ {0}, NEW heldCost \in Nat, NEW wanted \in Nat
  PROVE  CostOut(heldCost, wanted, held) # {}
<1>1. heldCost * wanted \in Nat
  OBVIOUS
<1>. QED BY <1>1, RoundMoneySome DEF CostOut

\* A call that collided finds the row it collided with: rows are never deleted.
Resolvable == \A c \in Calls : at[c] = "conflict" => Booked(c) # {}

LEMMA NextResolvable ==
  ASSUME Solvent, Resolvable, NEW c \in Calls, Step(c) \/ Die(c)
  PROVE  Resolvable'
<1>0. at \in [Calls -> Places]
  BY DEF Solvent, TypeOK
<1>1. ASSUME NEW d \in Calls, Booked(d) # {} PROVE Booked(d)' # {}
  <2>1. PICK k \in DOMAIN Table(d) : KeyOf(d) # NoKey /\ Table(d)[k].key = KeyOf(d)
    BY <1>1 DEF Booked
  <2>2. k \in DOMAIN Table(d)' /\ Table(d)'[k] = Table(d)[k]
    BY TablesGrow
  <2>3. KeyOf(d)' = KeyOf(d)
    BY DEF KeyOf, Liquidates
  <2>4. k \in {i \in DOMAIN Table(d)' : KeyOf(d)' # NoKey /\ Table(d)'[i].key = KeyOf(d)'}
    BY <2>1, <2>2, <2>3, Zenon
  <2>. QED BY <2>4 DEF Booked
<1>2. ASSUME NEW d \in Calls, at'[d] = "conflict" PROVE at[d] = "conflict" \/ Booked(d) # {}
  <2>1. CASE Collide(c)
    BY <1>0, <1>2, <2>1 DEF Collide, Goto
  <2>2. CASE ~Collide(c)
    BY <1>0, <1>2, <2>2 DEF Step, Die, RejectDeposit, Lookup, QuoteFails, Quote, LockAccount,
       Deposit, Buy, Sell, Refuse, ReplayConflict, Reply, StartLiquidation, NextItem,
       Fail, Respond, Settled, Goto
  <2>. QED BY <2>1, <2>2
<1>. QED BY <1>1, <1>2 DEF Resolvable

LEMMA ResolvableStep == Solvent /\ Resolvable /\ [Next]_vars => Resolvable'
<1>1. Resolvable /\ UNCHANGED vars => Resolvable'
  BY DEF Resolvable, Booked, Table, KeyOf, Liquidates, vars, rows
<1>. QED BY <1>1, NextResolvable DEF Next

\* A call inside its transaction can go on.
LEMMA LockedGoesOn ==
  ASSUME Solvent, NEW c \in Calls, at[c] = "locked"
  PROVE  CanGoOn(c)
<1>. SUFFICES ASSUME Sells(c), CanDeliver(c)
              PROVE  /\ Redemption(Wanted(c), quote[c], RedemptionRate) # {}
                     /\ CostOut(cost[item[c]], Wanted(c), shares[item[c]]) # {}
  BY DEF CanGoOn
<1>1. item[c] \in Products /\ shares[item[c]] \in Nat /\ cost[item[c]] \in Nat
  BY DEF Solvent, TypeOK, NoOverdraft
<1>2. quote[c] \in Nat
  BY QuoteType DEF Solvent, LockInv, Priced
<1>3. Wanted(c) \in Nat /\ shares[item[c]] \in Nat \ {0}
  BY <1>1 DEF CanDeliver
<1>. QED BY <1>1, <1>2, <1>3, RedemptionSome, CostOutSome, RatesAssumption

LEMMA SomeoneFree == Solvent /\ Resolvable => SomeoneIsFree
<1>. SUFFICES ASSUME Solvent, Resolvable, NEW c \in UnderWay
              PROVE  \E d \in UnderWay : CanGoOn(d)
  BY DEF SomeoneIsFree
<1>1. c \in Calls /\ at[c] \in {"quote", "begin", "locked", "conflict", "next", "reply"}
  BY DEF UnderWay, Solvent, TypeOK, Places
<1>2. CASE at[c] \in {"quote", "next", "reply"}
  BY <1>2 DEF CanGoOn
<1>3. CASE at[c] = "conflict"
  BY <1>1, <1>3 DEF CanGoOn, Resolvable
<1>4. CASE at[c] = "locked"
  BY <1>1, <1>4, LockedGoesOn
<1>5. CASE at[c] = "begin"
  <2>1. CASE lock = Nobody
    BY <1>5, <2>1 DEF CanGoOn
  <2>2. CASE lock # Nobody
    <3>1. lock \in Calls /\ at[lock] = "locked"
      BY <2>2 DEF Solvent, TypeOK, LockInv
    <3>. QED BY <3>1, LockedGoesOn DEF UnderWay
  <2>. QED BY <2>1, <2>2
<1>. QED BY <1>1, <1>2, <1>3, <1>4, <1>5

\* However many calls wait for the row lock, collide or are refused: while a
\* request is under way some request can go on.  That what can go on has a step
\* (GuardsTell) is a fact about ENABLED, for the runs.
THEOREM NobodyIsStuck == Spec => [](SomeoneIsFree /\ (GuardsTell => SomeoneCanGoOn))
<1>1. Init => Resolvable
  BY DEF Init, Resolvable
<1>2. SomeoneIsFree => (GuardsTell => SomeoneCanGoOn)
  BY DEF SomeoneCanGoOn
<1>. QED BY <1>1, <1>2, InitSolvent, SolventStep, ResolvableStep, SomeoneFree, PTL DEF Spec


-----------------------------------------------------------------------------
(* Allocation: the weights of a review.  Every division rounds, and a round  *)
(* of the projection adds up or is normalised again: the lemmas follow the   *)
(* rounding through the sums, for any number of holdings.                    *)

LEMMA SumFunctionIs ==
  ASSUME NEW f PROVE SumFunction(f) = PartialSums(f, DOMAIN f)[DOMAIN f]
BY Zenon DEF SumFunction, SumFunctionOnSet, FoldFunctionOnSet, MapThenFoldSet,
             PartialSums, Unfold, AnyOf

\* A part is the nearest there is: it misses its share by less than the total it is of.
LEMMA PartNear ==
  ASSUME Scale \in Nat, NEW x \in Nat, NEW total \in Nat \ {0}
  PROVE  /\ Parts(x, total) \in Nat
         /\ total * Parts(x, total) - Scale * x \in -total .. total
<1> DEFINE a == x * Scale + total \div 2
           h == total \div 2
           q == a \div total
           r == a % total
<1>1. x * Scale \in Nat /\ h \in Nat /\ h <= total
  BY SMTT(30)
<1>2. a \in Nat /\ a = Scale * x + h
  BY <1>1
<1>. HIDE DEF a, h
<1>3. q \in Nat /\ r \in 0 .. total - 1 /\ a = total * q + r
  BY <1>2, SMTT(30)
<1>4. total * q \in Int /\ Scale * x \in Int
  BY <1>3
<1>5. total * q - Scale * x = h - r
  BY <1>1, <1>2, <1>3, <1>4
<1>6. q = Parts(x, total)
  BY DEF a, Parts
<1>. QED BY <1>1, <1>3, <1>5, <1>6

LEMMA Distributes == \A x, y, z \in Int : x * (y + z) = x * y + x * z
OBVIOUS

LEMMA ProductInt == \A x, y \in Int : x * y \in Int
OBVIOUS

LEMMA OneLess ==
  ASSUME NEW S, IsFiniteSet(S), NEW x \in S
  PROVE  /\ IsFiniteSet(S \ {x}) /\ Cardinality(S \ {x}) \in Nat
         /\ Cardinality(S) = Cardinality(S \ {x}) + 1
<1>1. PICK R : R = S \ {x}
  OBVIOUS
<1>2. IsFiniteSet(R) /\ Cardinality(R) = Cardinality(S) - 1
  BY <1>1, FS_RemoveElement
<1>3. Cardinality(R) \in Nat /\ Cardinality(S) \in Nat
  BY <1>2, FS_CardinalityType
<1>4. Cardinality(S) = Cardinality(R) + 1
  BY <1>2, <1>3
<1>. QED BY <1>1, <1>2, <1>3, <1>4

\* The parts of any of the amounts miss their share by one total each.
LEMMA PartsNear ==
  ASSUME Scale \in Nat, NEW total \in Nat \ {0},
         NEW S, IsFiniteSet(S), NEW f \in [S -> Nat], NEW g \in [S -> Int],
         \A x \in S : g[x] = Parts(f[x], total), NEW s \in SUBSET S
  PROVE  total * PartialSums(g, S)[s] - Scale * PartialSums(f, S)[s]
            \in -(total * Cardinality(s)) .. total * Cardinality(s)
<1> DEFINE F == PartialSums(f, S)
           G == PartialSums(g, S)
           off(t) == total * G[t] - Scale * F[t]
           Bad == {t \in SUBSET S : off(t) \notin -(total * Cardinality(t)) .. total * Cardinality(t)}
<1>1. SUFFICES ASSUME Bad # {} PROVE FALSE
  OBVIOUS
<1>2. PICK b \in Bad : \A t \in Bad : t \subseteq b => t = b
  <2>1. Bad \in SUBSET (SUBSET S)
    OBVIOUS
  <2>. HIDE DEF Bad
  <2>. QED BY <1>1, <2>1, SmallestSet
<1>3. F[b] = Unfold(f, F, b) /\ G[b] = Unfold(g, G, b)
  BY PartialSumsAt
<1>4. b # {}
  <2>1. SUFFICES ASSUME b = {} PROVE FALSE
    OBVIOUS
  <2>2. F[b] = 0 /\ G[b] = 0 /\ Cardinality(b) = 0
    BY <1>3, <2>1, FS_EmptySet, Zenon DEF Unfold
  <2>. QED BY <1>2, <2>2
<1> DEFINE x == AnyOf(b)
           r == b \ {x}
           k == Cardinality(r)
<1>5. x \in b /\ x \in S /\ r \in SUBSET S /\ r \notin Bad
  BY <1>2, <1>4, AnyOfMember
<1>6. off(r) \in -(total * k) .. total * k
  BY <1>5
<1>7. F[b] = f[x] + F[r] /\ G[b] = g[x] + G[r]
  BY <1>3, <1>4 DEF Unfold
<1>8. /\ f[x] \in Nat /\ g[x] \in Int /\ F[r] \in Int /\ G[r] \in Int
      /\ total * g[x] - Scale * f[x] \in -total .. total
  <2>1. f \in [S -> Int]
    OBVIOUS
  <2>2. F[r] \in Int /\ G[r] \in Int
    BY <1>5, <2>1, PartialSumsType
  <2>3. f[x] \in Nat /\ g[x] \in Int /\ g[x] = Parts(f[x], total)
    BY <1>5
  <2>. QED BY <2>2, <2>3, PartNear
<1>9. k \in Nat /\ Cardinality(b) = k + 1
  <2>1. IsFiniteSet(b)
    BY <1>2, FS_Subset
  <2>. QED BY <1>5, <2>1, OneLess
<1>10. off(b) \notin -(total * Cardinality(b)) .. total * Cardinality(b)
  BY <1>2
<1>. HIDE DEF F, G, x, r, k, Bad
<1>11. /\ total * G[b] = total * g[x] + total * G[r]
       /\ Scale * F[b] = Scale * f[x] + Scale * F[r]
       /\ total * Cardinality(b) = total * k + total
  <2>1. total \in Int /\ Scale \in Int /\ k \in Int /\ f[x] \in Int /\ 1 \in Int
    BY <1>8, <1>9
  <2>2. total * 1 = total
    BY <2>1
  <2>. QED BY <1>7, <1>8, <1>9, <2>1, <2>2, Distributes
<1>12. /\ total * g[x] \in Int /\ total * G[r] \in Int /\ Scale * f[x] \in Int
       /\ Scale * F[r] \in Int /\ total * k \in Int
  <2>1. total \in Int /\ Scale \in Int /\ k \in Int /\ f[x] \in Int
    BY <1>8, <1>9
  <2>. QED BY <1>8, <2>1, ProductInt
<1> DEFINE a1 == total * g[x]
           a2 == total * G[r]
           b1 == Scale * f[x]
           b2 == Scale * F[r]
           c == total * k
<1>13. /\ a1 \in Int /\ a2 \in Int /\ b1 \in Int /\ b2 \in Int /\ c \in Int
       /\ a1 - b1 \in -total .. total
       /\ a2 - b2 \in -c .. c
       /\ (a1 + a2) - (b1 + b2) \notin -(c + total) .. c + total
  BY <1>6, <1>8, <1>10, <1>11, <1>12
<1>. HIDE DEF a1, a2, b1, b2, c
<1>. QED BY <1>13

\* Sums of amounts that are not negative, and of as many ones.
LEMMA SumNat ==
  ASSUME NEW S, IsFiniteSet(S), NEW f \in [S -> Nat]
  PROVE  PartialSums(f, S)[S] \in Nat
<1> DEFINE P == PartialSums(f, S)
           Bad == {t \in SUBSET S : P[t] \notin Nat}
<1>1. SUFFICES ASSUME Bad # {} PROVE FALSE
  OBVIOUS
<1>2. PICK b \in Bad : \A t \in Bad : t \subseteq b => t = b
  <2>1. Bad \in SUBSET (SUBSET S)
    OBVIOUS
  <2>. HIDE DEF Bad
  <2>. QED BY <1>1, <2>1, SmallestSet
<1>3. P[b] = Unfold(f, P, b)
  BY PartialSumsAt
<1>4. b # {}
  BY <1>2, <1>3 DEF Unfold
<1>5. AnyOf(b) \in b /\ b \ {AnyOf(b)} \notin Bad
  BY <1>2, <1>4, AnyOfMember
<1>6. P[b \ {AnyOf(b)}] \in Nat /\ f[AnyOf(b)] \in Nat
  BY <1>5
<1>. QED BY <1>2, <1>3, <1>4, <1>6 DEF Unfold

LEMMA SumOnes ==
  ASSUME NEW S, IsFiniteSet(S), NEW f \in [S -> Nat], \A x \in S : f[x] = 1
  PROVE  PartialSums(f, S)[S] = Cardinality(S)
<1> DEFINE P == PartialSums(f, S)
           Bad == {t \in SUBSET S : P[t] # Cardinality(t)}
<1>1. SUFFICES ASSUME Bad # {} PROVE FALSE
  OBVIOUS
<1>2. PICK b \in Bad : \A t \in Bad : t \subseteq b => t = b
  <2>1. Bad \in SUBSET (SUBSET S)
    OBVIOUS
  <2>. HIDE DEF Bad
  <2>. QED BY <1>1, <2>1, SmallestSet
<1>3. P[b] = Unfold(f, P, b)
  BY PartialSumsAt
<1>4. b # {}
  <2>1. SUFFICES ASSUME b = {} PROVE FALSE
    OBVIOUS
  <2>2. P[b] = 0 /\ Cardinality(b) = 0
    BY <1>3, <2>1, FS_EmptySet, Zenon DEF Unfold
  <2>. QED BY <1>2, <2>2
<1> DEFINE x == AnyOf(b)
           r == b \ {x}
<1>5. x \in b /\ r \notin Bad /\ IsFiniteSet(b)
  BY <1>2, <1>4, AnyOfMember, FS_Subset
<1>6. P[r] = Cardinality(r) /\ f[x] = 1
  BY <1>5
<1>7. P[b] = f[x] + P[r]
  BY <1>3, <1>4 DEF Unfold
<1>8. Cardinality(r) \in Nat /\ Cardinality(b) = Cardinality(r) + 1
  BY <1>5, OneLess
<1>9. P[b] # Cardinality(b)
  BY <1>2
<1>. HIDE DEF P, x, r, Bad
<1>. QED BY <1>6, <1>7, <1>8, <1>9

\* A factor on both sides goes.
LEMMA Cancel ==
  ASSUME NEW t \in Nat \ {0}, NEW d \in Int, NEW n \in Nat, t * d \in -(t * n) .. t * n
  PROVE  d \in -n .. n
<1>1. CASE d > n
  <2>1. d - n - 1 \in Nat
    BY <1>1
  <2>2. t * (d - n - 1) >= 0
    BY <2>1
  <2>3. t * (d - n - 1) = t * d - t * n - t
    OBVIOUS
  <2>. QED BY <2>2, <2>3, ProductInt
<1>2. CASE d < -n
  <2>1. -n - d - 1 \in Nat
    BY <1>2
  <2>2. t * (-n - d - 1) >= 0
    BY <2>1
  <2>3. t * (-n - d - 1) = -(t * n) - t * d - t
    OBVIOUS
  <2>. QED BY <2>2, <2>3, ProductInt
<1>. QED BY <1>1, <1>2

\* The parts of a total that is there to share add up to one.
LEMMA SharesAddUp ==
  ASSUME Scale \in Nat, NEW f \in Seq(Nat), SumFunction(f) # 0,
         NEW g \in Seq(Nat), Len(g) = Len(f),
         \A i \in DOMAIN f : g[i] = Parts(f[i], SumFunction(f))
  PROVE  AddsUp(g)
<1>1. PICK n \in Nat : n = Len(f) /\ n = Len(g)
  OBVIOUS
<1>2. PICK D : D = 1 .. n
  OBVIOUS
<1>3. DOMAIN f = D /\ DOMAIN g = D /\ f \in [D -> Nat] /\ g \in [D -> Nat] /\ g \in [D -> Int]
  BY <1>1, <1>2
<1>4. IsFiniteSet(D) /\ Cardinality(D) = n
  BY <1>2, FS_Interval
<1>5. PICK total \in Nat \ {0} : total = SumFunction(f) /\ total = PartialSums(f, D)[D]
  BY <1>3, <1>4, SumNat, SumFunctionIs
<1>6. PICK sum \in Int : sum = SumFunction(g) /\ sum = PartialSums(g, D)[D]
  BY <1>3, <1>4, PartialSumsType, SumFunctionIs
<1>7. total * sum - Scale * total \in -(total * n) .. total * n
  <2>1. D \in SUBSET D /\ \A i \in D : g[i] = Parts(f[i], total)
    BY <1>3, <1>5
  <2>2. total * PartialSums(g, D)[D] - Scale * PartialSums(f, D)[D]
            \in -(total * Cardinality(D)) .. total * Cardinality(D)
    BY <1>3, <1>4, <2>1, PartsNear
  <2>. QED BY <1>4, <1>5, <1>6, <2>2
<1>8. total * (sum - Scale) = total * sum - Scale * total
  OBVIOUS
<1>9. sum - Scale \in -n .. n
  BY <1>7, <1>8, Cancel
<1>. QED BY <1>1, <1>6, <1>9 DEF AddsUp

KeptAmounts(w) == [i \in DOMAIN w |-> IF w[i] > 0 THEN w[i] ELSE 0]

LEMMA EqualAddsUp ==
  ASSUME Scale \in Nat, NEW n \in Nat \ {0}
  PROVE  /\ EqualWeight(n) \in Seq(Nat) /\ Len(EqualWeight(n)) = n
         /\ AddsUp(EqualWeight(n))
<1> DEFINE ones == [i \in 1 .. n |-> 1]
           g == EqualWeight(n)
<1>1. IsFiniteSet(1 .. n) /\ Cardinality(1 .. n) = n
  BY FS_Interval
<1>2. /\ ones \in [1 .. n -> Nat] /\ ones \in Seq(Nat) /\ Len(ones) = n /\ DOMAIN ones = 1 .. n
      /\ \A i \in 1 .. n : ones[i] = 1
  OBVIOUS
<1>3. Parts(1, n) \in Nat
  BY PartNear
<1>4. g \in Seq(Nat) /\ Len(g) = n /\ \A i \in 1 .. n : g[i] = Parts(1, n)
  BY <1>3 DEF EqualWeight
<1>. HIDE DEF ones, g
<1>5. SumFunction(ones) = n
  <2>1. PICK D : D = 1 .. n
    OBVIOUS
  <2>2. PartialSums(ones, D)[D] = Cardinality(D)
    BY <1>1, <1>2, <2>1, SumOnes
  <2>. QED BY <1>1, <1>2, <2>1, <2>2, SumFunctionIs
<1>6. \A i \in DOMAIN ones : g[i] = Parts(ones[i], SumFunction(ones))
  BY <1>2, <1>4, <1>5
<1>7. AddsUp(g)
  BY <1>2, <1>4, <1>5, <1>6, SharesAddUp
<1>. QED BY <1>4, <1>7 DEF g

LEMMA NormalizedAddsUp ==
  ASSUME Scale \in Nat, NEW w \in Seq(Int), w # <<>>
  PROVE  /\ NormalizeWeights(w) \in Seq(Nat) /\ Len(NormalizeWeights(w)) = Len(w)
         /\ AddsUp(NormalizeWeights(w))
<1>1. PICK n \in Nat \ {0} : n = Len(w) /\ DOMAIN w = 1 .. n
  OBVIOUS
<1> DEFINE kept == [i \in 1 .. n |-> IF w[i] > 0 THEN w[i] ELSE 0]
<1>2. \A i \in 1 .. n : (IF w[i] > 0 THEN w[i] ELSE 0) \in Nat
  BY <1>1
<1>3. kept \in Seq(Nat) /\ Len(kept) = n /\ DOMAIN kept = 1 .. n
  BY <1>2
<1>4. NormalizeWeights(w) = IF SumFunction(kept) = 0 THEN EqualWeight(n)
                            ELSE [i \in 1 .. n |-> Parts(kept[i], SumFunction(kept))]
  BY <1>1 DEF NormalizeWeights
<1>. HIDE DEF kept
<1>5. PICK f \in Seq(Nat) : f = kept /\ Len(f) = n /\ DOMAIN f = 1 .. n
  BY <1>3
<1>6. SumFunction(f) \in Nat
  <2>1. PICK D : D = 1 .. n
    OBVIOUS
  <2>2. IsFiniteSet(D)
    BY <2>1, FS_Interval
  <2>3. f \in [D -> Nat] /\ DOMAIN f = D
    BY <1>5, <2>1
  <2>. QED BY <2>2, <2>3, SumNat, SumFunctionIs
<1>7. CASE SumFunction(f) = 0
  BY <1>1, <1>4, <1>5, <1>7, EqualAddsUp
<1>8. CASE SumFunction(f) # 0
  <2>1. PICK total \in Nat \ {0} : total = SumFunction(f)
    BY <1>6, <1>8
  <2> DEFINE g == [i \in 1 .. n |-> Parts(f[i], total)]
  <2>2. ASSUME NEW i \in 1 .. n PROVE Parts(f[i], total) \in Nat
    <3>1. f[i] \in Nat
      BY <1>5
    <3>. QED BY <3>1, PartNear
  <2>3. g \in Seq(Nat) /\ Len(g) = n /\ \A i \in 1 .. n : g[i] = Parts(f[i], total)
    BY <2>2
  <2>4. NormalizeWeights(w) = g
    BY <1>4, <1>5, <2>1, Zenon
  <2>. HIDE DEF g
  <2>5. \A i \in DOMAIN f : g[i] = Parts(f[i], SumFunction(f))
    BY <1>5, <2>1, <2>3
  <2>6. AddsUp(g)
    BY <1>5, <1>8, <2>3, <2>5, SharesAddUp
  <2>. QED BY <1>1, <2>3, <2>4, <2>6
<1>. QED BY <1>7, <1>8

\* Clipping keeps the number of weights and puts each within the limits.
LEMMA ClippedIs ==
  ASSUME NEW v \in Seq(Int), NEW low \in Int, NEW high \in Int
  PROVE  /\ Clipped(v, low, high) \in Seq(Int) /\ Len(Clipped(v, low, high)) = Len(v)
         /\ \A i \in DOMAIN v : Clipped(v, low, high)[i] = Clip(v[i], low, high)
<1>1. PICK n \in Nat : n = Len(v) /\ DOMAIN v = 1 .. n
  OBVIOUS
<1> DEFINE s == [i \in 1 .. n |-> Clip(v[i], low, high)]
<1>2. \A i \in 1 .. n : Clip(v[i], low, high) \in Int
  BY <1>1 DEF Clip
<1>3. s \in Seq(Int) /\ Len(s) = n
  BY <1>2
<1>4. \A i \in 1 .. n : s[i] = Clip(v[i], low, high)
  OBVIOUS
<1>5. Clipped(v, low, high) = SubSeq(s, 1, n)
  BY <1>1 DEF Clipped
<1>. HIDE DEF s
<1>6. SubSeq(s, 1, n) = s
  BY <1>3
<1>. QED BY <1>1, <1>3, <1>4, <1>5, <1>6

LEMMA ReclipAddsUp ==
  ASSUME Scale \in Nat, NEW v \in Seq(Int), v # <<>>, NEW low \in Int, NEW high \in Int
  PROVE  /\ Reclip(v, low, high) \in Seq(Int) /\ Len(Reclip(v, low, high)) = Len(v)
         /\ AddsUp(Reclip(v, low, high))
<1>1. PICK u : u = Clipped(v, low, high)
  OBVIOUS
<1>2. u \in Seq(Int) /\ Len(u) = Len(v)
  BY <1>1, ClippedIs
<1>3. u # <<>>
  BY <1>2
<1>4. Reclip(v, low, high) = IF AddsUp(u) THEN u ELSE NormalizeWeights(u)
  BY <1>1 DEF Reclip
<1>5. NormalizeWeights(u) \in Seq(Int)
  BY <1>2, <1>3, NormalizedAddsUp
<1>. QED BY <1>2, <1>3, <1>4, <1>5, NormalizedAddsUp

\* Weights within the limits that add up are what a round leaves, and what it leaves alone.
LEMMA ReclipSettles ==
  ASSUME NEW v \in Seq(Int), NEW low \in Int, NEW high \in Int, low <= high,
         AddsUp(Clipped(v, low, high))
  PROVE  LET u == Reclip(v, low, high) IN
           /\ u \in Seq(Int) /\ \A i \in DOMAIN u : u[i] \in low .. high
           /\ AddsUp(Clipped(u, low, high)) /\ Reclip(u, low, high) = u
<1>1. PICK u : u = Clipped(v, low, high)
  OBVIOUS
<1>2. Reclip(v, low, high) = u /\ AddsUp(u)
  BY <1>1 DEF Reclip
<1>3. /\ u \in Seq(Int) /\ Len(u) = Len(v)
      /\ \A i \in DOMAIN v : u[i] = Clip(v[i], low, high)
  BY <1>1, ClippedIs
<1>4. \A i \in DOMAIN u : u[i] \in low .. high
  <2>1. DOMAIN u = DOMAIN v /\ \A i \in DOMAIN v : v[i] \in Int
    BY <1>3
  <2>. QED BY <1>3, <2>1 DEF Clip
<1>5. Clipped(u, low, high) = u
  <2>1. PICK x : x = Clipped(u, low, high)
    OBVIOUS
  <2>2. x \in Seq(Int) /\ Len(x) = Len(u) /\ \A i \in DOMAIN u : x[i] = Clip(u[i], low, high)
    BY <1>3, <2>1, ClippedIs
  <2>3. \A i \in DOMAIN u : x[i] = u[i]
    BY <1>4, <2>2 DEF Clip
  <2>. QED BY <1>3, <2>1, <2>2, <2>3
<1>6. Reclip(u, low, high) = u
  BY <1>2, <1>5 DEF Reclip
<1>. QED BY <1>2, <1>3, <1>4, <1>5, <1>6

-----------------------------------------------------------------------------
(* The rounds of the projection. *)

\* it[k]: the weights after k rounds.
RoundsFrom(w, low, high, it, n) ==
  it = [k \in 0 .. n |-> IF k = 0 THEN NormalizeWeights(w) ELSE Reclip(it[k - 1], low, high)]

WeightsAfter(w, low, high) == CHOOSE it : RoundsFrom(w, low, high, it, Rounds)

LEMMA ConstrainedIs ==
  ASSUME NEW w, NEW low, NEW high
  PROVE  ConstrainedWeights(w, low, high) =
           IF Feasible(Len(w), low, high) THEN WeightsAfter(w, low, high)[Rounds]
                                          ELSE NormalizeWeights(w)
BY Zenon DEF ConstrainedWeights, WeightsAfter, RoundsFrom

\* The recursion of the projection has a solution.
LEMMA RoundsExist ==
  ASSUME Rounds \in Nat, NEW w, NEW low, NEW high
  PROVE  RoundsFrom(w, low, high, WeightsAfter(w, low, high), Rounds)
<1> DEFINE Go(v) == Reclip(v, low, high)
           Solves(it, n) == it = [k \in 0 .. n |-> IF k = 0 THEN NormalizeWeights(w) ELSE Go(it[k - 1])]
           N == {n \in Nat : \E it : Solves(it, n)}
<1>1. 0 \in N
  <2> DEFINE it == [k \in 0 .. 0 |-> NormalizeWeights(w)]
  <2>1. Solves(it, 0)
    OBVIOUS
  <2>. QED BY <2>1
<1>2. ASSUME NEW n \in N PROVE n + 1 \in N
  <2>1. PICK it : Solves(it, n)
    OBVIOUS
  <2>. HIDE DEF Go
  <2> DEFINE jt == [k \in 0 .. n + 1 |-> IF k = 0 THEN NormalizeWeights(w) ELSE Go(it[k - 1])]
  <2>2. \A k \in 0 .. n : it[k] = IF k = 0 THEN NormalizeWeights(w) ELSE Go(it[k - 1])
    BY <2>1
  <2>3. \A k \in 0 .. n : jt[k] = it[k]
    BY <2>2
  <2>4. \A k \in 0 .. n + 1 : k # 0 => k - 1 \in 0 .. n
    OBVIOUS
  <2>5. \A k \in 0 .. n + 1 : k # 0 => Go(it[k - 1]) = Go(jt[k - 1])
    BY <2>3, <2>4, Zenon
  <2>6. Solves(jt, n + 1)
    BY <2>5, Zenon
  <2>7. n + 1 \in Nat /\ \E x : Solves(x, n + 1)
    <3>1. n + 1 \in Nat
      OBVIOUS
    <3>. QED BY <2>6, <3>1, Zenon
  <2>. HIDE DEF Solves
  <2>. QED BY <2>7
<1>3. N = Nat
  <2>1. N \in SUBSET Nat
    OBVIOUS
  <2>. HIDE DEF N
  <2>. QED BY <1>1, <1>2, <2>1, SetInduction
<1>4. PICK it : Solves(it, Rounds)
  BY <1>3
<1>5. RoundsFrom(w, low, high, it, Rounds)
  BY <1>4, Zenon DEF RoundsFrom
<1>. QED BY <1>5, Zenon DEF WeightsAfter

LEMMA RoundsAre ==
  ASSUME Rounds \in Nat, NEW w, NEW low, NEW high
  PROVE  /\ WeightsAfter(w, low, high)[0] = NormalizeWeights(w)
         /\ \A k \in 1 .. Rounds : WeightsAfter(w, low, high)[k]
                                      = Reclip(WeightsAfter(w, low, high)[k - 1], low, high)
<1> DEFINE Go(v) == Reclip(v, low, high)
<1>1. PICK it : it = WeightsAfter(w, low, high)
  OBVIOUS
<1>2. RoundsFrom(w, low, high, it, Rounds)
  BY <1>1, RoundsExist
<1>3. it = [k \in 0 .. Rounds |-> IF k = 0 THEN NormalizeWeights(w) ELSE Go(it[k - 1])]
  BY <1>2, Zenon DEF RoundsFrom
<1>. HIDE DEF Go
<1>4. it[0] = NormalizeWeights(w)
  BY <1>3
<1>5. \A k \in 1 .. Rounds : it[k] = Go(it[k - 1])
  BY <1>3
<1>. QED BY <1>1, <1>4, <1>5, Zenon DEF Go

LEMMA EveryRoundAddsUp ==
  ASSUME Scale \in Nat, Rounds \in Nat,
         NEW w \in Seq(Int), w # <<>>, NEW low \in Int, NEW high \in Int, NEW k \in 0 .. Rounds
  PROVE  /\ WeightsAfter(w, low, high)[k] \in Seq(Int)
         /\ Len(WeightsAfter(w, low, high)[k]) = Len(w)
         /\ AddsUp(WeightsAfter(w, low, high)[k])
<1>1. PICK it : it = WeightsAfter(w, low, high)
  OBVIOUS
<1> DEFINE Good(v) == v \in Seq(Int) /\ Len(v) = Len(w) /\ AddsUp(v)
           N == {n \in Nat : n <= Rounds => Good(it[n])}
<1>2. it[0] = NormalizeWeights(w) /\ \A n \in 1 .. Rounds : it[n] = Reclip(it[n - 1], low, high)
  BY <1>1, RoundsAre
<1>3. Good(it[0])
  <2>1. NormalizeWeights(w) \in Seq(Int)
    BY NormalizedAddsUp
  <2>. QED BY <1>2, <2>1, NormalizedAddsUp
<1>4. ASSUME NEW v, Good(v) PROVE Good(Reclip(v, low, high))
  <2>1. v \in Seq(Int) /\ Len(v) = Len(w) /\ v # <<>>
    BY <1>4
  <2>. QED BY <2>1, ReclipAddsUp
<1>. HIDE DEF Good
<1>5. 0 \in N
  BY <1>3
<1>6. ASSUME NEW n \in N PROVE n + 1 \in N
  <2>1. SUFFICES ASSUME n + 1 <= Rounds PROVE Good(it[n + 1])
    OBVIOUS
  <2>2. n + 1 \in 1 .. Rounds /\ (n + 1) - 1 = n /\ n <= Rounds
    BY <2>1
  <2>3. Good(it[n])
    BY <2>2
  <2>. QED BY <1>2, <1>4, <2>2, <2>3
<1>7. N = Nat
  <2>1. N \in SUBSET Nat
    OBVIOUS
  <2>. HIDE DEF N
  <2>. QED BY <1>5, <1>6, <2>1, SetInduction
<1>8. Good(it[k])
  BY <1>7
<1>. QED BY <1>1, <1>8 DEF Good

\* The targets and the reference weights of a review are one portfolio: whatever the holdings
\* weigh, whatever the limits, feasible or not, and however many rounds the projection takes
\* (none, or too few), there is a weight for each holding and they add up to one, but for a part
\* of rounding for each (normalize_weights, constrained_weights).
THEOREM WeightsAddUp ==
  ASSUME Scale \in Nat, Rounds \in Nat,
         NEW w \in Seq(Int), w # <<>>, NEW low \in Int, NEW high \in Int
  PROVE  /\ Len(ConstrainedWeights(w, low, high)) = Len(w)
         /\ AddsUp(ConstrainedWeights(w, low, high))
<1>1. Rounds \in 0 .. Rounds
  OBVIOUS
<1>2. /\ Len(WeightsAfter(w, low, high)[Rounds]) = Len(w)
      /\ AddsUp(WeightsAfter(w, low, high)[Rounds])
  BY <1>1, EveryRoundAddsUp
<1>. QED BY <1>2, ConstrainedIs, NormalizedAddsUp

\* Some round of the projection clips the weights and finds that they still add up.
Settles(w, low, high) ==
  \E k \in 1 .. Rounds : AddsUp(Clipped(WeightsAfter(w, low, high)[k - 1], low, high))

\* The projection never undoes what it has reached: if a round finds that the clipped weights
\* add up, every target is within the limits exactly, whatever the rounds after it do.  That a
\* round does within the limit of rounds is for the runs (KeepsLimits).
THEOREM SettledTargetsKeepLimits ==
  ASSUME Scale \in Nat, Rounds \in Nat,
         NEW w \in Seq(Int), w # <<>>, NEW low \in Int, NEW high \in Int,
         Feasible(Len(w), low, high), Settles(w, low, high)
  PROVE  \A i \in 1 .. Len(w) : ConstrainedWeights(w, low, high)[i] \in low .. high
<1>1. PICK it : it = WeightsAfter(w, low, high)
  OBVIOUS
<1> DEFINE AtRest(v) ==
             /\ v \in Seq(Int)
             /\ \A i \in DOMAIN v : v[i] \in low .. high
             /\ AddsUp(Clipped(v, low, high))
             /\ Reclip(v, low, high) = v
<1>2. low <= high
  BY DEF Feasible
<1>3. \A n \in 1 .. Rounds : it[n] = Reclip(it[n - 1], low, high)
  BY <1>1, RoundsAre
<1>4. PICK k \in 1 .. Rounds : AddsUp(Clipped(it[k - 1], low, high))
  BY <1>1 DEF Settles
<1>5. AtRest(it[k])
  <2>1. k - 1 \in 0 .. Rounds
    OBVIOUS
  <2>2. it[k - 1] \in Seq(Int)
    BY <1>1, <2>1, EveryRoundAddsUp
  <2>3. PICK v \in Seq(Int) : v = it[k - 1]
    BY <2>2
  <2>4. AddsUp(Clipped(v, low, high)) /\ it[k] = Reclip(v, low, high)
    BY <1>3, <1>4, <2>3
  <2>. QED BY <1>2, <2>4, ReclipSettles
<1> DEFINE N == {n \in Nat : k <= n /\ n <= Rounds => AtRest(it[n])}
<1>6. ASSUME NEW v, AtRest(v) PROVE Reclip(v, low, high) = v
  BY <1>6, Zenon
<1>. HIDE DEF AtRest
<1>7. 0 \in N
  OBVIOUS
<1>8. ASSUME NEW n \in N PROVE n + 1 \in N
  <2>1. SUFFICES ASSUME k <= n + 1, n + 1 <= Rounds PROVE AtRest(it[n + 1])
    OBVIOUS
  <2>2. n + 1 \in 1 .. Rounds /\ (n + 1) - 1 = n /\ n <= Rounds
    BY <2>1
  <2>3. CASE k = n + 1
    BY <1>5, <2>3
  <2>4. CASE k <= n
    BY <1>3, <1>6, <2>2, <2>4
  <2>. QED BY <2>1, <2>3, <2>4
<1>9. N = Nat
  <2>1. N \in SUBSET Nat
    OBVIOUS
  <2>. HIDE DEF N
  <2>. QED BY <1>7, <1>8, <2>1, SetInduction
<1>10. AtRest(it[Rounds])
  BY <1>9
<1>11. Rounds \in 0 .. Rounds
  OBVIOUS
<1>12. it[Rounds] \in Seq(Int) /\ Len(it[Rounds]) = Len(w)
  BY <1>1, <1>11, EveryRoundAddsUp
<1>13. \A i \in DOMAIN it[Rounds] : it[Rounds][i] \in low .. high
  BY <1>10 DEF AtRest
<1>14. ConstrainedWeights(w, low, high) = it[Rounds]
  BY <1>1, ConstrainedIs
<1>. QED BY <1>12, <1>13, <1>14
=============================================================================
