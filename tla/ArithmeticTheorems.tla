------------------------- MODULE ArithmeticTheorems -------------------------
(***************************************************************************)
(* What Total and Power compute. They are recursive functions over 0..n,   *)
(* so these facts need induction on n. NatSetInduction states induction    *)
(* for a set of numbers instead of a predicate; it rests on the library's  *)
(* theorem that strict inclusion of finite sets is well founded.           *)
(***************************************************************************)
EXTENDS Arithmetic, FiniteSetTheorems, TLAPS

\* Every nonempty set of naturals has a least element: among the intervals
\* 0..x with x in the set, one is minimal for inclusion.
LEMMA LeastElement ==
    ASSUME NEW T \in SUBSET Nat, NEW n \in T
    PROVE  \E x \in T : \A y \in T : x <= y
<1> DEFINE S == 0..n
           R == StrictSubsetOrdering(S)
           Q == {0..x : x \in T \cap S}
<1>1. IsWellFoundedOn(R, SUBSET S)
  <2>1. IsFiniteSet(S)
    BY FS_Interval
  <2> QED
    BY <2>1, FS_StrictSubsetOrderingWellFounded, FS_FiniteSubsetsOfFinite
<1>2. Q \subseteq SUBSET S /\ Q # {}
  BY SMT
<1>3. PICK q \in Q : \A p \in Q : ~ (<<p, q>> \in R)
  <2> HIDE DEF R, Q, S
  <2> QED BY <1>1, <1>2, WFMin
<1>4. PICK x \in T \cap S : q = 0..x
  OBVIOUS
<1>5. ASSUME NEW y \in T, y < x PROVE FALSE
  <2>1. 0..y \in Q /\ 0..y \subseteq q
    BY <1>4, <1>5, SMT
  <2>2. x \in q /\ x \notin 0..y
    BY <1>4, <1>5, SMT
  <2>3. <<0..y, q>> \in R
    BY <2>1, <2>2, <1>2 DEF StrictSubsetOrdering
  <2> QED BY <2>1, <2>3, <1>3
<1> QED BY <1>5, SMT

\* Induction on the naturals, for a set.
LEMMA NatSetInduction ==
    ASSUME NEW T \in SUBSET Nat, 0 \in T, \A n \in T : n + 1 \in T
    PROVE  \A n \in Nat : n \in T
<1> SUFFICES ASSUME NEW m \in Nat \ T PROVE FALSE
  OBVIOUS
<1>1. PICK x \in Nat \ T : \A y \in Nat \ T : x <= y
  BY LeastElement, Zenon
<1>2. x # 0 /\ x - 1 \in Nat
  BY <1>1, SMT
<1>3. x - 1 \in T
  BY <1>1, <1>2, SMT
<1> QED BY <1>3, <1>1, SMT

-----------------------------------------------------------------------------
\* s is the function of partial sums that the definition of Total chooses.
IsSums(s, f, n) == s = [i \in 0..n |-> IF i = 0 THEN 0 ELSE s[i - 1] + f[i]]

\* Partial sums exist, so the recursive definition denotes one of them.
LEMMA SumsExist ==
    ASSUME NEW f, NEW n \in Nat
    PROVE  \E s : IsSums(s, f, n)
<1> DEFINE T == {k \in Nat : \E s : IsSums(s, f, k)}
<1>1. 0 \in T
  <2>1. IsSums([i \in 0..0 |-> 0], f, 0)
    BY SMT DEF IsSums
  <2> QED BY <2>1
<1>2. ASSUME NEW k \in T PROVE k + 1 \in T
  <2>1. PICK s : IsSums(s, f, k)
    OBVIOUS
  <2> DEFINE t == [i \in 0..(k + 1) |-> IF i = k + 1 THEN s[k] + f[k + 1] ELSE s[i]]
  <2>2. ASSUME NEW i \in 0..(k + 1) PROVE t[i] = IF i = 0 THEN 0 ELSE t[i - 1] + f[i]
    BY <2>1, SMT DEF IsSums
  <2>3. IsSums(t, f, k + 1)
    BY <2>2 DEF IsSums
  <2> QED BY <2>3
<1>3. T \in SUBSET Nat
  OBVIOUS
<1>4. \A k \in Nat : k \in T
  <2> HIDE DEF T
  <2> QED BY <1>1, <1>2, <1>3, NatSetInduction
<1> QED BY <1>4

\* Partial sums agree as far as both go.
LEMMA SumsAgree ==
    ASSUME NEW f, NEW m \in Nat, NEW n \in Nat, NEW s, NEW t,
           IsSums(s, f, m), IsSums(t, f, n)
    PROVE  \A i \in Nat : i <= m /\ i <= n => s[i] = t[i]
<1> DEFINE T == {i \in Nat : i <= m /\ i <= n => s[i] = t[i]}
<1>1. 0 \in T
  BY SMT DEF IsSums
<1>2. ASSUME NEW i \in T PROVE i + 1 \in T
  <2> SUFFICES ASSUME i + 1 <= m, i + 1 <= n PROVE s[i + 1] = t[i + 1]
    OBVIOUS
  <2>1. s[i] = t[i]
    BY SMT
  <2>2. s[i + 1] = s[i] + f[i + 1] /\ t[i + 1] = t[i] + f[i + 1]
    BY SMT DEF IsSums
  <2> QED BY <2>1, <2>2
<1>3. T \in SUBSET Nat
  OBVIOUS
<1>4. \A i \in Nat : i \in T
  <2> HIDE DEF T
  <2> QED BY <1>1, <1>2, <1>3, NatSetInduction
<1> QED BY <1>4

LEMMA TotalIsSum ==
    ASSUME NEW f, NEW n \in Nat
    PROVE  \E s : IsSums(s, f, n) /\ Total(f, n) = s[n]
BY SumsExist DEF Total, IsSums

\* The recursion equations of Total.
LEMMA TotalDef ==
    ASSUME NEW f
    PROVE  /\ Total(f, 0) = 0
           /\ \A n \in Nat : Total(f, n + 1) = Total(f, n) + f[n + 1]
<1>1. Total(f, 0) = 0
  <2>1. PICK s : IsSums(s, f, 0) /\ Total(f, 0) = s[0]
    BY TotalIsSum
  <2> QED BY <2>1, SMT DEF IsSums
<1>2. ASSUME NEW n \in Nat PROVE Total(f, n + 1) = Total(f, n) + f[n + 1]
  <2>1. PICK s : IsSums(s, f, n) /\ Total(f, n) = s[n]
    BY TotalIsSum
  <2>2. PICK t : IsSums(t, f, n + 1) /\ Total(f, n + 1) = t[n + 1]
    BY TotalIsSum
  <2>3. s[n] = t[n]
    BY <2>1, <2>2, SumsAgree
  <2>4. t[n + 1] = t[n] + f[n + 1]
    BY <2>2, SMT DEF IsSums
  <2> QED BY <2>1, <2>2, <2>3, <2>4
<1> QED BY <1>1, <1>2

-----------------------------------------------------------------------------
\* A sum of naturals is a natural.
LEMMA TotalNat ==
    ASSUME NEW n \in Nat, NEW f, \A i \in 1..n : f[i] \in Nat
    PROVE  Total(f, n) \in Nat
<1> DEFINE T == {k \in Nat : k <= n => Total(f, k) \in Nat}
<1>1. 0 \in T
  BY TotalDef
<1>2. ASSUME NEW k \in T PROVE k + 1 \in T
  <2> SUFFICES ASSUME k + 1 <= n PROVE Total(f, k + 1) \in Nat
    OBVIOUS
  <2>1. Total(f, k) \in Nat /\ f[k + 1] \in Nat
    BY SMT
  <2> QED BY <2>1, TotalDef
<1>3. T \in SUBSET Nat
  OBVIOUS
<1>4. \A k \in Nat : k \in T
  <2> HIDE DEF T
  <2> QED BY <1>1, <1>2, <1>3, NatSetInduction
<1> QED BY <1>4

\* A sum of integers is an integer.
LEMMA TotalInt ==
    ASSUME NEW n \in Nat, NEW f, \A i \in 1..n : f[i] \in Int
    PROVE  Total(f, n) \in Int
<1> DEFINE T == {k \in Nat : k <= n => Total(f, k) \in Int}
<1>1. 0 \in T
  BY TotalDef
<1>2. ASSUME NEW k \in T PROVE k + 1 \in T
  <2> SUFFICES ASSUME k + 1 <= n PROVE Total(f, k + 1) \in Int
    OBVIOUS
  <2>1. Total(f, k) \in Int /\ f[k + 1] \in Int
    BY SMT
  <2> QED BY <2>1, TotalDef
<1>3. T \in SUBSET Nat
  OBVIOUS
<1>4. \A k \in Nat : k \in T
  <2> HIDE DEF T
  <2> QED BY <1>1, <1>2, <1>3, NatSetInduction
<1> QED BY <1>4

\* A sum is linear: the terms of h are those of f plus c times those of g.
LEMMA TotalLinear ==
    ASSUME NEW n \in Nat, NEW f, NEW g, NEW h, NEW c \in Int,
           \A i \in 1..n : f[i] \in Int /\ g[i] \in Int /\ h[i] = f[i] + c * g[i]
    PROVE  Total(h, n) = Total(f, n) + c * Total(g, n)
<1> DEFINE T == {k \in Nat : k <= n =>
                    /\ Total(f, k) \in Int
                    /\ Total(g, k) \in Int
                    /\ Total(h, k) = Total(f, k) + c * Total(g, k)}
<1>1. 0 \in T
  BY TotalDef, SMT
<1>2. ASSUME NEW k \in T PROVE k + 1 \in T
  <2> SUFFICES ASSUME k + 1 <= n
               PROVE  /\ Total(f, k + 1) \in Int
                      /\ Total(g, k + 1) \in Int
                      /\ Total(h, k + 1) = Total(f, k + 1) + c * Total(g, k + 1)
    OBVIOUS
  <2>1. /\ Total(f, k) \in Int
        /\ Total(g, k) \in Int
        /\ Total(h, k) = Total(f, k) + c * Total(g, k)
    BY SMT
  <2>2. /\ f[k + 1] \in Int /\ g[k + 1] \in Int
        /\ h[k + 1] = f[k + 1] + c * g[k + 1]
    BY SMT
  <2>3. /\ Total(f, k + 1) = Total(f, k) + f[k + 1]
        /\ Total(g, k + 1) = Total(g, k) + g[k + 1]
        /\ Total(h, k + 1) = Total(h, k) + h[k + 1]
    BY TotalDef
  <2>4. \A x, y \in Int : c * (x + y) = c * x + c * y
    BY SMT
  <2> QED BY <2>1, <2>2, <2>3, <2>4, SMT
<1>3. T \in SUBSET Nat
  OBVIOUS
<1>4. \A k \in Nat : k \in T
  <2> HIDE DEF T
  <2> QED BY <1>1, <1>2, <1>3, NatSetInduction
<1> QED BY <1>4

\* Sums of equal terms are equal, and a sum of zeros is zero.
LEMMA TotalEqual ==
    ASSUME NEW n \in Nat, NEW f, NEW g,
           \A i \in 1..n : f[i] \in Int /\ g[i] = f[i]
    PROVE  Total(g, n) = Total(f, n)
<1>1. Total(g, n) = Total(f, n) + 0 * Total(f, n)
  <2>1. \A i \in 1..n : f[i] \in Int /\ g[i] = f[i] + 0 * f[i]
    BY SMT
  <2> QED BY <2>1, TotalLinear
<1> QED BY <1>1, TotalInt, SMT

LEMMA TotalZero ==
    ASSUME NEW n \in Nat, NEW f, \A i \in 1..n : f[i] = 0
    PROVE  Total(f, n) = 0
<1> DEFINE T == {k \in Nat : k <= n => Total(f, k) = 0}
<1>1. 0 \in T
  BY TotalDef
<1>2. ASSUME NEW k \in T PROVE k + 1 \in T
  <2> SUFFICES ASSUME k + 1 <= n PROVE Total(f, k + 1) = 0
    OBVIOUS
  <2>1. Total(f, k) = 0 /\ f[k + 1] = 0
    BY SMT
  <2> QED BY <2>1, TotalDef
<1>3. T \in SUBSET Nat
  OBVIOUS
<1>4. \A k \in Nat : k \in T
  <2> HIDE DEF T
  <2> QED BY <1>1, <1>2, <1>3, NatSetInduction
<1> QED BY <1>4

\* A sum of which only the term at j is not zero.
LEMMA TotalSingle ==
    ASSUME NEW n \in Nat, NEW f, NEW j \in 1..n,
           f[j] \in Int, \A i \in 1..n : i # j => f[i] = 0
    PROVE  Total(f, n) = f[j]
<1> DEFINE T == {k \in Nat : k <= n => Total(f, k) = IF k < j THEN 0 ELSE f[j]}
<1>1. 0 \in T
  BY TotalDef, SMT
<1>2. ASSUME NEW k \in T PROVE k + 1 \in T
  <2> SUFFICES ASSUME k + 1 <= n
               PROVE  Total(f, k + 1) = IF k + 1 < j THEN 0 ELSE f[j]
    OBVIOUS
  <2>1. Total(f, k) = IF k < j THEN 0 ELSE f[j]
    BY SMT
  <2>2. Total(f, k + 1) = Total(f, k) + f[k + 1]
    BY TotalDef
  <2>3. k + 1 # j => f[k + 1] = 0
    BY SMT
  <2> QED BY <2>1, <2>2, <2>3, SMT
<1>3. T \in SUBSET Nat
  OBVIOUS
<1>4. \A k \in Nat : k \in T
  <2> HIDE DEF T
  <2> QED BY <1>1, <1>2, <1>3, NatSetInduction
<1> QED BY <1>4, SMT

\* Changing one term changes the sum by as much.
LEMMA TotalUpdate ==
    ASSUME NEW n \in Nat, NEW f, NEW g, NEW j \in 1..n,
           \A i \in 1..n : f[i] \in Int /\ g[i] \in Int,
           \A i \in 1..n : i # j => g[i] = f[i]
    PROVE  Total(g, n) = Total(f, n) + (g[j] - f[j])
<1> DEFINE d == [i \in 1..n |-> IF i = j THEN g[j] - f[j] ELSE 0]
<1>1. Total(d, n) = g[j] - f[j]
  BY TotalSingle, SMT
<1>2. Total(g, n) = Total(f, n) + 1 * Total(d, n)
  <2>1. \A i \in 1..n : f[i] \in Int /\ d[i] \in Int /\ g[i] = f[i] + 1 * d[i]
    BY SMT
  <2> HIDE DEF d
  <2> QED BY <2>1, TotalLinear
<1>3. Total(f, n) \in Int
  BY TotalInt
<1> QED BY <1>1, <1>2, <1>3, SMT

\* Sums are monotone in their terms.
LEMMA TotalMonotone ==
    ASSUME NEW n \in Nat, NEW f, NEW g,
           \A i \in 1..n : f[i] \in Int /\ g[i] \in Int /\ f[i] <= g[i]
    PROVE  Total(f, n) <= Total(g, n)
<1> DEFINE d == [i \in 1..n |-> g[i] - f[i]]
<1>1. \A i \in 1..n : d[i] \in Nat /\ f[i] \in Int /\ g[i] = f[i] + 1 * d[i]
  BY SMT
<1> HIDE DEF d
<1>2. Total(d, n) \in Nat
  BY <1>1, TotalNat
<1>3. Total(g, n) = Total(f, n) + 1 * Total(d, n)
  <2>1. \A i \in 1..n : f[i] \in Int /\ d[i] \in Int /\ g[i] = f[i] + 1 * d[i]
    BY <1>1, SMT
  <2>2. 1 \in Int
    OBVIOUS
  <2> QED BY ONLY n \in Nat, <2>1, <2>2, TotalLinear
<1>4. Total(f, n) \in Int
  BY TotalInt
<1> QED BY <1>2, <1>3, <1>4, SMT

\* No term exceeds a sum of naturals.
LEMMA TotalBoundsTerm ==
    ASSUME NEW n \in Nat, NEW f, \A i \in 1..n : f[i] \in Nat, NEW j \in 1..n
    PROVE  f[j] <= Total(f, n)
<1> DEFINE g == [i \in 1..n |-> IF i = j THEN f[j] ELSE 0]
<1>1. Total(g, n) = f[j]
  BY TotalSingle, SMT
<1>2. Total(g, n) <= Total(f, n)
  BY TotalMonotone, SMT
<1> QED BY <1>1, <1>2

-----------------------------------------------------------------------------
\* p is the function of powers that the definition of Power chooses.
IsPowers(p, b, n) == p = [i \in 0..n |-> IF i = 0 THEN 1 ELSE b * p[i - 1]]

LEMMA PowersExist ==
    ASSUME NEW b, NEW n \in Nat
    PROVE  \E p : IsPowers(p, b, n)
<1> DEFINE T == {k \in Nat : \E p : IsPowers(p, b, k)}
<1>1. 0 \in T
  <2>1. IsPowers([i \in 0..0 |-> 1], b, 0)
    BY SMT DEF IsPowers
  <2> QED BY <2>1
<1>2. ASSUME NEW k \in T PROVE k + 1 \in T
  <2>1. PICK p : IsPowers(p, b, k)
    OBVIOUS
  <2> DEFINE q == [i \in 0..(k + 1) |-> IF i = k + 1 THEN b * p[k] ELSE p[i]]
  <2>2. ASSUME NEW i \in 0..(k + 1) PROVE q[i] = IF i = 0 THEN 1 ELSE b * q[i - 1]
    BY <2>1, SMT DEF IsPowers
  <2>3. IsPowers(q, b, k + 1)
    BY <2>2 DEF IsPowers
  <2> QED BY <2>3
<1>3. T \in SUBSET Nat
  OBVIOUS
<1>4. \A k \in Nat : k \in T
  <2> HIDE DEF T
  <2> QED BY <1>1, <1>2, <1>3, NatSetInduction
<1> QED BY <1>4

LEMMA PowerIsPower ==
    ASSUME NEW b, NEW n \in Nat
    PROVE  \E p : IsPowers(p, b, n) /\ Power(b, n) = p[n]
BY PowersExist DEF Power, IsPowers

\* A power of a base above 1 exceeds its exponent; in particular it is not 0.
LEMMA PowerExceedsExponent ==
    ASSUME NEW b \in Nat \ {0, 1}, NEW n \in Nat
    PROVE  Power(b, n) \in Nat /\ Power(b, n) > n
<1>1. PICK p : IsPowers(p, b, n) /\ Power(b, n) = p[n]
  BY PowerIsPower
<1> DEFINE T == {k \in Nat : k <= n => p[k] \in Nat /\ p[k] > k}
<1>2. 0 \in T
  BY <1>1, SMT DEF IsPowers
<1>3. ASSUME NEW k \in T PROVE k + 1 \in T
  <2> SUFFICES ASSUME k + 1 <= n PROVE p[k + 1] \in Nat /\ p[k + 1] > k + 1
    OBVIOUS
  <2>1. p[k] \in Nat /\ p[k] > k
    BY SMT
  <2>2. p[k + 1] = b * p[k]
    BY <1>1, SMT DEF IsPowers
  <2>3. \A x \in Nat : b * x \in Nat /\ b * x >= 2 * x
    BY SMT
  <2> QED BY <2>1, <2>2, <2>3, SMT
<1>4. T \in SUBSET Nat
  OBVIOUS
<1>5. \A k \in Nat : k \in T
  <2> HIDE DEF T
  <2> QED BY <1>2, <1>3, <1>4, NatSetInduction
<1> QED BY <1>1, <1>5

-----------------------------------------------------------------------------
\* Truncating division.
LEMMA DivBounds ==
    ASSUME NEW a \in Nat, NEW b \in Nat \ {0}
    PROVE  /\ a \div b \in Nat
           /\ b * (a \div b) <= a
           /\ a < b * (a \div b) + b
BY SMT

LEMMA DivMonotone ==
    ASSUME NEW a \in Nat, NEW c \in Nat, NEW b \in Nat \ {0}, a <= c
    PROVE  a \div b <= c \div b
<1> SUFFICES ASSUME c \div b + 1 <= a \div b PROVE FALSE
  BY DivBounds, SMT
<1>1. b * (c \div b + 1) <= b * (a \div b)
  BY DivBounds, SMT
<1>2. b * (c \div b + 1) = b * (c \div b) + b
  BY DivBounds, SMT
<1> QED BY <1>1, <1>2, DivBounds, SMT

\* A quotient is below a bound when the bound's multiple covers the dividend.
LEMMA DivBelow ==
    ASSUME NEW a \in Nat, NEW b \in Nat \ {0}, NEW q \in Nat, a <= b * q
    PROVE  a \div b <= q
<1> SUFFICES ASSUME q + 1 <= a \div b PROVE FALSE
  BY DivBounds, SMT
<1>1. b * (q + 1) <= b * (a \div b)
  BY DivBounds, SMT
<1>2. b * (q + 1) = b * q + b
  BY SMT
<1> QED BY <1>1, <1>2, DivBounds, SMT

LEMMA ProductMonotone ==
    ASSUME NEW a \in Nat, NEW b \in Nat, NEW c \in Nat, NEW d \in Nat, a <= c, b <= d
    PROVE  a * b <= c * d /\ a * b \in Nat
BY SMT

=============================================================================
