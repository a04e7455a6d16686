----------------------------- MODULE ViewsProofs -----------------------------
(***************************************************************************)
(* Theorems about what the owner is shown, for every choice of constants   *)
(* that LedgerAssumptions allows: the summaries of months on a plain clock *)
(* and the one spending behind all views, the walk through the pages, the  *)
(* report that four statements read, and the search for copies with its    *)
(* scores. The summaries and the search keep one state or have three       *)
(* steps, so theirs is mostly arithmetic and order; pages and reports have *)
(* an inductive invariant that says what a reader holds.                   *)
(***************************************************************************)
EXTENDS MCLedger, Sums

-----------------------------------------------------------------------------
(* Months on a plain clock *)

\* Zeros add up to 0.
LEMMA SumOfZeros ==
  ASSUME NEW S, IsFiniteSet(S), NEW f, \A x \in S : f[x] = 0
  PROVE  SumFunctionOnSet(f, S) = 0
<1> DEFINE Bad == {s \in SUBSET S : SumFunctionOnSet(f, s) # 0}
<1>1. ASSUME NEW s \in Bad, \A t \in Bad : t \subseteq s => t = s PROVE FALSE
  <2>1. IsFiniteSet(s)
    BY FS_Subset
  <2>2. s # {}
    BY SumOfNone
  <2>3. PICK x \in s : TRUE
    BY <2>2
  <2>4. SumFunctionOnSet(f, s \ {x}) = 0
    BY <1>1, <2>3
  <2>5. SumFunctionOnSet(f, s) = f[x] + SumFunctionOnSet(f, s \ {x})
    BY <2>1, <2>3, SumSplit
  <2> QED BY <2>3, <2>4, <2>5
<1>2. Bad = {}
  <2> HIDE DEF Bad
  <2>1. Bad \in SUBSET SUBSET S
    BY DEF Bad
  <2> QED BY <1>1, <2>1, Minimal
<1> QED BY <1>2

\* Division by the length of a month.
LEMMA MonthOf ==
  ASSUME NEW d \in Nat \ {0}, NEW L \in Int, NEW m \in Int
  PROVE  L \div d = m <=> m * d <= L /\ L < (m + 1) * d
<1>1. PICK q \in Int : q = L \div d
  OBVIOUS
<1>2. PICK r \in Int : r = L % d
  OBVIOUS
<1>3. 0 <= r /\ r < d
  BY <1>2
<1>4. L = d * q + r
  BY <1>1, <1>2
<1>5. d * q = q * d /\ (m + 1) * d = m * d + d
  OBVIOUS
<1>6. CASE q = m
  BY <1>1, <1>3, <1>4, <1>5, <1>6
<1>7. CASE q < m
  <2>1. PICK k \in Nat : m = q + 1 + k
    <3>1. m - q - 1 \in Nat /\ m = q + 1 + (m - q - 1)
      BY <1>7
    <3> QED BY <3>1
  <2>2. m * d = q * d + d + k * d
    BY <2>1
  <2>3. k * d >= 0
    OBVIOUS
  <2> QED BY <1>1, <1>3, <1>4, <1>5, <1>7, <2>2, <2>3
<1>8. CASE q > m
  <2>1. PICK k \in Nat : q = m + 1 + k
    <3>1. q - m - 1 \in Nat /\ q = m + 1 + (q - m - 1)
      BY <1>8
    <3> QED BY <3>1
  <2>2. q * d = m * d + d + k * d
    BY <2>1
  <2>3. k * d >= 0
    OBVIOUS
  <2> QED BY <1>1, <1>3, <1>4, <1>5, <1>8, <2>2, <2>3
<1> QED BY <1>6, <1>7, <1>8

\* On a plain clock the first instant of a month is the one from which the clock shows it.
LEMMA Midnight ==
  ASSUME Summaries!MonthsAssumption, NEW z \in Zones, Plain(z), NEW m \in 0..(LastMonth + 1),
         NEW i \in Int
  PROVE  Summaries!StartUtc(z, m) <= i <=> m * MonthLength <= Summaries!Local(z, i)
<1> DEFINE ends == {z.at + z.before, z.at + z.after}
<1>1. z.at \in Int /\ z.before \in Int /\ z.after \in Int /\ MonthLength \in Nat /\ LastMonth \in Nat
  BY DEF Summaries!MonthsAssumption
<1>2. PICK lo : lo = Min(ends)
  OBVIOUS
<1>3. PICK hi : hi = Max(ends)
  OBVIOUS
<1>4. PICK w : w = m * MonthLength
  OBVIOUS
<1>5. w \in Int
  BY <1>1, <1>4
<1>6. lo = IF z.before < z.after THEN z.at + z.before ELSE z.at + z.after
  BY <1>1, <1>2 DEF Min
<1>7. hi = IF z.before < z.after THEN z.at + z.after ELSE z.at + z.before
  BY <1>1, <1>3 DEF Max
<1>8. ~(lo < w /\ w < hi)
  BY <1>2, <1>3, <1>4 DEF Plain
<1>9. PICK a, b, c \in Int : a = z.at /\ b = z.before /\ c = z.after
  BY <1>1
<1>10. Summaries!StartUtc(z, m) = w - (IF w < a + (IF b < c THEN c ELSE b) THEN b ELSE c)
  BY <1>4, <1>9 DEF Summaries!StartUtc, Summaries!Utc
<1>11. Summaries!Local(z, i) = i + (IF i < a THEN b ELSE c)
  BY <1>9 DEF Summaries!Local
<1> QED BY <1>4, <1>5, <1>6, <1>7, <1>8, <1>9, <1>10, <1>11

\* A local instant is an instant.
LEMMA LocalTyped ==
  ASSUME Summaries!MonthsAssumption, NEW z \in Zones, NEW i \in Int
  PROVE  Summaries!Local(z, i) \in Int
<1>1. z.at \in Int /\ z.before \in Int /\ z.after \in Int
  BY DEF Summaries!MonthsAssumption
<1> QED BY <1>1 DEF Summaries!Local

\* On a plain clock an instant is in the period of a month when its local date is in that month.
LEMMA InOneMonth ==
  ASSUME Summaries!MonthsAssumption, NEW z \in Zones, Plain(z), NEW m \in 0..LastMonth, NEW i \in Int
  PROVE  Summaries!Within(i, Summaries!Period(z, m)) <=> Summaries!Containing(z, i) = m
<1>1. MonthLength \in Nat \ {0} /\ LastMonth \in Nat
  BY DEF Summaries!MonthsAssumption
<1>2. m \in 0..(LastMonth + 1) /\ m + 1 \in 0..(LastMonth + 1) /\ m \in Int
  BY <1>1
<1>3. Summaries!StartUtc(z, m) <= i <=> m * MonthLength <= Summaries!Local(z, i)
  BY <1>2, Midnight
<1>4. Summaries!StartUtc(z, m + 1) <= i <=> (m + 1) * MonthLength <= Summaries!Local(z, i)
  BY <1>2, Midnight
<1>5. PICK L \in Int : L = Summaries!Local(z, i)
  BY LocalTyped
<1>6. L \div MonthLength = m <=> m * MonthLength <= L /\ L < (m + 1) * MonthLength
  BY <1>1, <1>2, MonthOf
<1>7. PICK u, v \in Int : u = m * MonthLength /\ v = (m + 1) * MonthLength
  BY <1>1, <1>2
<1>8. PICK s, e : s = Summaries!StartUtc(z, m) /\ e = Summaries!StartUtc(z, m + 1)
  OBVIOUS
<1>9. s \in Int /\ e \in Int
  BY <1>1, <1>2, <1>8 DEF Summaries!StartUtc, Summaries!Utc, Summaries!MonthsAssumption
<1>10. Summaries!Within(i, Summaries!Period(z, m)) <=> s <= i /\ i < e
  BY <1>8 DEF Summaries!Within, Summaries!Period
<1> QED BY <1>3, <1>4, <1>5, <1>6, <1>7, <1>8, <1>9, <1>10 DEF Summaries!Containing

\* Rows of the summaries: finitely many, each of its type, one to an id.
SummariesInv ==
  /\ sum_zone \in Zones
  /\ sum_walk = [w \in {} |-> Summaries!Fresh]
  /\ sum_ledger \subseteq Summaries!Row
  /\ IsFiniteSet(sum_ledger)
  /\ \A r \in sum_ledger, s \in sum_ledger : r.id = s.id => r = s

\* Rows keep their types and their number stays finite.
LEMMA SummariesInvariance ==
  ASSUME Summaries!MonthsAssumption, Summaries!LedgerViewsAssumption, Zones # {}
  PROVE  Spec => []SummariesInv
<1>1. Init => SummariesInv
  <2>1. AZone \in Zones
    BY DEF AZone
  <2> QED BY <2>1, FS_EmptySet DEF Init, Summaries!Init, SummariesInv
<1>2. SummariesInv /\ [Next]_vars => SummariesInv'
  <2> SUFFICES ASSUME SummariesInv, [Next]_vars PROVE SummariesInv'
    OBVIOUS
  <2> USE DEF SummariesInv
  <2>1. CASE UNCHANGED sum_vars
    BY <2>1 DEF sum_vars
  <2>2. ASSUME NEW r \in Summaries!Row, Summaries!Post(r) PROVE SummariesInv'
    <3>1. IsFiniteSet(sum_ledger \cup {r})
      BY FS_AddElement
    <3> QED BY <2>2, <3>1 DEF Summaries!Post
  <2>3. ASSUME NEW r \in sum_ledger, NEW c \in Purposes \cup {None}, Summaries!Recategorize(r, c)
        PROVE SummariesInv'
    <3>1. PICK s : s = [r EXCEPT !.category = c]
      OBVIOUS
    <3>2. s \in Summaries!Row /\ s.id = r.id
      BY <3>1 DEF Summaries!Row
    <3>3. sum_ledger' = (sum_ledger \ {r}) \cup {s}
      BY <2>3, <3>1 DEF Summaries!Recategorize
    <3>4. IsFiniteSet(sum_ledger')
      BY <3>3, FS_AddElement, FS_RemoveElement
    <3>5. sum_ledger' \subseteq Summaries!Row
      BY <3>2, <3>3
    <3>6. \A t \in sum_ledger', u \in sum_ledger' : t.id = u.id => t = u
      BY <3>2, <3>3
    <3> QED BY <2>3, <3>4, <3>5, <3>6 DEF Summaries!Recategorize
  <2>4. CASE Summaries!Next
    BY <2>2, <2>3, <2>4 DEF Summaries!Next
  <2> QED BY <2>1, <2>4 DEF Next, vars, Rest
<1> QED BY <1>1, <1>2, PTL DEF Spec

\* OneMonthEach on plain clocks.
LEMMA OneMonth ==
  ASSUME Summaries!MonthsAssumption, Summaries!LedgerViewsAssumption, \A z \in Zones : Plain(z),
         SummariesInv
  PROVE  Summaries!OneMonthEach
<1> SUFFICES ASSUME NEW r \in sum_ledger
             PROVE  {m \in Summaries!Month : Summaries!Within(r.at, Summaries!Period(sum_zone, m))}
                      = {Summaries!Containing(sum_zone, r.at)} \cap Summaries!Month
  BY DEF Summaries!OneMonthEach
<1>1. r.at \in Int
  BY DEF SummariesInv, Summaries!Row, Summaries!LedgerViewsAssumption
<1>2. sum_zone \in Zones /\ Plain(sum_zone)
  BY DEF SummariesInv
<1>3. \A m \in 0..LastMonth : Summaries!Within(r.at, Summaries!Period(sum_zone, m))
        <=> Summaries!Containing(sum_zone, r.at) = m
  BY <1>1, <1>2, InOneMonth
<1> QED BY <1>3 DEF Summaries!Month

-----------------------------------------------------------------------------
(* One spending *)

\* The sums of the instance are those of Sums.
LEMMA SummariesSums ==
  ASSUME NEW f, NEW S
  PROVE  Summaries!SumFunctionOnSet(f, S) = SumFunctionOnSet(f, S)
BY DEF Summaries!SumFunctionOnSet, SumFunctionOnSet, Summaries!FoldFunctionOnSet,
       FoldFunctionOnSet, Summaries!MapThenFoldSet, MapThenFoldSet

\* The totals of one set of rows, whichever CASE adds them up, and cut in whichever way.
LEMMA SignedSum ==
  ASSUME NEW S, NEW T \in SUBSET S, IsFiniteSet(S)
  PROVE  Summaries!Sum(T, Summaries!Signed) = SumFunctionOnSet([r \in S |-> Summaries!Signed(r)], T)
<1>1. PICK f : f = [r \in S |-> Summaries!Signed(r)]
  OBVIOUS
<1>2. PICK g : g = [r \in T |-> Summaries!Signed(r)]
  OBVIOUS
<1>3. Summaries!Sum(T, Summaries!Signed) = SumFunctionOnSet(g, T)
  BY <1>2, SummariesSums DEF Summaries!Sum, Summaries!SumFunction
<1>4. IsFiniteSet(T) /\ \A x \in T : f[x] = g[x]
  BY <1>1, <1>2, FS_Subset
<1>5. SumFunctionOnSet(f, T) = SumFunctionOnSet(g, T)
  BY <1>4, SumSame
<1> QED BY <1>1, <1>3, <1>5

\* The amounts of a row, signed, and as spending by its kind.
LEMMA SummariesKinds ==
  ASSUME Summaries!LedgerViewsAssumption, NEW r \in Summaries!Row
  PROVE  /\ Summaries!Signed(r) \in Int /\ Summaries!Spending(r) \in Int
         /\ r.kind \in Summaries!SpendingKinds => Summaries!Spending(r) = Summaries!Signed(r)
         /\ r.kind \notin Summaries!SpendingKinds => Summaries!Spending(r) = 0
<1>1. r.amount \in Int
  <2>1. r.amount \in Amounts
    BY DEF Summaries!Row
  <2>2. Amounts \subseteq Nat \ {0}
    BY DEF Summaries!LedgerViewsAssumption
  <2>3. PICK a : a = r.amount
    OBVIOUS
  <2>4. a \in Nat \ {0}
    BY <2>1, <2>2, <2>3, Zenon
  <2>5. a \in Int
    BY <2>4, SMT
  <2> QED BY <2>3, <2>5, Zenon
<1> QED BY <1>1 DEF Summaries!Signed, Summaries!Spending, Summaries!SpendingKinds

\* Rows cut into finitely many parts add up to the sum over all of them.
LEMMA SumOfParts ==
  ASSUME NEW S, IsFiniteSet(S), NEW f, f = [r \in S |-> Summaries!Signed(r)], \A r \in S : f[r] \in Int,
         NEW K, IsFiniteSet(K),
         NEW cut, \A r \in S : cut[r] \in K, NEW sums, DOMAIN sums = K,
         \A k \in K : sums[k] = SumFunctionOnSet(f, {r \in S : cut[r] = k})
  PROVE  Summaries!SumFunction(sums) = SumFunctionOnSet(f, S)
<1>3. SumFunctionOnSet(sums, K) = SumFunctionOnSet(f, S)
  BY SumByParts
<1> QED BY <1>3, SummariesSums DEF Summaries!SumFunction

\* What one view has spent is the sum of its rows, signed.
LEMMA SpentIs ==
  ASSUME Summaries!LedgerViewsAssumption, SummariesInv, NEW c, NEW p
  PROVE  Summaries!Spent(c, p) = Summaries!Sum(Summaries!GroupedRows(c, p), Summaries!Signed)
<1> DEFINE S == Summaries!Posted(c, p)
           T == Summaries!GroupedRows(c, p)
<1>1. S \subseteq sum_ledger /\ T = {r \in S : r.kind \in Summaries!SpendingKinds}
  BY DEF Summaries!Posted, Summaries!GroupedRows
<1>2. IsFiniteSet(S) /\ S \subseteq Summaries!Row
  BY <1>1, FS_Subset DEF SummariesInv
<1> HIDE DEF S, T
<1>3. PICK f : f = [r \in S |-> Summaries!Spending(r)]
  OBVIOUS
<1>4. PICK g : g = [r \in S |-> Summaries!Signed(r)]
  OBVIOUS
<1>5. Summaries!Sum(S, Summaries!Spending) = SumFunctionOnSet(f, S)
  BY <1>3, SummariesSums DEF Summaries!Sum, Summaries!SumFunction
<1>6. \A r \in S : f[r] \in Int /\ (r \in T => f[r] = g[r]) /\ (r \notin T => f[r] = 0)
  BY <1>1, <1>2, <1>3, <1>4, SummariesKinds
<1>7. IsFiniteSet(T) /\ IsFiniteSet(S \ T) /\ T \cap (S \ T) = {} /\ T \cup (S \ T) = S
        /\ T \in SUBSET S
  BY <1>1, <1>2, FS_Subset
<1>8. SumFunctionOnSet(f, S) = SumFunctionOnSet(f, T) + SumFunctionOnSet(f, S \ T)
  BY <1>6, <1>7, SumUnion
<1>9. SumFunctionOnSet(f, S \ T) = 0
  BY <1>6, <1>7, SumOfZeros
<1>10. SumFunctionOnSet(f, T) = SumFunctionOnSet(g, T)
  BY <1>6, <1>7, SumSame
<1>11. SumFunctionOnSet(f, T) \in Int
  BY <1>6, <1>7, SumTyped
<1>12. Summaries!Sum(T, Summaries!Signed) = SumFunctionOnSet(g, T)
  BY <1>2, <1>4, <1>7, SignedSum
<1> QED BY <1>5, <1>8, <1>9, <1>10, <1>11, <1>12 DEF Summaries!Spent, S, T

\* The first and the last month of a series.
LEMMA MonthsBounds ==
  ASSUME NEW a \in Int, NEW b \in Int, a <= b
  PROVE  Summaries!Min(a..b) = a /\ Summaries!Max(a..b) = b
<1>1. \A x : x \in a..b <=> x \in Int /\ a <= x /\ x <= b
  OBVIOUS
<1>2. PICK S : S = a..b
  OBVIOUS
<1>3. ASSUME NEW x, x \in S /\ \A y \in S : x <= y PROVE x = a
  BY <1>1, <1>2, <1>3
<1>4. a \in S /\ \A y \in S : a <= y
  BY <1>1, <1>2
<1>5. ASSUME NEW x, x \in S /\ \A y \in S : x >= y PROVE x = b
  BY <1>1, <1>2, <1>5
<1>6. b \in S /\ \A y \in S : b >= y
  BY <1>1, <1>2
<1>7. Summaries!Min(S) = a
  BY <1>3, <1>4 DEF Summaries!Min
<1>8. Summaries!Max(S) = b
  BY <1>5, <1>6 DEF Summaries!Max
<1> QED BY <1>2, <1>7, <1>8

\* A month of a series is cut from rows that the month's own total reads.
LEMMA SeriesRows ==
  ASSUME Summaries!MonthsAssumption, Summaries!LedgerViewsAssumption, SummariesInv, Plain(sum_zone),
         NEW c, NEW m \in 0..LastMonth, NEW a \in 0..LastMonth, NEW b \in 0..LastMonth, m \in a..b,
         NEW w, w.start = Summaries!Period(sum_zone, a).start, w.end = Summaries!Period(sum_zone, b).end
  PROVE  {r \in Summaries!GroupedRows(c, w) : Summaries!Containing(sum_zone, r.at) = m}
           = Summaries!GroupedRows(c, Summaries!Period(sum_zone, m))
<1> SUFFICES ASSUME NEW r \in sum_ledger
             PROVE  Summaries!Within(r.at, w) /\ Summaries!Containing(sum_zone, r.at) = m
                      <=> Summaries!Within(r.at, Summaries!Period(sum_zone, m))
  BY DEF Summaries!GroupedRows, Summaries!Posted
<1>1. r.at \in Int /\ sum_zone \in Zones
  BY DEF SummariesInv, Summaries!Row, Summaries!LedgerViewsAssumption
<1>2. Summaries!Within(r.at, Summaries!Period(sum_zone, m)) <=> Summaries!Containing(sum_zone, r.at) = m
  BY <1>1, InOneMonth
<1>3. ASSUME Summaries!Within(r.at, Summaries!Period(sum_zone, m)) PROVE Summaries!Within(r.at, w)
  <2>1. MonthLength \in Nat \ {0} /\ LastMonth \in Nat
    BY DEF Summaries!MonthsAssumption
  <2>2. /\ a \in 0..(LastMonth + 1) /\ b + 1 \in 0..(LastMonth + 1)
        /\ m \in 0..(LastMonth + 1) /\ m + 1 \in 0..(LastMonth + 1)
    BY <2>1
  <2>3. PICK L \in Int : L = Summaries!Local(sum_zone, r.at)
    BY <1>1, LocalTyped
  <2>4. PICK sa, sb, sm, sn : /\ sa = Summaries!StartUtc(sum_zone, a)
          /\ sb = Summaries!StartUtc(sum_zone, b + 1)
                              /\ sm = Summaries!StartUtc(sum_zone, m)
                              /\ sn = Summaries!StartUtc(sum_zone, m + 1)
    OBVIOUS
  <2>5. sb \in Int /\ sn \in Int
    BY <1>1, <2>1, <2>2, <2>4 DEF Summaries!StartUtc, Summaries!Utc, Summaries!MonthsAssumption
  <2>6. sm <= r.at /\ r.at < sn
    BY <1>3, <2>4 DEF Summaries!Within, Summaries!Period
  <2>7. sm <= r.at <=> m * MonthLength <= L
    BY <1>1, <2>2, <2>3, <2>4, Midnight
  <2>8. sn <= r.at <=> (m + 1) * MonthLength <= L
    BY <1>1, <2>2, <2>3, <2>4, Midnight
  <2>9. sa <= r.at <=> a * MonthLength <= L
    BY <1>1, <2>2, <2>3, <2>4, Midnight
  <2>10. sb <= r.at <=> (b + 1) * MonthLength <= L
    BY <1>1, <2>2, <2>3, <2>4, Midnight
  <2>11. a * MonthLength <= m * MonthLength
    <3>1. PICK k \in Nat : m = a + k
      <4>1. m - a \in Nat /\ m = a + (m - a)
        BY <2>1, <2>2
      <4> QED BY <4>1
    <3>2. m * MonthLength = a * MonthLength + k * MonthLength /\ k * MonthLength >= 0
      BY <2>1, <3>1
    <3> QED BY <2>1, <2>2, <3>2
  <2>12. (m + 1) * MonthLength <= (b + 1) * MonthLength
    <3>1. PICK k \in Nat : b = m + k
      <4>1. b - m \in Nat /\ b = m + (b - m)
        BY <2>1, <2>2
      <4> QED BY <4>1
    <3>2. (b + 1) * MonthLength = (m + 1) * MonthLength + k * MonthLength /\ k * MonthLength >= 0
      BY <2>1, <3>1
    <3> QED BY <2>1, <2>2, <3>2
  <2>13. PICK u, v, x, y \in Int : u = a * MonthLength /\ v = m * MonthLength
           /\ x = (m + 1) * MonthLength
                                   /\ y = (b + 1) * MonthLength
    BY <2>1, <2>2
  <2>14. sa <= r.at /\ r.at < sb
    BY <1>1, <2>3, <2>5, <2>6, <2>7, <2>8, <2>9, <2>10, <2>11, <2>12, <2>13
  <2> QED BY <2>4, <2>14 DEF Summaries!Within, Summaries!Period
<1> QED BY <1>2, <1>3

\* SpendingViewsAgree: summary, categories, merchants and series read the same rows.
LEMMA OneSpending ==
  ASSUME Summaries!MonthsAssumption, Summaries!LedgerViewsAssumption, SummariesInv,
         \A z \in Zones : Plain(z)
  PROVE  Summaries!SpendingViewsAgree
<1> SUFFICES ASSUME NEW c \in Currencies, NEW m \in Summaries!Month
             PROVE  /\ Summaries!SumFunction(Summaries!SpendingByCategory(c, m))
                    = Summaries!FinancialSummary(c, m)
                    /\ Summaries!SumFunction(Summaries!SpendingByMerchant(c, m))
                         = Summaries!FinancialSummary(c, m)
                    /\ \A ending \in Summaries!Month : \A count \in 1..(ending + 1) :
                         m \in Summaries!PreviousMonths(ending, count) =>
                           Summaries!MonthlySpending(c, ending, count)[m]
                             = Summaries!FinancialSummary(c, m)
  BY DEF Summaries!SpendingViewsAgree
<1>1. PICK p : p = Summaries!Period(sum_zone, m)
  OBVIOUS
<1>2. PICK S : S = Summaries!GroupedRows(c, p)
  OBVIOUS
<1>3. Summaries!FinancialSummary(c, m) = Summaries!Sum(S, Summaries!Signed)
  BY <1>1, <1>2, SpentIs DEF Summaries!FinancialSummary
<1>4. S \subseteq sum_ledger /\ IsFiniteSet(S)
  BY <1>2, FS_Subset DEF SummariesInv, Summaries!GroupedRows, Summaries!Posted
<1>5. \A r \in S : Summaries!Signed(r) \in Int /\ r.category \in Purposes \cup {None}
        /\ r.merchant \in Shops \cup {None}
  BY <1>4, SummariesKinds DEF SummariesInv, Summaries!Row
<1>6. IsFiniteSet(Purposes) /\ IsFiniteSet(Shops)
  BY DEF Summaries!LedgerViewsAssumption, Summaries!IsFiniteSet, IsFiniteSet
<1>10. PICK f : f = [r \in S |-> Summaries!Signed(r)]
  OBVIOUS
<1>11. \A r \in S : f[r] \in Int
  BY <1>5, <1>10
<1>12. Summaries!Sum(S, Summaries!Signed) = SumFunctionOnSet(f, S)
  BY <1>4, <1>10, SignedSum
<1>7. Summaries!SumFunction(Summaries!SpendingByCategory(c, m)) = Summaries!Sum(S, Summaries!Signed)
  <2>1. PICK K : K = Purposes \cup {None}
    OBVIOUS
  <2>2. PICK cut : cut = [r \in S |-> r.category]
    OBVIOUS
  <2>3. PICK sums : sums = Summaries!SpendingByCategory(c, m)
    OBVIOUS
  <2>4. DOMAIN sums = K
    BY <2>1, <2>3 DEF Summaries!SpendingByCategory
  <2>5. ASSUME NEW k \in K PROVE sums[k] = SumFunctionOnSet(f, {r \in S : cut[r] = k})
    <3>1. {r \in S : cut[r] = k} = {r \in S : r.category = k}
      BY <2>2
    <3>2. sums[k] = Summaries!Sum({r \in S : cut[r] = k}, Summaries!Signed)
      BY <1>1, <1>2, <2>1, <2>3, <3>1 DEF Summaries!SpendingByCategory, Summaries!CategoryTotal
    <3>3. {r \in S : cut[r] = k} \in SUBSET S
      OBVIOUS
    <3>4. Summaries!Sum({r \in S : cut[r] = k}, Summaries!Signed) = SumFunctionOnSet(f,
            {r \in S : cut[r] = k})
      BY <1>4, <1>10, <3>3, SignedSum
    <3> QED BY <3>2, <3>4
  <2>6. IsFiniteSet(K) /\ \A r \in S : cut[r] \in K
    BY <1>5, <1>6, <2>1, <2>2, FS_AddElement
  <2>7. Summaries!SumFunction(sums) = SumFunctionOnSet(f, S)
    BY <1>4, <1>10, <1>11, <2>4, <2>5, <2>6, SumOfParts
  <2> QED BY <1>12, <2>3, <2>7
<1>8. Summaries!SumFunction(Summaries!SpendingByMerchant(c, m)) = Summaries!Sum(S, Summaries!Signed)
  <2>1. PICK K : K = Shops \cup {None}
    OBVIOUS
  <2>2. PICK cut : cut = [r \in S |-> r.merchant]
    OBVIOUS
  <2>3. PICK sums : sums = Summaries!SpendingByMerchant(c, m)
    OBVIOUS
  <2>4. DOMAIN sums = K
    BY <2>1, <2>3 DEF Summaries!SpendingByMerchant
  <2>5. ASSUME NEW k \in K PROVE sums[k] = SumFunctionOnSet(f, {r \in S : cut[r] = k})
    <3>1. {r \in S : cut[r] = k} = {r \in S : r.merchant = k}
      BY <2>2
    <3>2. sums[k] = Summaries!Sum({r \in S : cut[r] = k}, Summaries!Signed)
      BY <1>1, <1>2, <2>1, <2>3, <3>1 DEF Summaries!SpendingByMerchant, Summaries!MerchantTotal
    <3>3. {r \in S : cut[r] = k} \in SUBSET S
      OBVIOUS
    <3>4. Summaries!Sum({r \in S : cut[r] = k}, Summaries!Signed) = SumFunctionOnSet(f,
            {r \in S : cut[r] = k})
      BY <1>4, <1>10, <3>3, SignedSum
    <3> QED BY <3>2, <3>4
  <2>6. IsFiniteSet(K) /\ \A r \in S : cut[r] \in K
    BY <1>5, <1>6, <2>1, <2>2, FS_AddElement
  <2>7. Summaries!SumFunction(sums) = SumFunctionOnSet(f, S)
    BY <1>4, <1>10, <1>11, <2>4, <2>5, <2>6, SumOfParts
  <2> QED BY <1>12, <2>3, <2>7
<1>9. ASSUME NEW ending \in Summaries!Month, NEW count \in 1..(ending + 1),
             m \in Summaries!PreviousMonths(ending, count)
      PROVE  Summaries!MonthlySpending(c, ending, count)[m] = Summaries!Sum(S, Summaries!Signed)
  <2>1. PICK a : a = ending - count + 1
    OBVIOUS
  <2>2. LastMonth \in Nat
    BY DEF Summaries!MonthsAssumption
  <2>3. a \in 0..LastMonth /\ ending \in 0..LastMonth /\ m \in 0..LastMonth /\ m \in a..ending
        /\ Summaries!PreviousMonths(ending, count) = a..ending
    BY <1>9, <2>1, <2>2 DEF Summaries!Month, Summaries!PreviousMonths
  <2>4. a \in Int /\ ending \in Int /\ a <= ending
    BY <2>2, <2>3
  <2>5. Summaries!Min(a..ending) = a /\ Summaries!Max(a..ending) = ending
    BY <2>4, MonthsBounds
  <2>6. PICK w : w = [start |-> Summaries!Period(sum_zone, a).start,
          end |-> Summaries!Period(sum_zone, ending).end]
    OBVIOUS
  <2>7. Summaries!MonthlySpending(c, ending, count)[m] = Summaries!MonthTotal(c, w, m)
    BY <2>3, <2>5, <2>6 DEF Summaries!MonthlySpending
  <2>8. sum_zone \in Zones /\ Plain(sum_zone)
    BY DEF SummariesInv
  <2>9. w.start = Summaries!Period(sum_zone, a).start /\ w.end = Summaries!Period(sum_zone, ending).end
    BY <2>6
  <2>10. {r \in Summaries!GroupedRows(c, w) : Summaries!Containing(sum_zone, r.at) = m} = S
    BY <1>1, <1>2, <2>3, <2>8, <2>9, SeriesRows
  <2> QED BY <2>7, <2>10 DEF Summaries!MonthTotal
<1> QED BY <1>3, <1>7, <1>8, <1>9

PagesOrder(Q) == Pages!InOrder(Q, Pages!Newer)

NewerOn(Q) == {e \in Q \X Q : Pages!Newer(e[1], e[2])}

\* Newest first, by instant and then id, is a total order of rows with different ids.
LEMMA NewerOrders ==
  ASSUME NEW Q, \A r \in Q : r.at \in Int /\ r.id \in Int, \A r, s \in Q : r.id = s.id => r = s
  PROVE  TotalOrder(NewerOn(Q), Q)
<1>1. \A r, s \in Q : <<r, s>> \in NewerOn(Q) <=> Pages!Newer(r, s)
  BY DEF NewerOn
<1>2. \A r \in Q : ~Pages!Newer(r, r)
  BY DEF Pages!Newer
<1>3. \A r, s, t \in Q : Pages!Newer(r, s) /\ Pages!Newer(s, t) => Pages!Newer(r, t)
  BY DEF Pages!Newer
<1>4. \A r, s \in Q : r = s \/ Pages!Newer(r, s) \/ Pages!Newer(s, r)
  BY DEF Pages!Newer
<1> HIDE DEF NewerOn
<1> QED BY <1>1, <1>2, <1>3, <1>4 DEF TotalOrder

\* The rows of a page, read in order.
LEMMA PagesInOrder ==
  ASSUME NEW Q, IsFiniteSet(Q), \A r \in Q : r.at \in Int /\ r.id \in Int, \A r,
         s \in Q : r.id = s.id => r = s,
         NEW o, o = PagesOrder(Q)
  PROVE  /\ o \in [1..Cardinality(Q) -> Q]
         /\ Cardinality(Q) \in Nat
         /\ \A j, k \in 1..Cardinality(Q) : j < k => Pages!Newer(o[j], o[k])
         /\ \A r \in Q : \E k \in 1..Cardinality(Q) : o[k] = r
<1> DEFINE n == Cardinality(Q)
           rank(x) == Cardinality({y \in Q : <<y, x>> \in NewerOn(Q)})
<1>1. TotalOrder(NewerOn(Q), Q)
  BY NewerOrders
<1>2. /\ \A k \in 1..n : \E x \in Q : rank(x) = k - 1
      /\ \A x \in Q : rank(x) + 1 \in 1..n
      /\ \A x, y \in Q : <<x, y>> \in NewerOn(Q) <=> rank(x) < rank(y)
  BY <1>1, Ranks
<1>3. \A x \in Q : {y \in Q : <<y, x>> \in NewerOn(Q)} = {y \in Q : Pages!Newer(y, x)}
  BY DEF NewerOn
<1>4. o = [k \in 1..n |-> CHOOSE x \in Q : rank(x) = k - 1]
  <2>1. o = [k \in 1..n |-> CHOOSE x \in Q : Cardinality({y \in Q : Pages!Newer(y, x)}) = k - 1]
    BY DEF PagesOrder, Pages!InOrder, Pages!Cardinality, Cardinality, Pages!IsFiniteSet, IsFiniteSet
  <2>2. \A k : (CHOOSE x \in Q : Cardinality({y \in Q : Pages!Newer(y, x)}) = k - 1)
          = (CHOOSE x \in Q : rank(x) = k - 1)
    BY <1>3
  <2> QED BY <2>1, <2>2
<1>5. n \in Nat /\ \A x \in Q : rank(x) \in Nat
  <2>1. \A x \in Q : IsFiniteSet({y \in Q : <<y, x>> \in NewerOn(Q)})
    BY FS_Subset
  <2> QED BY <2>1, FS_CardinalityType
<1> HIDE DEF n, rank
<1>6. \A k \in 1..n : o[k] \in Q /\ rank(o[k]) = k - 1
  BY <1>2, <1>4
<1>7. o \in [1..n -> Q]
  BY <1>4, <1>6
<1>8. ASSUME NEW j \in 1..n, NEW k \in 1..n, j < k PROVE Pages!Newer(o[j], o[k])
  <2>1. rank(o[j]) < rank(o[k])
    BY <1>6, <1>8
  <2>2. <<o[j], o[k]>> \in NewerOn(Q)
    BY <1>2, <1>6, <2>1
  <2> QED BY <2>2 DEF NewerOn
<1>9. ASSUME NEW r \in Q PROVE \E k \in 1..n : o[k] = r
  <2>1. PICK k \in 1..n : k = rank(r) + 1
    BY <1>2
  <2>2. rank(o[k]) = rank(r) /\ o[k] \in Q
    BY <1>5, <1>6, <2>1
  <2>3. ~(<<o[k], r>> \in NewerOn(Q)) /\ ~(<<r, o[k]>> \in NewerOn(Q))
    BY <1>2, <1>5, <2>2
  <2>4. o[k] = r
    BY <1>1, <2>2, <2>3 DEF TotalOrder
  <2> QED BY <2>4
<1> QED BY <1>5, <1>7, <1>8, <1>9 DEF n

\* One sequence after another.
LEMMA Concatenated ==
  ASSUME NEW S, NEW a \in Seq(S), NEW b \in Seq(S)
  PROVE  /\ a \o b \in Seq(S)
         /\ Len(a \o b) = Len(a) + Len(b)
         /\ DOMAIN (a \o b) = 1..(Len(a) + Len(b))
         /\ \A i \in 1..Len(a) : (a \o b)[i] = a[i]
         /\ \A i \in 1..Len(b) : (a \o b)[Len(a) + i] = b[i]
OBVIOUS

\* LIMIT: the first rows of a page.
LEMMA PagesFirst ==
  ASSUME NEW n \in Nat, NEW o, o = [i \in 1..n |-> o[i]], NEW k \in Nat
  PROVE  Pages!FirstOf(o, k) = [i \in 1..(IF k < n THEN k ELSE n) |-> o[i]]
<1>1. o \in Seq({o[i] : i \in 1..n}) /\ Len(o) = n
  <2>1. o \in [1..n -> {o[i] : i \in 1..n}]
    OBVIOUS
  <2> QED BY <2>1
<1>2. Pages!Min({k, n}) = IF k < n THEN k ELSE n
  BY DEF Pages!Min
<1>3. PICK m \in Nat : m = IF k < n THEN k ELSE n
  OBVIOUS
<1>4. SubSeq(o, 1, m) = [i \in 1..m |-> o[i]]
  BY <1>1, <1>3
<1> QED BY <1>1, <1>2, <1>3, <1>4 DEF Pages!FirstOf

-----------------------------------------------------------------------------
(* The walk *)

PageKey == [id: PageIds, at: PageInstants]

ShownIn(x, p) == \E i \in DOMAIN x.seen : x.seen[i].id = p

\* What a walker holds: what it has seen, newest first, the cursor at the end of it,
\* and of what was there when it began either seen or still behind the cursor.
Walks(x, L) ==
  /\ x \in [seen: Seq(PageKey), cursor: {<<>>} \cup {<<k>> : k \in PageKey}, present: SUBSET PageIds,
            phase: {"idle", "walking", "done"}]
  /\ IF x.seen = <<>> THEN x.cursor = <<>> ELSE x.cursor = <<x.seen[Len(x.seen)]>>
  /\ \A i \in DOMAIN x.seen : \A j \in 1..(i - 1) : Pages!Newer(x.seen[j], x.seen[i])
  /\ x.phase = "idle" => x.seen = <<>> /\ x.present = {}
  /\ x.phase = "walking" =>
       \A p \in x.present : ShownIn(x, p) \/ \E r \in L : r.id = p /\ Pages!Behind(r, x.cursor)
  /\ x.phase = "done" => \A p \in x.present : ShownIn(x, p)

PagesInv ==
  /\ page_zone = AZone
  /\ page_ledger \subseteq Pages!Row
  /\ IsFiniteSet(page_ledger)
  /\ \A r \in page_ledger, s \in page_ledger : r.id = s.id => r = s
  /\ page_walk = [w \in Walkers |-> page_walk[w]]
  /\ \A w \in Walkers : Walks(page_walk[w], page_ledger)

\* Walkers do not notice a new row, nor a category corrected.
LEMMA WalksKept ==
  ASSUME PagesInv, NEW x, Walks(x, page_ledger),
         \A r \in page_ledger : \E s \in page_ledger' : s.id = r.id /\ s.at = r.at
  PROVE  Walks(x, page_ledger')
<1>1. ASSUME NEW p, NEW r \in page_ledger, r.id = p, Pages!Behind(r, x.cursor)
      PROVE  \E s \in page_ledger' : s.id = p /\ Pages!Behind(s, x.cursor)
  BY <1>1 DEF Pages!Behind, Pages!Newer
<1> QED BY <1>1 DEF Walks, ShownIn

\* A page that is read keeps what the invariant says of its walker.
LEMMA PageRead ==
  ASSUME PagesInv, Pages!LedgerViewsAssumption, NEW w \in Walkers, Pages!ReadPage(w)
  PROVE  Walks(page_walk'[w], page_ledger')
<1> DEFINE x == page_walk[w]
           y == page_walk'[w]
           Q == {r \in page_ledger : Pages!Behind(r, x.cursor)}
           n == Cardinality(Q)
<1>1. PICK o : o = PagesOrder(Q)
  OBVIOUS
<1>2. /\ IsFiniteSet(Q) /\ Q \subseteq page_ledger
      /\ \A r \in Q : r.at \in Int /\ r.id \in Int /\ r.at \in PageInstants /\ r.id \in PageIds
      /\ \A r, s \in Q : r.id = s.id => r = s
  <2>1. IsFiniteSet(Q)
    BY FS_Subset DEF PagesInv
  <2>2. \A r \in page_ledger : r.at \in PageInstants /\ r.id \in PageIds
    BY DEF PagesInv, Pages!Row
  <2>3. PageInstants \subseteq Int /\ PageIds \subseteq Nat
    BY DEF Pages!LedgerViewsAssumption
  <2> QED BY <2>1, <2>2, <2>3 DEF PagesInv
<1> HIDE DEF Q
<1>3. /\ o \in [1..n -> Q]
      /\ n \in Nat
      /\ \A j, k \in 1..n : j < k => Pages!Newer(o[j], o[k])
      /\ \A r \in Q : \E k \in 1..n : o[k] = r
  BY <1>1, <1>2, PagesInOrder
<1> HIDE DEF n
<1>4. PageSize \in Nat \ {0} /\ PageSize \in Nat /\ PageSize + 1 \in Nat
  BY DEF Pages!LedgerViewsAssumption
<1>5. PICK m \in Nat : m = IF PageSize + 1 < n THEN PageSize + 1 ELSE n
  BY <1>3, <1>4
<1>6. PICK p \in Nat : p = IF PageSize < n THEN PageSize ELSE n
  BY <1>3, <1>4
<1>7. PICK rows : rows = Pages!RowsBehind(x.cursor)
  OBVIOUS
<1>8. rows = [i \in 1..m |-> o[i]]
  <2>1. rows = Pages!FirstOf(o, PageSize + 1)
    BY <1>1, <1>7 DEF Pages!RowsBehind, Q, PagesOrder
  <2>2. Pages!FirstOf(o, PageSize + 1)
          = [i \in 1..(IF PageSize + 1 < n THEN PageSize + 1 ELSE n) |-> o[i]]
    <3>1. o = [i \in 1..n |-> o[i]]
      BY <1>3
    <3>2. PICK k \in Nat : k = PageSize + 1
      BY <1>4
    <3>3. Pages!FirstOf(o, k) = [i \in 1..(IF k < n THEN k ELSE n) |-> o[i]]
      <4>1. n \in Nat
        BY <1>3
      <4> QED BY <4>1, <3>1, PagesFirst
    <3> QED BY <3>2, <3>3
  <2> QED BY <1>5, <2>1, <2>2
<1>9. rows \in [1..m -> Q] /\ Len(rows) = m /\ rows \in Seq(Q)
  <2>1. rows \in [1..m -> Q]
    BY <1>3, <1>4, <1>5, <1>8
  <2> QED BY <2>1
<1>10. PICK page : page = Pages!FirstOf(rows, PageSize)
  OBVIOUS
<1>11. page = [i \in 1..p |-> o[i]]
  <2>1. page = [i \in 1..(IF PageSize < m THEN PageSize ELSE m) |-> rows[i]]
    <3>1. Pages!FirstOf(rows, PageSize) = [i \in 1..(IF PageSize < m THEN PageSize ELSE m) |-> rows[i]]
      <4>1. rows = [i \in 1..m |-> rows[i]]
        BY <1>9
      <4>2. m \in Nat /\ PageSize \in Nat
        BY <1>4, <1>5 DEF Pages!LedgerViewsAssumption
      <4> QED BY <4>1, <4>2, PagesFirst
    <3> QED BY <1>10, <3>1
  <2>2. p = (IF PageSize < m THEN PageSize ELSE m) /\ p <= m
    BY <1>3, <1>4, <1>5, <1>6
  <2>3. page = [i \in 1..p |-> rows[i]]
    BY <2>1, <2>2
  <2>4. \A i \in 1..p : rows[i] = o[i]
    BY <1>5, <1>8, <2>2
  <2> QED BY <2>3, <2>4
<1>12. page \in [1..p -> Q] /\ Len(page) = p /\ DOMAIN page = 1..p /\ (page = <<>> <=> p = 0)
  <2>1. page \in [1..p -> Q]
    BY <1>3, <1>4, <1>6, <1>11
  <2> QED BY <2>1
<1>13. PICK keys : keys = [i \in DOMAIN page |-> Pages!CursorOf(page[i])]
  OBVIOUS
<1>14. keys = [i \in 1..p |-> [id |-> o[i].id, at |-> o[i].at]]
  BY <1>11, <1>12, <1>13 DEF Pages!CursorOf
<1>15. \A i \in 1..p : i \in 1..n /\ o[i] \in Q /\ keys[i] = [id |-> o[i].id, at |-> o[i].at]
         /\ keys[i] \in PageKey
  BY <1>2, <1>3, <1>4, <1>6, <1>14 DEF PageKey
<1>15a. \A i \in 1..p : keys[i].id = o[i].id /\ keys[i].at = o[i].at
  BY <1>14
<1>16. keys \in Seq(PageKey) /\ Len(keys) = p /\ DOMAIN keys = 1..p
  <2>1. keys \in [1..p -> PageKey]
    BY <1>14, <1>15
  <2> QED BY <2>1
<1>17. /\ x.phase = "walking"
       /\ y = [x EXCEPT !.seen = x.seen \o keys,
                        !.cursor = IF page = <<>> THEN x.cursor
                                                  ELSE <<Pages!CursorOf(Pages!Last(page))>>,
                        !.phase = IF Len(rows) > PageSize THEN "walking" ELSE "done"]
       /\ page_ledger' = page_ledger
  <2>1. DOMAIN page_walk = Walkers
    BY DEF PagesInv
  <2>2. page_walk' = [page_walk EXCEPT ![w].seen = @ \o keys,
                        ![w].cursor = IF page = <<>> THEN @ ELSE <<Pages!CursorOf(Pages!Last(page))>>,
                        ![w].phase = IF Len(rows) > PageSize THEN "walking" ELSE "done"]
    BY <1>7, <1>10, <1>13 DEF Pages!ReadPage
  <2>3. y = [x EXCEPT !.seen = x.seen \o keys,
                        !.cursor = IF page = <<>> THEN x.cursor
                                                  ELSE <<Pages!CursorOf(Pages!Last(page))>>,
                        !.phase = IF Len(rows) > PageSize THEN "walking" ELSE "done"]
    BY <2>1, <2>2
  <2> QED BY <2>3 DEF Pages!ReadPage
<1>18. Walks(x, page_ledger)
  BY DEF PagesInv
<1> HIDE DEF x, y
<1>19. x \in [seen: Seq(PageKey), cursor: {<<>>} \cup {<<k>> : k \in PageKey}, present: SUBSET PageIds,
              phase: {"idle", "walking", "done"}]
  BY <1>18 DEF Walks
<1>20. PICK seen \in Seq(PageKey) : seen = x.seen
  BY <1>19
<1>21. PICK N \in Nat : N = Len(seen)
  OBVIOUS
<1>22. PICK all : all = seen \o keys
  OBVIOUS
<1>23. all \in Seq(PageKey) /\ Len(all) = N + p /\ DOMAIN all = 1..(N + p)
       /\ (\A i \in 1..N : all[i] = seen[i]) /\ (\A i \in 1..p : all[N + i] = keys[i])
  <2>1. /\ seen \o keys \in Seq(PageKey)
        /\ Len(seen \o keys) = Len(seen) + Len(keys)
        /\ DOMAIN (seen \o keys) = 1..(Len(seen) + Len(keys))
        /\ \A i \in 1..Len(seen) : (seen \o keys)[i] = seen[i]
        /\ \A i \in 1..Len(keys) : (seen \o keys)[Len(seen) + i] = keys[i]
    <3>1. seen \in Seq(PageKey) /\ keys \in Seq(PageKey)
      BY <1>16
    <3> QED BY <3>1, Concatenated
  <2> QED BY <1>16, <1>21, <1>22, <2>1
<1>24. y.seen = all /\ y.present = x.present /\ y.phase = (IF n > PageSize THEN "walking" ELSE "done")
       /\ y.cursor = IF p = 0 THEN x.cursor ELSE <<keys[p]>>
  <2>1. Len(rows) > PageSize <=> n > PageSize
    BY <1>3, <1>4, <1>5, <1>9
  <2>2. page # <<>> => Pages!CursorOf(Pages!Last(page)) = keys[p]
    <3>1. page # <<>> => p \in 1..p
      BY <1>12
    <3> QED BY <1>12, <1>13, <3>1 DEF Pages!Last
  <2>3. y.seen = x.seen \o keys
    BY <1>17, <1>19
  <2>4. y.present = x.present
    BY <1>17, <1>19
  <2>5. y.phase = (IF Len(rows) > PageSize THEN "walking" ELSE "done")
    BY <1>17, <1>19
  <2>6. y.cursor = IF page = <<>> THEN x.cursor ELSE <<Pages!CursorOf(Pages!Last(page))>>
    BY <1>17, <1>19
  <2> QED BY <1>12, <1>20, <1>22, <2>1, <2>2, <2>3, <2>4, <2>5, <2>6
<1>25. y \in [seen: Seq(PageKey), cursor: {<<>>} \cup {<<k>> : k \in PageKey}, present: SUBSET PageIds,
              phase: {"idle", "walking", "done"}]
  <2>1. y.cursor \in {<<>>} \cup {<<k>> : k \in PageKey}
    <3>1. p # 0 => p \in 1..p
      OBVIOUS
    <3>2. p # 0 => keys[p] \in PageKey
      BY <1>15, <3>1
    <3>3. x.cursor \in {<<>>} \cup {<<k>> : k \in PageKey}
      BY <1>19
    <3> QED BY <1>24, <3>2, <3>3
  <2>2. y.seen \in Seq(PageKey) /\ y.present \in SUBSET PageIds
          /\ y.phase \in {"idle", "walking", "done"}
    BY <1>19, <1>23, <1>24
  <2>3. y = [seen |-> y.seen, cursor |-> y.cursor, present |-> y.present, phase |-> y.phase]
    BY <1>17, <1>19
  <2> QED BY <2>1, <2>2, <2>3
<1>25a. seen = <<>> <=> N = 0
  BY <1>20, <1>21
<1>25b. IF seen = <<>> THEN x.cursor = <<>> ELSE x.cursor = <<seen[N]>>
  BY <1>18, <1>20, <1>21 DEF Walks
<1>26. N = 0 <=> x.cursor = <<>>
  <2>1. PICK k : k = seen[N]
    OBVIOUS
  <2>2. <<k>> # <<>>
    OBVIOUS
  <2> QED BY <1>25a, <1>25b, <2>1, <2>2
<1>27. N > 0 => x.cursor = <<seen[N]>>
  <2> SUFFICES ASSUME N > 0 PROVE x.cursor = <<seen[N]>>
    OBVIOUS
  <2>1. N # 0
    OBVIOUS
  <2>2. seen # <<>>
    BY <1>25a, <2>1
  <2> QED BY <1>25b, <2>2
<1>28. IF y.seen = <<>> THEN y.cursor = <<>> ELSE y.cursor = <<y.seen[Len(y.seen)]>>
  <2>1. CASE p = 0
    <3>1. all = seen
      BY <1>16, <1>20, <1>22, <2>1
    <3> QED BY <1>18, <1>20, <1>24, <2>1, <3>1 DEF Walks
  <2>2. CASE p # 0
    <3>1. p \in 1..p /\ N + p # 0
      BY <2>2
    <3>2. all[N + p] = keys[p] /\ all # <<>>
      BY <1>23, <3>1
    <3> QED BY <1>23, <1>24, <2>2, <3>2
  <2> QED BY <2>1, <2>2
<1>29. \A i \in 1..n : N > 0 => Pages!Newer(seen[N], o[i])
  <2>1. \A i \in 1..n : Pages!Behind(o[i], x.cursor)
    BY <1>3 DEF Q
  <2>2. N > 0 => x.cursor # <<>> /\ x.cursor[1] = seen[N]
    BY <1>26, <1>27
  <2> QED BY <2>1, <2>2 DEF Pages!Behind
<1>30. \A i \in DOMAIN all : \A j \in 1..(i - 1) : Pages!Newer(all[j], all[i])
  <2>1. \A i \in DOMAIN seen : \A j \in 1..(i - 1) : Pages!Newer(seen[j], seen[i])
    BY <1>18, <1>20 DEF Walks
  <2>2. DOMAIN seen = 1..N
    BY <1>20, <1>21
  <2>3. PageInstants \subseteq Int /\ PageIds \subseteq Int
    BY DEF Pages!LedgerViewsAssumption
  <2>4. \A k \in PageKey : k.at \in Int /\ k.id \in Int
    BY <2>3 DEF PageKey
  <2> SUFFICES ASSUME NEW i \in 1..(N + p), NEW j \in 1..(i - 1) PROVE Pages!Newer(all[j], all[i])
    BY <1>23
  <2>5. CASE i <= N
    <3>1. i \in DOMAIN seen /\ i \in 1..N /\ j \in 1..N
      BY <2>2, <2>5
    <3> QED BY <1>23, <2>1, <3>1
  <2>6. CASE i > N /\ j > N
    <3>1. PICK a, b \in 1..p : i = N + a /\ j = N + b /\ b < a
      <4>1. i - N \in 1..p /\ j - N \in 1..p /\ i = N + (i - N) /\ j = N + (j - N) /\ j - N < i - N
        BY <2>6
      <4> QED BY <4>1
    <3>2. all[i] = keys[a] /\ all[j] = keys[b]
      BY <1>23, <3>1
    <3>3. Pages!Newer(o[b], o[a])
      BY <1>3, <1>15, <3>1
    <3>4. keys[a].id = o[a].id /\ keys[a].at = o[a].at /\ keys[b].id = o[b].id /\ keys[b].at = o[b].at
      BY <1>15a
    <3> QED BY <3>2, <3>3, <3>4 DEF Pages!Newer
  <2>7. CASE i > N /\ j <= N
    <3>1. PICK a \in 1..p : i = N + a
      <4>1. i - N \in 1..p /\ i = N + (i - N)
        BY <2>7
      <4> QED BY <4>1
    <3>2. j \in 1..N /\ N \in 1..N /\ N \in DOMAIN seen /\ N > 0
      BY <2>2, <2>7
    <3>3. all[i] = keys[a] /\ all[j] = seen[j]
      BY <1>23, <3>1, <3>2
    <3>4. Pages!Newer(seen[N], o[a])
      BY <1>15, <1>29, <3>2
    <3>5. keys[a].id = o[a].id /\ keys[a].at = o[a].at
      BY <1>15a
    <3>6. CASE j = N
      BY <3>3, <3>4, <3>5, <3>6 DEF Pages!Newer
    <3>7. CASE j # N
      <4>1. j \in 1..(N - 1)
        BY <3>2, <3>7
      <4>2. Pages!Newer(seen[j], seen[N])
        BY <2>1, <3>2, <4>1
      <4>a. j \in DOMAIN seen /\ N \in DOMAIN seen
        BY <2>2, <3>2
      <4>b. seen[j] \in PageKey /\ seen[N] \in PageKey
        BY <1>20, <4>a
      <4>3. PICK u, v, k \in PageKey : u = seen[j] /\ v = seen[N] /\ k = keys[a]
        BY <1>15, <4>b
      <4>4. u.at \in Int /\ u.id \in Int /\ v.at \in Int /\ v.id \in Int /\ k.at \in Int /\ k.id \in Int
        BY <2>4
      <4>5. Pages!Newer(u, v) /\ Pages!Newer(v, k)
        BY <3>4, <3>5, <4>2, <4>3 DEF Pages!Newer
      <4>6. Pages!Newer(u, k)
        BY <4>4, <4>5 DEF Pages!Newer
      <4> QED BY <3>3, <4>3, <4>6
    <3> QED BY <3>6, <3>7
  <2> QED BY <2>5, <2>6, <2>7
<1>31. \A id \in x.present : ShownIn(y, id)
         \/ (y.phase = "walking" /\ \E r \in page_ledger : r.id = id /\ Pages!Behind(r, y.cursor))
  <2> SUFFICES ASSUME NEW id \in x.present, ~ShownIn(y, id)
               PROVE  y.phase = "walking" /\ \E r \in page_ledger : r.id = id
                      /\ Pages!Behind(r, y.cursor)
    OBVIOUS
  <2>1. ~ShownIn(x, id)
    BY <1>20, <1>21, <1>23, <1>24 DEF ShownIn
  <2>2. PICK r \in page_ledger : r.id = id /\ Pages!Behind(r, x.cursor)
    BY <1>17, <1>18, <2>1 DEF Walks
  <2>3. r \in Q
    BY <2>2 DEF Q
  <2>4. PICK k \in 1..n : o[k] = r
    BY <1>3, <2>3
  <2>5. k > p
    <3> SUFFICES ASSUME k <= p PROVE FALSE
      BY <1>3
    <3>1. k \in 1..p /\ N + k \in 1..(N + p)
      BY <1>3
    <3>2. all[N + k].id = id
      BY <1>15a, <1>23, <2>2, <2>4, <3>1
    <3> QED BY <1>23, <1>24, <3>1, <3>2 DEF ShownIn
  <2>6. n > PageSize /\ p = PageSize /\ p # 0 /\ p \in 1..n
    BY <1>3, <1>4, <1>6, <2>4, <2>5
  <2>7. Pages!Newer(o[p], r)
    BY <1>3, <2>4, <2>5, <2>6
  <2>8. y.cursor = <<keys[p]>> /\ keys[p].id = o[p].id /\ keys[p].at = o[p].at
    <3>1. p \in 1..p
      BY <2>6
    <3> QED BY <1>15a, <1>24, <2>6, <3>1
  <2>9. Pages!Behind(r, y.cursor)
    BY <2>7, <2>8 DEF Pages!Behind, Pages!Newer
  <2> QED BY <1>24, <2>2, <2>6, <2>9
<1>32. Walks(y, page_ledger)
  BY <1>24, <1>25, <1>28, <1>30, <1>31 DEF Walks
<1> QED BY <1>17, <1>32 DEF y

\* The invariant holds in every reachable state.
LEMMA PagesInvariance ==
  ASSUME Pages!LedgerViewsAssumption
  PROVE  Spec => []PagesInv
<1>1. Init => PagesInv
  <2> SUFFICES ASSUME Init PROVE PagesInv
    OBVIOUS
  <2>1. page_zone = AZone /\ page_ledger = {} /\ page_walk = [w \in Walkers |-> Pages!Fresh]
    BY DEF Init, Pages!Init
  <2>2. ASSUME NEW w \in Walkers PROVE Walks(page_walk[w], {})
    <3>1. page_walk[w] = [seen |-> <<>>, cursor |-> <<>>, present |-> {}, phase |-> "idle"]
      BY <2>1 DEF Pages!Fresh
    <3>2. PICK x : x = page_walk[w]
      OBVIOUS
    <3>3. x.seen = <<>> /\ x.cursor = <<>> /\ x.present = {} /\ x.phase = "idle"
      BY <3>1, <3>2
    <3>4. DOMAIN x.seen = {}
      BY <3>3
    <3>5. x \in [seen: Seq(PageKey), cursor: {<<>>} \cup {<<k>> : k \in PageKey},
            present: SUBSET PageIds,
                 phase: {"idle", "walking", "done"}]
      <4>1. <<>> \in Seq(PageKey)
        OBVIOUS
      <4> QED BY <3>1, <3>2, <4>1
    <3>6. Walks(x, {})
      BY <3>3, <3>4, <3>5 DEF Walks
    <3> QED BY <3>2, <3>6
  <2> QED BY <2>1, <2>2, FS_EmptySet DEF PagesInv
<1>2. PagesInv /\ [Next]_vars => PagesInv'
  <2> SUFFICES ASSUME PagesInv, [Next]_vars PROVE PagesInv'
    OBVIOUS
  <2>1. CASE UNCHANGED page_vars
    BY <2>1 DEF page_vars, PagesInv, Walks, ShownIn
  <2>2. ASSUME page_zone' = page_zone, page_walk' = page_walk,
               \A r \in page_ledger : \E s \in page_ledger' : s.id = r.id /\ s.at = r.at
        PROVE  \A w \in Walkers : Walks(page_walk'[w], page_ledger')
    BY <2>2, WalksKept DEF PagesInv
  <2>3. ASSUME NEW r \in Pages!Row, Pages!Post(r) PROVE PagesInv'
    <3>1. IsFiniteSet(page_ledger \cup {r})
      BY FS_AddElement DEF PagesInv
    <3>2. \A s \in page_ledger : \E t \in page_ledger' : t.id = s.id /\ t.at = s.at
      BY <2>3 DEF Pages!Post
    <3> QED BY <2>2, <2>3, <3>1, <3>2 DEF Pages!Post, PagesInv
  <2>4. ASSUME NEW r \in page_ledger, NEW c \in {} \cup {None}, Pages!Recategorize(r, c) PROVE PagesInv'
    <3>1. PICK s : s = [r EXCEPT !.category = c]
      OBVIOUS
    <3>2. s \in Pages!Row /\ s.id = r.id /\ s.at = r.at
      BY <3>1 DEF Pages!Row, PagesInv
    <3>3. page_ledger' = (page_ledger \ {r}) \cup {s}
      BY <2>4, <3>1 DEF Pages!Recategorize
    <3>4. IsFiniteSet(page_ledger')
      BY <3>3, FS_AddElement, FS_RemoveElement DEF PagesInv
    <3>5. page_ledger' \subseteq Pages!Row
      BY <3>2, <3>3 DEF PagesInv
    <3>6. \A t \in page_ledger', u \in page_ledger' : t.id = u.id => t = u
      BY <3>2, <3>3 DEF PagesInv
    <3>7. \A t \in page_ledger : \E u \in page_ledger' : u.id = t.id /\ u.at = t.at
      BY <3>2, <3>3
    <3> QED BY <2>2, <2>4, <3>4, <3>5, <3>6, <3>7 DEF Pages!Recategorize, PagesInv
  <2>5. ASSUME NEW w \in Walkers, Pages!StartWalk(w) PROVE PagesInv'
    <3>1. PICK x : x = page_walk[w]
      OBVIOUS
    <3>2. PICK y : y = page_walk'[w]
      OBVIOUS
    <3>3. Walks(x, page_ledger) /\ x.phase = "idle" /\ page_ledger' = page_ledger
            /\ page_zone' = page_zone
      BY <2>5, <3>1 DEF PagesInv, Pages!StartWalk
    <3>4. y = [x EXCEPT !.phase = "walking", !.present = {r.id : r \in page_ledger}]
      BY <2>5, <3>1, <3>2 DEF PagesInv, Pages!StartWalk
    <3>5. x \in [seen: Seq(PageKey), cursor: {<<>>} \cup {<<k>> : k \in PageKey},
            present: SUBSET PageIds,
                 phase: {"idle", "walking", "done"}]
      BY <3>3 DEF Walks
    <3>6. x.seen = <<>> /\ x.cursor = <<>>
      BY <3>3 DEF Walks
    <3>7. PICK ids : ids = {r.id : r \in page_ledger}
      OBVIOUS
    <3>8. ids \in SUBSET PageIds
      BY <3>7 DEF PagesInv, Pages!Row
    <3>9. y \in [seen: Seq(PageKey), cursor: {<<>>} \cup {<<k>> : k \in PageKey},
            present: SUBSET PageIds,
                 phase: {"idle", "walking", "done"}]
      BY <3>4, <3>5, <3>7, <3>8
    <3>10. y.seen = <<>> /\ y.cursor = <<>> /\ y.phase = "walking" /\ y.present = ids
      BY <3>4, <3>5, <3>6, <3>7
    <3>11. DOMAIN y.seen = {}
      BY <3>10
    <3>12. \A p \in ids : \E r \in page_ledger : r.id = p /\ Pages!Behind(r, <<>>)
      BY <3>7 DEF Pages!Behind
    <3>13. Walks(y, page_ledger)
      BY <3>9, <3>10, <3>11, <3>12 DEF Walks
    <3>14. \A v \in Walkers : v # w => page_walk'[v] = page_walk[v]
      BY <2>5 DEF PagesInv, Pages!StartWalk
    <3>15. page_walk' = [v \in Walkers |-> page_walk'[v]]
      BY <2>5 DEF PagesInv, Pages!StartWalk
    <3>16. \A v \in Walkers : Walks(page_walk'[v], page_ledger')
      BY <3>2, <3>3, <3>13, <3>14 DEF PagesInv
    <3> QED BY <3>3, <3>15, <3>16 DEF PagesInv
  <2>6. ASSUME NEW w \in Walkers, Pages!ReadPage(w) PROVE PagesInv'
    <3>1. page_ledger' = page_ledger /\ page_zone' = page_zone
      BY <2>6 DEF Pages!ReadPage
    <3>2. \A v \in Walkers : v # w => page_walk'[v] = page_walk[v]
      BY <2>6 DEF PagesInv, Pages!ReadPage
    <3>3. page_walk' = [v \in Walkers |-> page_walk'[v]]
      BY <2>6 DEF PagesInv, Pages!ReadPage
    <3>4. Walks(page_walk'[w], page_ledger')
      BY <2>6, PageRead
    <3>5. \A v \in Walkers : Walks(page_walk'[v], page_ledger')
      BY <3>1, <3>2, <3>4 DEF PagesInv
    <3> QED BY <3>1, <3>3, <3>5 DEF PagesInv
  <2>7. CASE Pages!Next
    BY <2>3, <2>4, <2>5, <2>6, <2>7 DEF Pages!Next
  <2> QED BY <2>1, <2>7 DEF Next, vars, Rest
<1> QED BY <1>1, <1>2, PTL DEF Spec

\* What the invariant says of the properties of the run.
LEMMA PagesSay ==
  ASSUME PagesInv
  PROVE  Pages!TypeOK /\ Pages!WalkDescends /\ Pages!WalkMissesNothing
<1>1. ASSUME NEW w \in Walkers
      PROVE  /\ page_walk[w].phase \in {"idle", "walking", "done"}
             /\ Len(page_walk[w].cursor) <= 1
             /\ \A i \in DOMAIN page_walk[w].seen : \A j \in 1..(i - 1)
                  : Pages!Newer(page_walk[w].seen[j], page_walk[w].seen[i])
             /\ page_walk[w].phase = "done" =>
                  page_walk[w].present \subseteq {page_walk[w].seen[i].id
                    : i \in DOMAIN page_walk[w].seen}
  <2>1. PICK x : x = page_walk[w]
    OBVIOUS
  <2>2. Walks(x, page_ledger)
    BY <2>1 DEF PagesInv
  <2>3. x.phase \in {"idle", "walking", "done"} /\ x.cursor \in {<<>>} \cup {<<k>> : k \in PageKey}
    BY <2>2 DEF Walks
  <2>4. Len(x.cursor) <= 1
    <3>1. CASE x.cursor = <<>>
      BY <3>1
    <3>2. ASSUME NEW k, x.cursor = <<k>> PROVE Len(x.cursor) <= 1
      BY <3>2
    <3> QED BY <2>3, <3>1, <3>2
  <2>5. x.phase = "done" => x.present \subseteq {x.seen[i].id : i \in DOMAIN x.seen}
    BY <2>2 DEF Walks, ShownIn
  <2>6. \A i \in DOMAIN x.seen : \A j \in 1..(i - 1) : Pages!Newer(x.seen[j], x.seen[i])
    BY <2>2 DEF Walks
  <2> QED BY <2>1, <2>3, <2>4, <2>5, <2>6
<1>2. Pages!TypeOK
  BY <1>1 DEF Pages!TypeOK, PagesInv
<1>3. Pages!WalkDescends
  BY <1>1 DEF Pages!WalkDescends
<1>4. Pages!WalkMissesNothing
  BY <1>1 DEF Pages!WalkMissesNothing
<1> QED BY <1>2, <1>3, <1>4

-----------------------------------------------------------------------------
(* Sums of differences *)

\* Differences add up to the difference of the sums.
LEMMA SumDifference ==
  ASSUME NEW S, IsFiniteSet(S), NEW f, NEW g, NEW h,
         \A x \in S : f[x] \in Int /\ g[x] \in Int /\ h[x] = f[x] - g[x]
  PROVE  SumFunctionOnSet(h, S) = SumFunctionOnSet(f, S) - SumFunctionOnSet(g, S)
<1> DEFINE Sum(k, s) == SumFunctionOnSet(k, s)
           Bad == {s \in SUBSET S : Sum(h, s) # Sum(f, s) - Sum(g, s)}
<1>1. ASSUME NEW s \in Bad, \A t \in Bad : t \subseteq s => t = s PROVE FALSE
  <2>1. IsFiniteSet(s) /\ \A x \in s : f[x] \in Int /\ g[x] \in Int /\ h[x] \in Int
    BY FS_Subset
  <2>2. s # {}
    <3> SUFFICES ASSUME s = {} PROVE FALSE
      OBVIOUS
    <3>1. Sum(h, {}) = 0 /\ Sum(f, {}) = 0 /\ Sum(g, {}) = 0
      BY SumOfNone
    <3> QED BY <3>1
  <2>3. PICK x \in s : TRUE
    BY <2>2
  <2>4. PICK t : t = s \ {x}
    OBVIOUS
  <2>5. t \in SUBSET S /\ t # s /\ t \subseteq s /\ IsFiniteSet(t)
    BY <2>1, <2>3, <2>4, FS_Subset
  <2>6. Sum(h, t) = Sum(f, t) - Sum(g, t)
    BY <1>1, <2>5
  <2>7. Sum(h, s) = h[x] + Sum(h, t) /\ Sum(f, s) = f[x] + Sum(f, t) /\ Sum(g, s) = g[x] + Sum(g, t)
    BY <2>1, <2>3, <2>4, SumSplit
  <2>8. Sum(f, t) \in Int /\ Sum(g, t) \in Int
    BY <2>1, <2>5, SumTyped
  <2>9. PICK a, b, c, d \in Int : a = f[x] /\ b = g[x] /\ c = Sum(f, t) /\ d = Sum(g, t)
    BY <2>1, <2>3, <2>8
  <2>10. h[x] = a - b
    BY <2>3, <2>9
  <2>11. Sum(h, s) = (a - b) + (c - d) /\ Sum(f, s) = a + c /\ Sum(g, s) = b + d
    BY <2>6, <2>7, <2>9, <2>10
  <2>12. Sum(h, s) = Sum(f, s) - Sum(g, s)
    BY <2>9, <2>11
  <2> QED BY <2>12
<1>2. Bad = {}
  <2> HIDE DEF Bad
  <2>1. Bad \in SUBSET SUBSET S
    BY DEF Bad
  <2> QED BY <1>1, <2>1, Minimal
<1> QED BY <1>2

\* The sums of the instance are those of Sums.
LEMMA ReportSums ==
  ASSUME NEW f, NEW S
  PROVE  Report!SumFunctionOnSet(f, S) = SumFunctionOnSet(f, S)
BY DEF Report!SumFunctionOnSet, SumFunctionOnSet, Report!FoldFunctionOnSet,
       FoldFunctionOnSet, Report!MapThenFoldSet, MapThenFoldSet

\* The operator of the instance is that of the theorems about finite sets.
LEMMA ReportCount == \A S : Report!Cardinality(S) = Cardinality(S)
BY DEF Report!Cardinality, Cardinality, Report!IsFiniteSet, IsFiniteSet

\* So is this one.
LEMMA ReportFinite == \A S : Report!IsFiniteSet(S) <=> IsFiniteSet(S)
BY DEF Report!IsFiniteSet, IsFiniteSet

-----------------------------------------------------------------------------
(* What a report holds *)

\* A row that was read is one of the ledger's, but for its category.
ReadFrom(q, r) ==
  /\ q.id = r.id /\ q.day = r.day /\ q.amount = r.amount /\ q.type = r.type /\ q.merchant = r.merchant
  /\ q.counts /\ r.counts

\* One statement's rows, of the months from first to last.
ReadAs(rows, first, last) ==
  /\ IsFiniteSet(rows)
  /\ \A q \in rows, u \in rows : q.id = u.id => q = u
  /\ \A q \in rows : (\E r \in report_ledger : ReadFrom(q, r)) /\ Report!InMonths(q, first, last)

ReportInv ==
  /\ report_ledger \subseteq Postings
  /\ DOMAIN report_category = {r.id : r \in Postings}
  /\ \A i \in DOMAIN report_category : report_category[i] \in Headings
  /\ report_open \subseteq Debts
  /\ report_today \in FirstDay..LastDay
  /\ report_changes \in 0..MaxChanges
  /\ report_report = [pc |-> report_report.pc, month |-> report_report.month,
       current |-> report_report.current,
                      previous |-> report_report.previous, history |-> report_report.history,
                      overdue |-> report_report.overdue]
  /\ report_report.pc \in {"none", "current", "previous", "history", "overdue", "built"}
  /\ report_report.month \in Int
  /\ report_report.pc \in {"none", "current"} => report_report.current = {}
  /\ report_report.pc \in {"none", "current", "previous"} => report_report.previous = {}
  /\ report_report.pc \in {"none", "current", "previous", "history"} => report_report.history = {}
  /\ ReadAs(report_report.current, report_report.month, report_report.month)
  /\ ReadAs(report_report.previous, report_report.month - 1, report_report.month - 1)
  /\ ReadAs(report_report.history, report_report.month - HistoryMonths + 1, report_report.month)
  /\ report_report.pc \in {"overdue", "built"} =>
       Report!Ids(report_report.current) \cup Report!Ids(report_report.previous)
         \subseteq Report!Ids(report_report.history)

\* The month of a day is a number.
LEMMA MonthTyped ==
  ASSUME Report!InsightsAssumption, NEW d \in Int
  PROVE  Report!Month(d) \in Int
<1>1. MonthDays \in Nat \ {0}
  BY DEF Report!InsightsAssumption
<1>2. d \div MonthDays \in Int
  BY <1>1
<1> QED BY <1>2 DEF Report!Month

\* The fields of a posting.
LEMMA PostingTyped ==
  ASSUME Report!InsightsAssumption, NEW r \in Postings
  PROVE  /\ DOMAIN r = {"id", "day", "amount", "type", "merchant", "category", "counts"}
         /\ r.id \in Int /\ r.amount \in Int /\ r.day \in Int /\ r.counts \in BOOLEAN
         /\ \A s \in Postings : s.id = r.id => s = r
         /\ r.category \in Headings
BY DEF Report!InsightsAssumption, Report!IsRow

\* What one statement reads of the months from first to last.
LEMMA PeriodRead ==
  ASSUME Report!InsightsAssumption, ReportInv, NEW first \in Int, NEW last \in Int,
         NEW rows, rows = Report!InPeriod(first, last)
  PROVE  /\ ReadAs(rows, first, last)
         /\ \A r \in report_ledger : r.counts /\ Report!InMonths(r, first, last)
              => \E q \in rows : q.id = r.id
<1> DEFINE Seen(r) == [r EXCEPT !.category = report_category[r.id]]
           S == {r \in report_ledger : r.counts}
<1>1. S \subseteq Postings
  BY DEF ReportInv
<1>2. ASSUME NEW r \in S PROVE ReadFrom(Seen(r), r)
  BY <1>1, PostingTyped DEF ReadFrom
<1>3. Report!Read = {Seen(r) : r \in S}
  BY DEF Report!Read
<1>4. IsFiniteSet(Report!Read)
  <2>1. IsFiniteSet(Postings)
    BY ReportFinite DEF Report!InsightsAssumption
  <2>2. IsFiniteSet(S)
    BY <1>1, <2>1, FS_Subset
  <2>3. PICK f : f = [r \in S |-> Seen(r)]
    OBVIOUS
  <2>4. Report!Read = {f[r] : r \in S}
    BY <1>3, <2>3
  <2> HIDE DEF S, Seen
  <2> QED BY <2>2, <2>4, ImageFinite
<1>5. rows = {q \in Report!Read : Report!InMonths(q, first, last)}
  BY DEF Report!InPeriod
<1>6. IsFiniteSet(rows)
  BY <1>4, <1>5, FS_Subset
<1>7. ASSUME NEW q \in rows PROVE \E r \in S : q = Seen(r) /\ ReadFrom(q, r)
  BY <1>2, <1>3, <1>5
<1>8. ASSUME NEW q \in rows, NEW u \in rows, q.id = u.id PROVE q = u
  <2>1. PICK r \in S : q = Seen(r) /\ ReadFrom(q, r)
    BY <1>7
  <2>2. PICK s \in S : u = Seen(s) /\ ReadFrom(u, s)
    BY <1>7
  <2>3. r = s
    BY <1>1, <1>8, <2>1, <2>2, PostingTyped DEF ReadFrom
  <2> QED BY <2>1, <2>2, <2>3
<1>9. ASSUME NEW r \in report_ledger, r.counts, Report!InMonths(r, first, last)
      PROVE \E q \in rows : q.id = r.id
  <2>1. ReadFrom(Seen(r), r) /\ Seen(r) \in Report!Read
    BY <1>2, <1>3, <1>9
  <2> HIDE DEF Seen
  <2>2. Report!InMonths(Seen(r), first, last)
    BY <1>9, <2>1 DEF Report!InMonths, ReadFrom
  <2> QED BY <1>5, <2>1, <2>2 DEF ReadFrom
<1> HIDE DEF Seen
<1>10. ReadAs(rows, first, last)
  BY <1>5, <1>6, <1>7, <1>8 DEF ReadAs
<1> QED BY <1>9, <1>10

\* Nothing read is read from any months.
LEMMA ReadNone ==
  ASSUME NEW first, NEW last
  PROVE  ReadAs({}, first, last)
BY FS_EmptySet DEF ReadAs

\* What a statement has read lies in its months and in the ledger.
LEMMA ReadWithin ==
  ASSUME Report!InsightsAssumption, ReportInv, NEW first \in Int, NEW last \in Int, NEW rows,
         ReadAs(rows, first, last),
         NEW q \in rows
  PROVE  /\ q.day \in Int /\ q.amount \in Int /\ q.id \in Int /\ Report!Month(q.day) \in Int
         /\ first <= Report!Month(q.day) /\ Report!Month(q.day) <= last
         /\ \E r \in report_ledger : ReadFrom(q, r)
<1>1. PICK r \in report_ledger : ReadFrom(q, r)
  BY DEF ReadAs
<1>2. r \in Postings
  BY DEF ReportInv
<1>3. q.day \in Int /\ q.amount \in Int /\ q.id \in Int
  BY <1>1, <1>2, PostingTyped DEF ReadFrom
<1> QED BY <1>1, <1>3, MonthTyped DEF ReadAs, Report!InMonths

\* The invariant holds in every reachable state.
LEMMA ReportInvariance ==
  ASSUME Report!InsightsAssumption
  PROVE  Spec => []ReportInv
<1>1. Init => ReportInv
  <2> SUFFICES ASSUME Init PROVE ReportInv
    OBVIOUS
  <2>1. Report!Init
    BY DEF Init
  <2>2. report_report = Report!Unread
    BY <2>1 DEF Report!Init
  <2>3. report_category = [i \in {r.id : r \in Postings} |-> (CHOOSE r \in Postings : r.id
          = i).category]
    BY <2>1 DEF Report!Init
  <2>4. DOMAIN report_category = {r.id : r \in Postings}
    BY <2>3
  <2>5. ASSUME NEW i \in {r.id : r \in Postings} PROVE report_category[i] \in Headings
    <3>1. \E r \in Postings : r.id = i
      BY <2>5
    <3>2. PICK s : s = CHOOSE r \in Postings : r.id = i
      OBVIOUS
    <3>3. s \in Postings
      BY <3>1, <3>2
    <3>4. report_category[i] = s.category
      BY <2>3, <2>5, <3>2
    <3> QED BY <3>3, <3>4, PostingTyped
  <2>6. FirstDay \in FirstDay..LastDay /\ 0 \in 0..MaxChanges
    BY DEF Report!InsightsAssumption
  <2>7. report_ledger \subseteq Postings /\ report_open \subseteq Debts
          /\ report_today \in FirstDay..LastDay
        /\ report_changes \in 0..MaxChanges
    BY <2>1, <2>6 DEF Report!Init
  <2>8. \A first, last : ReadAs({}, first, last)
    BY ReadNone
  <2> QED BY <2>2, <2>4, <2>5, <2>7, <2>8 DEF ReportInv, Report!Unread, Report!Ids
<1>2. ReportInv /\ [Next]_vars => ReportInv'
  <2> SUFFICES ASSUME ReportInv, [Next]_vars PROVE ReportInv'
    OBVIOUS
  <2> DEFINE x == report_report
  <2>a. MonthDays \in Nat \ {0} /\ HistoryMonths \in Int /\ HistoryMonths >= 2 /\ x.month \in Int
        /\ x.month - 1 \in Int /\ x.month - HistoryMonths + 1 \in Int
    <3>1. HistoryMonths \in Nat \ {0, 1} /\ MonthDays \in Nat \ {0}
      BY DEF Report!InsightsAssumption
    <3> QED BY <3>1 DEF ReportInv
  <2>1. ASSUME report_ledger \subseteq report_ledger', report_report' = report_report
        PROVE  /\ ReadAs(report_report.current, report_report.month, report_report.month)'
               /\ ReadAs(report_report.previous, report_report.month - 1, report_report.month - 1)'
               /\ ReadAs(report_report.history, report_report.month - HistoryMonths + 1,
                    report_report.month)'
    BY <2>1 DEF ReportInv, ReadAs, Report!InMonths, Report!Month, ReadFrom
  <2>2. CASE UNCHANGED report_vars
    BY <2>1, <2>2 DEF report_vars, ReportInv, Report!Ids
  <2>3. ASSUME NEW r \in Postings, Report!Post(r) PROVE ReportInv'
    <3>1. report_changes' \in 0..MaxChanges
      <4>1. MaxChanges \in Nat
        BY DEF Report!InsightsAssumption
      <4>2. report_changes \in 0..MaxChanges
        BY DEF ReportInv
      <4> QED BY <2>3, <4>1, <4>2 DEF Report!Post
    <3>2. report_ledger \subseteq report_ledger' /\ report_ledger' \subseteq Postings
            /\ report_report' = report_report
      BY <2>3 DEF Report!Post, ReportInv
    <3> QED BY <2>1, <2>3, <3>1, <3>2 DEF Report!Post, ReportInv, Report!Ids
  <2>4. ASSUME NEW r \in Postings, NEW c \in Headings, Report!Recategorize(r, c) PROVE ReportInv'
    <3>1. report_changes' \in 0..MaxChanges
      <4>1. MaxChanges \in Nat
        BY DEF Report!InsightsAssumption
      <4>2. report_changes \in 0..MaxChanges
        BY DEF ReportInv
      <4> QED BY <2>4, <4>1, <4>2 DEF Report!Recategorize
    <3>2. DOMAIN report_category' = DOMAIN report_category
      BY <2>4 DEF Report!Recategorize
    <3>3. \A i \in DOMAIN report_category : report_category'[i] \in Headings
      BY <2>4 DEF Report!Recategorize, ReportInv
    <3> QED BY <2>1, <2>4, <3>1, <3>2, <3>3 DEF Report!Recategorize, ReportInv, Report!Ids
  <2>5. ASSUME NEW o \in Debts, Report!Close(o) PROVE ReportInv'
    <3>1. report_changes' \in 0..MaxChanges
      <4>1. MaxChanges \in Nat
        BY DEF Report!InsightsAssumption
      <4>2. report_changes \in 0..MaxChanges
        BY DEF ReportInv
      <4> QED BY <2>5, <4>1, <4>2 DEF Report!Close
    <3>2. report_open' \subseteq Debts
      BY <2>5 DEF Report!Close, ReportInv
    <3> QED BY <2>1, <2>5, <3>1, <3>2 DEF Report!Close, ReportInv, Report!Ids
  <2>6. CASE Report!Midnight
    <3>1. report_today' \in FirstDay..LastDay
      <4>1. FirstDay \in Nat /\ LastDay \in Nat
        BY DEF Report!InsightsAssumption
      <4>2. report_today \in FirstDay..LastDay
        BY DEF ReportInv
      <4> QED BY <2>6, <4>1, <4>2 DEF Report!Midnight
    <3> QED BY <2>1, <2>6, <3>1 DEF Report!Midnight, ReportInv, Report!Ids
  <2>7. CASE Report!Begin
    <3>1. report_today \in Int
      <4>1. FirstDay \in Nat /\ LastDay \in Nat
        BY DEF Report!InsightsAssumption
      <4> QED BY <4>1 DEF ReportInv
    <3>2. PICK m \in Int : m = Report!Month(report_today)
      BY <3>1, MonthTyped
    <3>3. x.pc = "none" /\ report_report' = [x EXCEPT !.pc = "current", !.month = m]
          /\ UNCHANGED <<report_ledger, report_category, report_open, report_today, report_changes>>
      BY <2>7, <3>2 DEF Report!Begin
    <3>4. x.current = {} /\ x.previous = {} /\ x.history = {}
      BY <3>3 DEF ReportInv
    <3>5. report_report' = [pc |-> "current", month |-> m, current |-> {}, previous |-> {},
            history |-> {}, overdue |-> x.overdue]
      BY <3>3, <3>4 DEF ReportInv
    <3>6. /\ ReadAs(report_report.current, report_report.month, report_report.month)'
          /\ ReadAs(report_report.previous, report_report.month - 1, report_report.month - 1)'
          /\ ReadAs(report_report.history, report_report.month - HistoryMonths + 1,
               report_report.month)'
      BY <3>5, FS_EmptySet DEF ReadAs
    <3> QED BY <3>2, <3>3, <3>5, <3>6 DEF ReportInv, Report!Ids
  <2>8. CASE Report!ReadCurrent
    <3>1. PICK rows : rows = Report!InPeriod(x.month, x.month)
      OBVIOUS
    <3>2. ReadAs(rows, x.month, x.month)
      BY <2>a, <3>1, PeriodRead
    <3>3. x.pc = "current" /\ report_report' = [x EXCEPT !.pc = "previous", !.current = rows]
          /\ UNCHANGED <<report_ledger, report_category, report_open, report_today, report_changes>>
      BY <2>8, <3>1 DEF Report!ReadCurrent
    <3>4. report_report' = [pc |-> "previous", month |-> x.month, current |-> rows, previous |-> {},
            history |-> {}, overdue |-> x.overdue]
      BY <3>3 DEF ReportInv
    <3>7. ReadAs(report_report.current, report_report.month, report_report.month)'
      BY <3>2, <3>3, <3>4 DEF ReadAs, Report!InMonths, Report!Month, ReadFrom
    <3>8. ReadAs(report_report.previous, report_report.month - 1, report_report.month - 1)'
          /\ ReadAs(report_report.history, report_report.month - HistoryMonths + 1,
               report_report.month)'
      BY <3>4, FS_EmptySet DEF ReadAs
    <3> QED BY <3>3, <3>4, <3>7, <3>8 DEF ReportInv, Report!Ids
  <2>9. CASE Report!ReadPrevious
    <3>1. PICK rows : rows = Report!InPeriod(x.month - 1, x.month - 1)
      OBVIOUS
    <3>2. ReadAs(rows, x.month - 1, x.month - 1)
      BY <2>a, <3>1, PeriodRead
    <3>3. x.pc = "previous" /\ report_report' = [x EXCEPT !.pc = "history", !.previous = rows]
          /\ UNCHANGED <<report_ledger, report_category, report_open, report_today, report_changes>>
      BY <2>9, <3>1 DEF Report!ReadPrevious, Report!Previous
    <3>4. report_report' = [pc |-> "history", month |-> x.month, current |-> x.current,
            previous |-> rows, history |-> {}, overdue |-> x.overdue]
      BY <3>3 DEF ReportInv
    <3>7. ReadAs(report_report.current, report_report.month, report_report.month)'
      BY <3>3, <3>4 DEF ReportInv, ReadAs, Report!InMonths, Report!Month, ReadFrom
    <3>8. ReadAs(report_report.previous, report_report.month - 1, report_report.month - 1)'
      BY <3>2, <3>3, <3>4 DEF ReadAs, Report!InMonths, Report!Month, ReadFrom
    <3>9. ReadAs(report_report.history, report_report.month - HistoryMonths + 1, report_report.month)'
      BY <3>4, FS_EmptySet DEF ReadAs
    <3> QED BY <3>3, <3>4, <3>7, <3>8, <3>9 DEF ReportInv, Report!Ids
  <2>10. CASE Report!ReadHistory
    <3>1. PICK rows : rows = Report!InPeriod(x.month - HistoryMonths + 1, x.month)
      OBVIOUS
    <3>2. ReadAs(rows, x.month - HistoryMonths + 1, x.month)
          /\ \A r \in report_ledger : r.counts /\ Report!InMonths(r, x.month - HistoryMonths + 1,
               x.month) => \E q \in rows : q.id = r.id
      BY <2>a, <3>1, PeriodRead
    <3>3. x.pc = "history" /\ report_report' = [x EXCEPT !.pc = "overdue", !.history = rows]
          /\ UNCHANGED <<report_ledger, report_category, report_open, report_today, report_changes>>
      BY <2>10, <3>1 DEF Report!ReadHistory, Report!HistoryEnd
    <3>4. report_report' = [pc |-> "overdue", month |-> x.month, current |-> x.current,
            previous |-> x.previous, history |-> rows, overdue |-> x.overdue]
      BY <3>3 DEF ReportInv
    <3>5. ReadAs(x.current, x.month, x.month) /\ ReadAs(x.previous, x.month - 1, x.month - 1)
      BY DEF ReportInv
    <3>6. ASSUME NEW q \in x.current \cup x.previous PROVE \E u \in rows : u.id = q.id
      <4>1. /\ Report!Month(q.day) \in Int
            /\ x.month - 1 <= Report!Month(q.day) /\ Report!Month(q.day) <= x.month
            /\ \E r \in report_ledger : ReadFrom(q, r)
        <5>1. CASE q \in x.current
          BY <2>a, <3>5, <5>1, ReadWithin
        <5>2. CASE q \in x.previous
          BY <2>a, <3>5, <5>2, ReadWithin
        <5> QED BY <3>6, <5>1, <5>2
      <4>2. PICK r \in report_ledger : ReadFrom(q, r)
        BY <4>1
      <4>3. r.counts /\ r.id = q.id /\ r.day = q.day
        BY <4>2 DEF ReadFrom
      <4>4. Report!InMonths(r, x.month - HistoryMonths + 1, x.month)
        BY <2>a, <4>1, <4>3 DEF Report!InMonths
      <4> QED BY <3>2, <4>3, <4>4
    <3>7. ReadAs(report_report.current, report_report.month, report_report.month)'
      BY <3>3, <3>4 DEF ReportInv, ReadAs, Report!InMonths, Report!Month, ReadFrom
    <3>8. ReadAs(report_report.previous, report_report.month - 1, report_report.month - 1)'
      BY <3>3, <3>4 DEF ReportInv, ReadAs, Report!InMonths, Report!Month, ReadFrom
    <3>9. ReadAs(report_report.history, report_report.month - HistoryMonths + 1, report_report.month)'
      BY <3>2, <3>3, <3>4 DEF ReadAs, Report!InMonths, Report!Month, ReadFrom
    <3>10. Report!Ids(x.current) \cup Report!Ids(x.previous) \subseteq Report!Ids(rows)
      BY <3>6 DEF Report!Ids
    <3>11. (Report!Ids(report_report.current) \cup Report!Ids(report_report.previous) \subseteq Report!Ids(report_report.history))'
      BY <3>4, <3>10 DEF Report!Ids
    <3> QED BY <3>3, <3>4, <3>7, <3>8, <3>9, <3>11 DEF ReportInv
  <2>11. CASE Report!ReadOverdue
    <3>1. PICK due : due = {o \in report_open : o.due < report_today}
      OBVIOUS
    <3>3. x.pc = "overdue" /\ report_report' = [x EXCEPT !.pc = "built", !.overdue = due]
          /\ UNCHANGED <<report_ledger, report_category, report_open, report_today, report_changes>>
      BY <2>11, <3>1 DEF Report!ReadOverdue
    <3>4. report_report' = [pc |-> "built", month |-> x.month, current |-> x.current,
            previous |-> x.previous, history |-> x.history, overdue |-> due]
      BY <3>3 DEF ReportInv
    <3>7. ReadAs(report_report.current, report_report.month, report_report.month)'
      BY <3>3, <3>4 DEF ReportInv, ReadAs, Report!InMonths, Report!Month, ReadFrom
    <3>8. ReadAs(report_report.previous, report_report.month - 1, report_report.month - 1)'
      BY <3>3, <3>4 DEF ReportInv, ReadAs, Report!InMonths, Report!Month, ReadFrom
    <3>9. ReadAs(report_report.history, report_report.month - HistoryMonths + 1, report_report.month)'
      BY <3>3, <3>4 DEF ReportInv, ReadAs, Report!InMonths, Report!Month, ReadFrom
    <3> QED BY <3>3, <3>4, <3>7, <3>8, <3>9 DEF ReportInv, Report!Ids
  <2>12. CASE Report!Next
    BY <2>3, <2>4, <2>5, <2>6, <2>7, <2>8, <2>9, <2>10, <2>11, <2>12 DEF Report!Next
  <2> QED BY <2>2, <2>12 DEF Next, vars, Rest
<1> QED BY <1>1, <1>2, PTL DEF Spec

-----------------------------------------------------------------------------
(* What a report says *)

\* What some rows cost, as a sum over more rows.
LEMMA SpentOf ==
  ASSUME NEW S, IsFiniteSet(S), NEW T \in SUBSET S
  PROVE  Report!Spent(T) = SumFunctionOnSet([q \in S |-> Report!Signed(q)], T)
<1>1. PICK f : f = [q \in S |-> Report!Signed(q)]
  OBVIOUS
<1>2. PICK g : g = [q \in T |-> Report!Signed(q)]
  OBVIOUS
<1>3. Report!Spent(T) = SumFunctionOnSet(g, T)
  BY <1>2, ReportSums DEF Report!Spent, Report!SumFunction
<1>4. IsFiniteSet(T) /\ \A q \in T : f[q] = g[q]
  BY <1>1, <1>2, FS_Subset
<1> QED BY <1>1, <1>3, <1>4, SumSame

\* The rows of one statement, cut by category.
LEMMA SpentByCategory ==
  ASSUME NEW S, IsFiniteSet(S), \A q \in S : Report!Signed(q) \in Int,
         NEW K, IsFiniteSet(K), \A q \in S : q.category \in K, NEW sums,
         \A c \in K : sums[c] = Report!Spent(Report!Of(S, c))
  PROVE  /\ \A c \in K : sums[c] \in Int
         /\ SumFunctionOnSet(sums, K) = Report!Spent(S)
<1>1. PICK f : f = [q \in S |-> Report!Signed(q)]
  OBVIOUS
<1>2. PICK cut : cut = [q \in S |-> q.category]
  OBVIOUS
<1>3. ASSUME NEW c \in K
      PROVE  sums[c] = SumFunctionOnSet(f, {q \in S : cut[q] = c}) /\ sums[c] \in Int
  <2>1. PICK T : T = {q \in S : cut[q] = c}
    OBVIOUS
  <2>2. T = Report!Of(S, c) /\ T \in SUBSET S
    BY <1>2, <2>1 DEF Report!Of
  <2>3. Report!Spent(T) = SumFunctionOnSet(f, T)
    BY <1>1, <2>2, SpentOf
  <2>4. IsFiniteSet(T) /\ \A q \in T : f[q] \in Int
    BY <1>1, <2>2, FS_Subset
  <2>5. SumFunctionOnSet(f, T) \in Int
    BY <2>4, SumTyped
  <2> QED BY <2>1, <2>2, <2>3, <2>5
<1>4. Report!Spent(S) = SumFunctionOnSet(f, S)
  BY <1>1, SpentOf
<1>5. \A q \in S : f[q] \in Int /\ cut[q] \in K
  BY <1>1, <1>2
<1>6. SumFunctionOnSet(sums, K) = SumFunctionOnSet(f, S)
  BY <1>3, <1>5, SumByParts
<1> QED BY <1>3, <1>4, <1>6

\* Signed amounts of what was read are integers.
LEMMA ReadSigned ==
  ASSUME Report!InsightsAssumption, ReportInv, NEW first \in Int, NEW last \in Int, NEW rows,
         ReadAs(rows, first, last)
  PROVE  \A q \in rows : Report!Signed(q) \in Int
BY ReadWithin DEF Report!Signed

\* The deltas by category and by merchant add up to the difference of the months.
LEMMA DeltasAddUp ==
  ASSUME Report!InsightsAssumption, ReportInv
  PROVE  Report!ContributionsAddUp
<1>1. PICK cur : cur = report_report.current
  OBVIOUS
<1>2. PICK prev : prev = report_report.previous
  OBVIOUS
<1>3. PICK m \in Int : m = report_report.month
  BY DEF ReportInv
<1>4. ReadAs(cur, m, m) /\ ReadAs(prev, m - 1, m - 1) /\ m - 1 \in Int
  BY <1>1, <1>2, <1>3 DEF ReportInv
<1>5. IsFiniteSet(cur) /\ IsFiniteSet(prev)
  BY <1>4 DEF ReadAs
<1>6. \A q \in cur : Report!Signed(q) \in Int
  BY <1>3, <1>4, ReadSigned
<1>7. \A q \in prev : Report!Signed(q) \in Int
  BY <1>4, ReadSigned
<1>8. PICK K : K = Report!Grouped(cur, prev)
  OBVIOUS
<1>9. IsFiniteSet(K) /\ (\A q \in cur : q.category \in K) /\ (\A q \in prev : q.category \in K)
  <2>1. PICK f : f = [q \in cur |-> q.category]
    OBVIOUS
  <2>2. PICK g : g = [q \in prev |-> q.category]
    OBVIOUS
  <2>3. K = {f[q] : q \in cur} \cup {g[q] : q \in prev}
    BY <1>8, <2>1, <2>2 DEF Report!Grouped
  <2>4. IsFiniteSet({f[q] : q \in cur}) /\ IsFiniteSet({g[q] : q \in prev})
    BY <1>5, ImageFinite
  <2>5. IsFiniteSet(K)
    BY <2>3, <2>4, FS_Union
  <2> QED BY <2>1, <2>2, <2>3, <2>5
<1>10. PICK a : a = [c \in K |-> Report!Spent(Report!Of(cur, c))]
  OBVIOUS
<1>11. PICK b : b = [c \in K |-> Report!Spent(Report!Of(prev, c))]
  OBVIOUS
<1>12. PICK d : d = Report!Contributions(cur, prev)
  OBVIOUS
<1>13. (\A c \in K : a[c] \in Int) /\ SumFunctionOnSet(a, K) = Report!Spent(cur)
  <2>1. \A c \in K : a[c] = Report!Spent(Report!Of(cur, c))
    BY <1>10
  <2> QED BY <1>5, <1>6, <1>9, <2>1, SpentByCategory
<1>14. (\A c \in K : b[c] \in Int) /\ SumFunctionOnSet(b, K) = Report!Spent(prev)
  <2>1. \A c \in K : b[c] = Report!Spent(Report!Of(prev, c))
    BY <1>11
  <2> QED BY <1>5, <1>7, <1>9, <2>1, SpentByCategory
<1>15. DOMAIN d = K /\ \A c \in K : d[c] = a[c] - b[c]
  BY <1>8, <1>10, <1>11, <1>12 DEF Report!Contributions
<1>16. SumFunctionOnSet(d, K) = SumFunctionOnSet(a, K) - SumFunctionOnSet(b, K)
  BY <1>9, <1>13, <1>14, <1>15, SumDifference
<1>17. Report!SumFunction(d) = Report!Spent(cur) - Report!Spent(prev)
  BY <1>13, <1>14, <1>15, <1>16, ReportSums DEF Report!SumFunction
<1> QED BY <1>1, <1>2, <1>12, <1>17 DEF Report!ContributionsAddUp

\* No row is in both months of a report.
LEMMA NoRowTwice ==
  ASSUME Report!InsightsAssumption, ReportInv
  PROVE  Report!NoneTwice
<1>1. PICK cur : cur = report_report.current
  OBVIOUS
<1>2. PICK prev : prev = report_report.previous
  OBVIOUS
<1>3. PICK m \in Int : m = report_report.month
  BY DEF ReportInv
<1>4. ReadAs(cur, m, m) /\ ReadAs(prev, m - 1, m - 1) /\ m - 1 \in Int
  BY <1>1, <1>2, <1>3 DEF ReportInv
<1>5. ASSUME NEW q \in cur, NEW u \in prev, q.id = u.id PROVE FALSE
  <2>1. Report!Month(q.day) \in Int /\ m <= Report!Month(q.day)
          /\ \E r \in report_ledger : ReadFrom(q, r)
    BY <1>3, <1>4, ReadWithin
  <2>2. Report!Month(u.day) \in Int /\ Report!Month(u.day) <= m - 1
          /\ \E r \in report_ledger : ReadFrom(u, r)
    BY <1>4, ReadWithin
  <2>3. PICK r \in report_ledger : ReadFrom(q, r)
    BY <2>1
  <2>4. PICK s \in report_ledger : ReadFrom(u, s)
    BY <2>2
  <2>5. r \in Postings /\ s \in Postings /\ r.id = s.id
    BY <1>5, <2>3, <2>4 DEF ReportInv, ReadFrom
  <2>6. r = s
    BY <2>5, PostingTyped
  <2>7. q.day = u.day
    BY <2>3, <2>4, <2>6 DEF ReadFrom
  <2> QED BY <1>3, <2>1, <2>2, <2>7
<1> QED BY <1>1, <1>2, <1>5 DEF Report!NoneTwice, Report!Ids

\* What comes after a row in a finite set, has a next one.
LEMMA NextOf ==
  ASSUME NEW g, IsFiniteSet(g), \A q \in g : q.day \in Int /\ q.id \in Int, NEW r \in g,
         NEW s \in g, Report!Earlier(r, s)
  PROVE  \E t \in g : Report!Follows(t, r, g)
<1> DEFINE Between(t) == {u \in g : Report!Earlier(r, u) /\ Report!Earlier(u, t)}
           Later == {t \in g : Report!Earlier(r, t)}
           Bad == {Between(t) : t \in Later}
<1>1. \A t, u, v \in g : Report!Earlier(t, u) /\ Report!Earlier(u, v) => Report!Earlier(t, v)
  BY DEF Report!Earlier
<1>2. \A t \in g : ~Report!Earlier(t, t)
  BY DEF Report!Earlier
<1>3. PICK B \in Bad : \A A \in Bad : A \subseteq B => A = B
  <2>1. Bad \in SUBSET SUBSET g /\ Bad # {}
    OBVIOUS
  <2> HIDE DEF Bad
  <2> QED BY <2>1, Minimal
<1>4. PICK t \in Later : B = Between(t)
  OBVIOUS
<1>5. ASSUME NEW u \in g, Report!Earlier(r, u), Report!Earlier(u, t) PROVE FALSE
  <2>1. u \in Later /\ Between(u) \in Bad
    BY <1>5
  <2>2. Between(u) \subseteq Between(t)
    BY <1>1, <1>5
  <2>3. u \in Between(t) /\ u \notin Between(u)
    BY <1>2, <1>5
  <2> HIDE DEF Between, Bad
  <2> QED BY <1>3, <1>4, <2>1, <2>2, <2>3
<1> QED BY <1>5 DEF Report!Follows

\* In a chain of monthly gaps every row but the last has one about a month later.
LEMMA ChainHolds ==
  ASSUME Report!InsightsAssumption, NEW g, IsFiniteSet(g), \A q \in g : q.day \in Int /\ q.id \in Int,
         \A r \in g, s \in g : Report!Follows(s, r, g) => Report!Monthly(s.day - r.day),
         NEW r \in g
  PROVE  \/ \A s \in g : s.day <= r.day
         \/ \E s \in g : r.day + MinGap <= s.day /\ s.day <= r.day + MaxGap
<1> SUFFICES ASSUME NEW s \in g, ~(s.day <= r.day)
             PROVE  \E t \in g : r.day + MinGap <= t.day /\ t.day <= r.day + MaxGap
  OBVIOUS
<1>1. Report!Earlier(r, s)
  BY DEF Report!Earlier
<1>2. PICK t \in g : Report!Follows(t, r, g)
  BY <1>1, NextOf
<1>3. Report!Monthly(t.day - r.day)
  BY <1>2
<1>4. MinGap \in Int /\ MaxGap \in Int
  BY DEF Report!InsightsAssumption
<1>5. PICK a, b \in Int : a = t.day /\ b = r.day
  OBVIOUS
<1>6. b + MinGap <= a /\ a <= b + MaxGap
  BY <1>3, <1>4, <1>5 DEF Report!Monthly
<1> QED BY <1>5, <1>6

\* SupportIsSound: payments and debts that a report names were there.
LEMMA SupportHolds ==
  ASSUME Report!InsightsAssumption, ReportInv
  PROVE  Report!SupportIsSound
<1>1. PICK cur : cur = report_report.current
  OBVIOUS
<1>2. PICK prev : prev = report_report.previous
  OBVIOUS
<1>3. PICK hist : hist = report_report.history
  OBVIOUS
<1>4. PICK m \in Int : m = report_report.month
  BY DEF ReportInv
<1> DEFINE Sound(i) ==
      /\ i.code # "spending_increase" => \A r \in i.rows : r.type # "refund"
      /\ i.code = "possible_recurring" =>
           /\ Report!Cardinality(i.rows) > 2
           /\ \A r \in i.rows :
                \/ \A s \in i.rows : s.day <= r.day
                \/ \E s \in i.rows : r.day + MinGap <= s.day /\ s.day <= r.day + MaxGap
<1>5. ASSUME NEW i \in Report!SpendingIncrease(cur, prev) PROVE Sound(i)
  <2>1. i.code = "spending_increase"
    BY <1>5 DEF Report!SpendingIncrease
  <2> QED BY <2>1
<1>6. ASSUME NEW i \in Report!LargeTransactions(cur) PROVE Sound(i)
  <2>1. PICK r \in Report!Positive(cur) : i = [code |-> "large_transaction", rows |-> {r}]
    BY <1>6 DEF Report!LargeTransactions
  <2>2. i.code = "large_transaction" /\ i.rows = {r} /\ r.type # "refund"
    BY <2>1 DEF Report!Positive
  <2> QED BY <2>2
<1>7. ASSUME NEW i \in Report!MerchantConcentration(cur) PROVE Sound(i)
  <2>1. \E k : i = [code |-> "merchant_concentration",
          rows |-> {r \in Report!Positive(cur) : r.merchant = k}]
    BY <1>7 DEF Report!MerchantConcentration
  <2>2. i.code = "merchant_concentration" /\ \A r \in i.rows : r.type # "refund"
    BY <2>1 DEF Report!Positive
  <2> QED BY <2>2
<1>8. ASSUME NEW i \in Report!PossibleRecurring(hist) PROVE Sound(i)
  <2>1. PICK g \in SUBSET Report!Positive(hist) :
          /\ i = [code |-> "possible_recurring", rows |-> g]
          /\ Report!Cardinality(g) >= 3
          /\ \A r \in g, s \in g : Report!Follows(s, r, g) => Report!Monthly(s.day - r.day)
    BY <1>8 DEF Report!PossibleRecurring
  <2>2. i.code = "possible_recurring" /\ i.rows = g /\ g \subseteq hist
          /\ \A r \in g : r.type # "refund"
    BY <2>1 DEF Report!Positive
  <2>3. ReadAs(hist, m - HistoryMonths + 1, m) /\ m - HistoryMonths + 1 \in Int
    BY <1>3, <1>4 DEF ReportInv, Report!InsightsAssumption
  <2>4. IsFiniteSet(g)
    BY <2>2, <2>3, FS_Subset DEF ReadAs
  <2>5. \A q \in g : q.day \in Int /\ q.id \in Int
    BY <2>2, <2>3, ReadWithin
  <2>6. PICK n : n = Report!Cardinality(g)
    OBVIOUS
  <2>7. n \in Nat /\ n >= 3
    BY <2>1, <2>4, <2>6, ReportCount, FS_CardinalityType
  <2>8. n > 2
    BY <2>7
  <2>9. \A r \in g : (\A s \in g : s.day <= r.day) \/ \E s \in g : r.day + MinGap <= s.day
          /\ s.day <= r.day + MaxGap
    BY <2>1, <2>4, <2>5, ChainHolds
  <2> QED BY <2>2, <2>6, <2>8, <2>9
<1>9. \A i \in Report!Insights : Sound(i)
  BY <1>1, <1>2, <1>3, <1>5, <1>6, <1>7, <1>8 DEF Report!Insights
<1> QED BY <1>9 DEF Report!SupportIsSound

\* What the invariant says of the properties of the run.
LEMMA ReportSays ==
  ASSUME Report!InsightsAssumption, ReportInv
  PROVE  /\ Report!TypeOK
         /\ Report!ContributionsAddUp /\ Report!NoneTwice /\ Report!HistoryHoldsBoth
         /\ Report!SupportIsSound
<1>1. Report!HistoryHoldsBoth
  BY DEF ReportInv, Report!HistoryHoldsBoth, Report!Built
<1>2. Report!TypeOK
  <2>1. PICK m \in Int : m = report_report.month
    BY DEF ReportInv
  <2>2. PICK k \in Int : k = m - HistoryMonths + 1 /\ k <= m - 1
    <3>1. HistoryMonths \in Nat \ {0, 1}
      BY DEF Report!InsightsAssumption
    <3>2. m - HistoryMonths + 1 \in Int /\ m - HistoryMonths + 1 <= m - 1
      BY <3>1
    <3> QED BY <3>2
  <2>3. ASSUME NEW q \in report_report.current \cup report_report.previous \cup report_report.history
        PROVE  q.counts /\ Report!InMonths(q, k, m)
    <3>1. /\ ReadAs(report_report.current, m, m) /\ ReadAs(report_report.previous, m - 1, m - 1)
          /\ ReadAs(report_report.history, k, m) /\ m - 1 \in Int
      BY <2>1, <2>2 DEF ReportInv
    <3>2. /\ Report!Month(q.day) \in Int /\ k <= Report!Month(q.day) /\ Report!Month(q.day) <= m
          /\ \E r \in report_ledger : ReadFrom(q, r)
      <4>1. CASE q \in report_report.current
        <5>1. /\ Report!Month(q.day) \in Int /\ m <= Report!Month(q.day) /\ Report!Month(q.day) <= m
              /\ \E r \in report_ledger : ReadFrom(q, r)
          BY <2>1, <3>1, <4>1, ReadWithin
        <5> QED BY <2>1, <2>2, <5>1
      <4>2. CASE q \in report_report.previous
        <5>1. /\ Report!Month(q.day) \in Int /\ m - 1 <= Report!Month(q.day)
              /\ Report!Month(q.day) <= m - 1
              /\ \E r \in report_ledger : ReadFrom(q, r)
          BY <3>1, <4>2, ReadWithin
        <5> QED BY <2>1, <2>2, <5>1
      <4>3. CASE q \in report_report.history
        BY <2>1, <2>2, <3>1, <4>3, ReadWithin
      <4> QED BY <2>3, <4>1, <4>2, <4>3
    <3> QED BY <3>2 DEF ReadFrom, Report!InMonths
  <2> QED BY <2>1, <2>2, <2>3 DEF ReportInv, Report!TypeOK
<1> QED BY <1>1, <1>2, DeltasAddUp, NoRowTwice, SupportHolds

\* The operator of the instance is that of the theorems about finite sets.
LEMMA CopiesCount == \A S : Copies!Cardinality(S) = Cardinality(S)
BY DEF Copies!Cardinality, Cardinality, Copies!IsFiniteSet, IsFiniteSet

\* So is this one.
LEMMA CopiesFinite == \A S : Copies!IsFiniteSet(S) <=> IsFiniteSet(S)
BY DEF Copies!IsFiniteSet, IsFiniteSet

\* The state of one search: an accepted policy, an event and a ledger.
Searched ==
  Copies!Valid(copy_policy) /\ copy_event \in Events /\ copy_ledger \in Ledgers

Shared == {t \in copy_ledger : t.matches /\ Copies!SharesId(t)}

\* The rows of a ledger that is searched, and their distances.
LEMMA CopiesTyped ==
  ASSUME Copies!ScoringAssumption, Searched
  PROVE  /\ IsFiniteSet(copy_ledger)
         /\ \A t \in copy_ledger : /\ t.at \in Int /\ t.matches \in BOOLEAN /\ t.id \in Int
              /\ t.id # None
                                   /\ Copies!Distance(t) \in Nat
                                   /\ (Copies!Distance(t) = 0 <=> t.at = copy_event.at)
         /\ \A t, u \in copy_ledger : t.id = u.id => t = u
         /\ Window \in Nat \ {0} /\ MaxCandidates \in Nat \ {0}
<1>1. IsFiniteSet(copy_ledger) /\ \A t \in copy_ledger : Copies!IsTransaction(t)
  BY CopiesFinite DEF Copies!ScoringAssumption, Searched
<1>2. copy_event.at \in Int
  BY DEF Copies!ScoringAssumption, Searched, Copies!IsEvent
<1>3. \A t \in copy_ledger : t.at \in Int /\ t.matches \in BOOLEAN /\ t.id \in Int /\ t.id # None
  BY <1>1 DEF Copies!IsTransaction
<1>4. ASSUME NEW t \in copy_ledger
      PROVE  Copies!Distance(t) \in Nat /\ (Copies!Distance(t) = 0 <=> t.at = copy_event.at)
  <2>1. PICK a, b \in Int : a = copy_event.at /\ b = t.at
    BY <1>2, <1>3
  <2>2. Copies!Distance(t) = IF a - b < 0 THEN -(a - b) ELSE a - b
    BY <2>1 DEF Copies!Distance, Copies!Abs
  <2> QED BY <2>1, <2>2
<1>5. (\A t, u \in copy_ledger : t.id = u.id => t = u) /\ Window \in Nat \ {0}
        /\ MaxCandidates \in Nat \ {0}
  BY DEF Copies!ScoringAssumption, Searched
<1> QED BY <1>1, <1>3, <1>4, <1>5

-----------------------------------------------------------------------------
(* Scores *)

\* Similarities are percentages.
LEMMA Likenesses ==
  ASSUME Copies!ScoringAssumption, Searched, NEW t \in copy_ledger
  PROVE  /\ Copies!Similarity(copy_event.merchant, t.merchant) \in 0..100
         /\ Copies!Similarity(copy_event.description, t.description) \in 0..100
<1>1. Likeness(copy_event.merchant, t.merchant) \in 0..100
        /\ Likeness(copy_event.description, t.description) \in 0..100
  BY DEF Copies!ScoringAssumption, Searched
<1> QED BY <1>1 DEF Copies!Similarity

\* Rounding half up keeps within a bound that is a whole number, and reaches it.
LEMMA Rounded ==
  ASSUME NEW W \in Nat \ {0}, NEW s \in Nat, NEW k \in Nat
  PROVE  /\ s <= k * W => (2 * s + W) \div (2 * W) <= k
         /\ s = k * W => (2 * s + W) \div (2 * W) = k
         /\ (2 * s + W) \div (2 * W) \in Nat
<1>1. PICK d \in Nat \ {0} : d = 2 * W
  <2>1. 2 * W \in Nat \ {0}
    OBVIOUS
  <2> QED BY <2>1
<1>2. PICK n \in Nat : n = 2 * s + W
  OBVIOUS
<1>3. PICK q \in Int : q = n \div d
  OBVIOUS
<1>4. PICK r \in Int : r = n % d
  OBVIOUS
<1>5. 0 <= r /\ r < d
  BY <1>4
<1>6. n = d * q + r
  BY <1>3, <1>4
<1>7. ASSUME q < 0 PROVE FALSE
  <2>1. PICK m \in Nat : q = -1 - m
    <3>1. -1 - q \in Nat /\ q = -1 - (-1 - q)
      BY <1>7
    <3> QED BY <3>1
  <2>2. d * q = -d - d * m
    BY <2>1
  <2>3. d * m >= 0
    OBVIOUS
  <2> QED BY <1>5, <1>6, <2>2, <2>3
<1>8. ASSUME s <= k * W, q > k PROVE FALSE
  <2>1. PICK m \in Nat : q = k + 1 + m
    <3>1. q - k - 1 \in Nat /\ q = k + 1 + (q - k - 1)
      BY <1>8
    <3> QED BY <3>1
  <2>2. d * q = d * k + d + d * m
    BY <2>1
  <2>3. d * m >= 0
    OBVIOUS
  <2>4. d * k = 2 * (k * W)
    BY <1>1
  <2>5. PICK x, y \in Int : x = k * W /\ y = d * m
    OBVIOUS
  <2> QED BY <1>1, <1>2, <1>5, <1>6, <1>8, <2>2, <2>3, <2>4, <2>5
<1>9. ASSUME s = k * W, q < k PROVE FALSE
  <2>1. PICK m \in Nat : k = q + 1 + m
    <3>1. k - q - 1 \in Nat /\ k = q + 1 + (k - q - 1)
      BY <1>9
    <3> QED BY <3>1
  <2>2. d * k = d * q + d + d * m
    BY <2>1
  <2>3. d * m >= 0
    OBVIOUS
  <2>4. d * k = 2 * (k * W)
    BY <1>1
  <2>5. PICK x, y, z \in Int : x = k * W /\ y = d * m /\ z = d * q
    OBVIOUS
  <2> QED BY <1>1, <1>2, <1>5, <1>6, <1>9, <2>2, <2>3, <2>4, <2>5
<1>10. s = k * W => s <= k * W
  OBVIOUS
<1> QED BY <1>1, <1>2, <1>3, <1>7, <1>8, <1>9, <1>10

\* The sum of the signals before it is rounded.
Evidence(t) ==
  LET near == IF Copies!Distance(t) < Window THEN Window - Copies!Distance(t) ELSE 0
  IN  Window * (100 * copy_policy.amount
                + copy_policy.merchant * Copies!Similarity(copy_event.merchant, t.merchant)
                + copy_policy.description * Copies!Similarity(copy_event.description, t.description))
      + 100 * copy_policy.time * near

\* The signals weigh 100 percent together, and exact copies reach it.
LEMMA EvidenceBounds ==
  ASSUME Copies!ScoringAssumption, Searched, NEW t \in copy_ledger
  PROVE  /\ Evidence(t) \in Nat /\ Evidence(t) <= 10000 * Window
         /\ /\ t.at = copy_event.at
            /\ t.merchant = copy_event.merchant /\ t.merchant # None
            /\ t.description = copy_event.description /\ t.description # None
            => Evidence(t) = 10000 * Window
         /\ /\ copy_policy = DefaultPolicy
            /\ copy_event.merchant = None \/ t.merchant = None
            /\ copy_event.description = None \/ t.description = None
            => Evidence(t) <= 6000 * Window
<1>1. PICK a, b, c, d \in 0..100 : /\ a = copy_policy.amount /\ b = copy_policy.time
        /\ c = copy_policy.merchant
                                   /\ d = copy_policy.description
  <2>1. copy_policy.amount \in 0..100 /\ copy_policy.time \in 0..100
    BY DEF Searched, Copies!Valid
  <2>2. copy_policy.merchant \in 0..100 /\ copy_policy.description \in 0..100
    BY DEF Searched, Copies!Valid
  <2> QED BY <2>1, <2>2
<1>2. a + b + c + d = 100
  BY <1>1 DEF Searched, Copies!Valid
<1>3. PICK u, v \in 0..100 : /\ u = Copies!Similarity(copy_event.merchant, t.merchant)
                             /\ v = Copies!Similarity(copy_event.description, t.description)
  BY Likenesses
<1>4. PICK W \in Nat \ {0} : W = Window
  BY CopiesTyped
<1>5. PICK D \in Nat : D = Copies!Distance(t)
  BY CopiesTyped
<1>6. PICK n \in 0..W : n = IF D < W THEN W - D ELSE 0
  BY <1>4, <1>5
<1>7. Evidence(t) = W * (100 * a + c * u + d * v) + 100 * b * n
  BY <1>1, <1>3, <1>4, <1>5, <1>6 DEF Evidence
<1>8. PICK x, y \in Nat : x = c * u /\ y = d * v
  <2>1. c \in Nat /\ d \in Nat /\ u \in Nat /\ v \in Nat
    BY <1>1, <1>3
  <2>2. c * u \in Nat
    BY <2>1
  <2>3. d * v \in Nat
    BY <2>1
  <2> QED BY <2>2, <2>3
<1>9. x <= 100 * c /\ y <= 100 * d
  <2>1. c * u <= c * 100
    OBVIOUS
  <2>2. d * v <= d * 100
    OBVIOUS
  <2> QED BY <1>8, <2>1, <2>2
<1>10. PICK e \in Nat : e = 100 * a + x + y
  BY <1>8
<1>11. PICK f \in Nat : f = 100 * b
  BY <1>1
<1>12. e + f <= 10000
  BY <1>2, <1>9, <1>10, <1>11
<1>13. Evidence(t) = W * e + f * n
  BY <1>7, <1>8, <1>10, <1>11
<1>14. W * e \in Nat /\ f * n \in Nat
  OBVIOUS
<1>15. f * n <= f * W
  <2>1. PICK m \in Nat : W = n + m
    <3>1. W - n \in Nat /\ W = n + (W - n)
      OBVIOUS
    <3> QED BY <3>1
  <2>2. f * W = f * n + f * m /\ f * m >= 0
    BY <2>1
  <2> QED BY <1>14, <2>2
<1>16. W * e + f * W = (e + f) * W
  OBVIOUS
<1>17. ASSUME NEW k \in Nat, e + f <= k PROVE Evidence(t) <= k * W
  <2>1. PICK m \in Nat : k = e + f + m
    <3>1. k - (e + f) \in Nat /\ k = e + f + (k - (e + f))
      BY <1>17
    <3> QED BY <3>1
  <2>2. k * W = (e + f) * W + m * W /\ m * W >= 0
    BY <2>1
  <2>3. PICK p, q, r, s \in Int : p = W * e /\ q = f * n /\ r = f * W /\ s = m * W
    OBVIOUS
  <2> QED BY <1>13, <1>15, <1>16, <2>2, <2>3
<1>18. Evidence(t) \in Nat
  BY <1>13, <1>14
<1>19. Evidence(t) <= 10000 * W
  BY <1>12, <1>17
<1>20. ASSUME t.at = copy_event.at, t.merchant = copy_event.merchant, t.merchant # None,
              t.description = copy_event.description, t.description # None
       PROVE  Evidence(t) = 10000 * W
  <2>1. D = 0
    BY <1>5, <1>20, CopiesTyped
  <2>2. n = W
    BY <1>6, <2>1
  <2>3. u = 100 /\ v = 100
    BY <1>3, <1>20 DEF Copies!Similarity
  <2>4. x = 100 * c /\ y = 100 * d
    BY <1>8, <2>3
  <2>5. e + f = 10000
    BY <1>2, <1>10, <1>11, <2>4
  <2>6. Evidence(t) = (e + f) * W
    BY <1>13, <1>16, <2>2
  <2> QED BY <2>5, <2>6
<1>21. ASSUME copy_policy = DefaultPolicy, copy_event.merchant = None \/ t.merchant = None,
              copy_event.description = None \/ t.description = None
       PROVE  Evidence(t) <= 6000 * W
  <2>1. u = 0 /\ v = 0
    BY <1>3, <1>21 DEF Copies!Similarity
  <2>2. a = 35 /\ b = 25
    BY <1>1, <1>21 DEF DefaultPolicy, Policy
  <2>3. x = 0 /\ y = 0
    BY <1>8, <2>1
  <2>4. e + f <= 6000
    BY <1>10, <1>11, <2>2, <2>3
  <2> QED BY <1>17, <2>4
<1> QED BY <1>4, <1>18, <1>19, <1>20, <1>21

Full == 10000

\* A bound that is reached.
LEMMA FullScore ==
  /\ Full \in Nat
  /\ \A b \in 0..Full : b \in Int /\ b <= Full /\ (Full <= b => b = Full)
<1>1. Full \in Nat
  BY DEF Full
<1> QED BY <1>1

\* Scores are between 0 and the full score, which shared identifiers and exact copies have.
LEMMA Scores ==
  ASSUME Copies!ScoringAssumption, Searched, NEW t \in copy_ledger
  PROVE  /\ Copies!Score(t) \in 0..Full
         /\ t.matches /\ Copies!SharesId(t) => Copies!Score(t) = Full
         /\ /\ t.matches /\ t.at = copy_event.at
            /\ t.merchant = copy_event.merchant /\ t.merchant # None
            /\ t.description = copy_event.description /\ t.description # None
            => Copies!Score(t) = Full
         /\ /\ copy_policy = DefaultPolicy /\ ~Copies!SharesId(t)
            /\ copy_event.merchant = None \/ t.merchant = None
            /\ copy_event.description = None \/ t.description = None
            => Copies!Score(t) <= 6000
<1>1. PICK W \in Nat \ {0} : W = Window
  BY CopiesTyped
<1>2. PICK s \in Nat : s = Evidence(t)
  BY EvidenceBounds
<1>3. PICK w : w = (2 * s + W) \div (2 * W)
  OBVIOUS
<1>4. Copies!Weighed(t) = w
  BY <1>1, <1>2, <1>3 DEF Copies!Weighed, Evidence
<1>5. w \in Nat /\ (s <= Full * W => w <= Full) /\ (s = Full * W => w = Full)
        /\ (s <= 6000 * W => w <= 6000)
  <2>1. Full \in Nat /\ 6000 \in Nat
    BY FullScore
  <2> QED BY <1>3, <2>1, Rounded
<1>6. s <= Full * W
  BY <1>1, <1>2, EvidenceBounds DEF Full
<1>7. w \in 0..Full
  BY <1>5, <1>6, FullScore
<1>8. t.matches \in BOOLEAN
  BY CopiesTyped
<1>9. Copies!Score(t) = IF ~t.matches THEN 0 ELSE IF Copies!SharesId(t) THEN Full ELSE w
  BY <1>4 DEF Copies!Score, Full
<1>10. Copies!Score(t) \in 0..Full /\ (t.matches /\ Copies!SharesId(t) => Copies!Score(t) = Full)
  <2>1. 0 \in 0..Full /\ Full \in 0..Full
    BY FullScore
  <2> QED BY <1>7, <1>8, <1>9, <2>1
<1>11. ASSUME t.matches, t.at = copy_event.at, t.merchant = copy_event.merchant, t.merchant # None,
              t.description = copy_event.description, t.description # None
       PROVE  Copies!Score(t) = Full
  <2>1. s = Full * W
    BY <1>1, <1>2, <1>11, EvidenceBounds DEF Full
  <2> QED BY <1>5, <1>9, <1>11, <2>1
<1>12. ASSUME copy_policy = DefaultPolicy, ~Copies!SharesId(t),
              copy_event.merchant = None \/ t.merchant = None,
              copy_event.description = None \/ t.description = None
       PROVE  Copies!Score(t) <= 6000
  <2>1. s <= 6000 * W
    BY <1>1, <1>2, <1>12, EvidenceBounds
  <2> QED BY <1>5, <1>9, <1>12, <2>1
<1> QED BY <1>10, <1>11, <1>12
-----------------------------------------------------------------------------
(* The lookup *)

CopiesOrder(Q) == Copies!InOrder(Q, Copies!Nearer)

NearerOn(Q) == {e \in Q \X Q : Copies!Nearer(e[1], e[2])}

\* The order of some rows by nearness holds each of them at one place.
LEMMA CopiesInOrder ==
  ASSUME Copies!ScoringAssumption, Searched, NEW Q \in SUBSET copy_ledger, NEW o, o = CopiesOrder(Q)
  PROVE  /\ IsFiniteSet(Q) /\ Cardinality(Q) \in Nat
         /\ o \in [1..Cardinality(Q) -> Q]
         /\ \A j, k \in 1..Cardinality(Q) : j < k => Copies!Nearer(o[j], o[k]) /\ o[j] # o[k]
         /\ \A r \in Q : \E k \in 1..Cardinality(Q) : o[k] = r
<1> DEFINE n == Cardinality(Q)
           rank(x) == Cardinality({y \in Q : <<y, x>> \in NearerOn(Q)})
<1>0. IsFiniteSet(Q) /\ n \in Nat
  BY CopiesTyped, FS_Subset, FS_CardinalityType
<1>1. TotalOrder(NearerOn(Q), Q)
  <2>1. \A r, s \in Q : <<r, s>> \in NearerOn(Q) <=> Copies!Nearer(r, s)
    BY DEF NearerOn
  <2>2. \A r \in Q : Copies!Distance(r) \in Nat /\ r.id \in Int
    BY CopiesTyped
  <2>3. \A r, s \in Q : r.id = s.id => r = s
    BY CopiesTyped
  <2>4. \A r \in Q : ~Copies!Nearer(r, r)
    BY <2>2 DEF Copies!Nearer
  <2>5. \A r, s, t \in Q : Copies!Nearer(r, s) /\ Copies!Nearer(s, t) => Copies!Nearer(r, t)
    BY <2>2 DEF Copies!Nearer
  <2>6. \A r, s \in Q : r = s \/ Copies!Nearer(r, s) \/ Copies!Nearer(s, r)
    BY <2>2, <2>3 DEF Copies!Nearer
  <2> HIDE DEF NearerOn
  <2> QED BY <2>1, <2>4, <2>5, <2>6 DEF TotalOrder
<1>2. /\ \A k \in 1..n : \E x \in Q : rank(x) = k - 1
      /\ \A x \in Q : rank(x) + 1 \in 1..n
      /\ \A x, y \in Q : <<x, y>> \in NearerOn(Q) <=> rank(x) < rank(y)
  BY <1>0, <1>1, Ranks
<1>3. \A x \in Q : {y \in Q : <<y, x>> \in NearerOn(Q)} = {y \in Q : Copies!Nearer(y, x)}
  BY DEF NearerOn
<1>4. o = [k \in 1..n |-> CHOOSE x \in Q : rank(x) = k - 1]
  <2>1. o = [k \in 1..n |-> CHOOSE x \in Q : Cardinality({y \in Q : Copies!Nearer(y, x)}) = k - 1]
    BY DEF CopiesOrder, Copies!InOrder, Copies!Cardinality, Cardinality, Copies!IsFiniteSet, IsFiniteSet
  <2>2. \A k : (CHOOSE x \in Q : Cardinality({y \in Q : Copies!Nearer(y, x)}) = k - 1)
          = (CHOOSE x \in Q : rank(x) = k - 1)
    BY <1>3
  <2> QED BY <2>1, <2>2
<1>5. \A x \in Q : rank(x) \in Nat
  <2>1. \A x \in Q : IsFiniteSet({y \in Q : <<y, x>> \in NearerOn(Q)})
    BY <1>0, FS_Subset
  <2> QED BY <2>1, FS_CardinalityType
<1> HIDE DEF n, rank
<1>6. \A k \in 1..n : o[k] \in Q /\ rank(o[k]) = k - 1
  BY <1>2, <1>4
<1>7. o \in [1..n -> Q]
  BY <1>4, <1>6
<1>8. ASSUME NEW j \in 1..n, NEW k \in 1..n, j < k PROVE Copies!Nearer(o[j], o[k]) /\ o[j] # o[k]
  <2>1. rank(o[j]) < rank(o[k]) /\ o[j] # o[k]
    BY <1>0, <1>6, <1>8
  <2>2. <<o[j], o[k]>> \in NearerOn(Q)
    BY <1>2, <1>6, <2>1
  <2> QED BY <2>1, <2>2 DEF NearerOn
<1>9. ASSUME NEW r \in Q PROVE \E k \in 1..n : o[k] = r
  <2>1. PICK k \in 1..n : k = rank(r) + 1
    BY <1>2
  <2>2. rank(o[k]) = rank(r) /\ o[k] \in Q
    BY <1>5, <1>6, <2>1
  <2>3. ~(<<o[k], r>> \in NearerOn(Q)) /\ ~(<<r, o[k]>> \in NearerOn(Q))
    BY <1>2, <1>5, <2>2
  <2>4. o[k] = r
    BY <1>1, <2>2, <2>3 DEF TotalOrder
  <2> QED BY <2>4
<1> QED BY <1>0, <1>7, <1>8, <1>9 DEF n

\* The shortened sequence.
LEMMA CopiesCut ==
  ASSUME Copies!ScoringAssumption, NEW n \in Nat, NEW o, o = [i \in 1..n |-> o[i]]
  PROVE  /\ MaxCandidates \in Nat
         /\ Copies!CutTo(o) = [i \in 1..(IF n < MaxCandidates THEN n ELSE MaxCandidates) |-> o[i]]
<1>1. o \in Seq({o[i] : i \in 1..n}) /\ Len(o) = n
  <2>1. o \in [1..n -> {o[i] : i \in 1..n}]
    OBVIOUS
  <2> QED BY <2>1
<1>2. PICK M \in Nat : M = MaxCandidates
  BY DEF Copies!ScoringAssumption
<1>3. PICK m \in Nat : m = IF n < M THEN n ELSE M
  OBVIOUS
<1>4. SubSeq(o, 1, m) = [i \in 1..m |-> o[i]]
  BY <1>1, <1>3
<1> QED BY <1>1, <1>2, <1>3, <1>4 DEF Copies!CutTo

\* The values of a sequence without repetition are as many as its places.
LEMMA DistinctCount ==
  ASSUME NEW n \in Nat, NEW f, \A i, j \in 1..n : i # j => f[i] # f[j]
  PROVE  /\ IsFiniteSet({f[i] : i \in 1..n})
         /\ Cardinality({f[i] : i \in 1..n}) = n
<1>1. PICK g : g = [i \in 1..n |-> f[i]]
  OBVIOUS
<1>2. PICK T : T = {f[i] : i \in 1..n}
  OBVIOUS
<1>3. g \in Bijection(1..n, T)
  BY <1>1, <1>2 DEF Bijection, Injection, Surjection, IsInjective
<1>4. IsFiniteSet(1..n) /\ Cardinality(1..n) = n
  <2>1. n \in Int /\ 1 \in Int
    OBVIOUS
  <2>2. IsFiniteSet(1..n) /\ Cardinality(1..n) = IF 1 > n THEN 0 ELSE n - 1 + 1
    BY <2>1, FS_Interval
  <2> QED BY <2>2
<1>5. ExistsBijection(1..n, T)
  BY <1>3 DEF ExistsBijection
<1> QED BY <1>2, <1>4, <1>5, FS_Bijection

Within == {t \in copy_ledger : t.matches /\ Copies!Distance(t) <= Window}

Found(s) == Copies!ToSet(s)

\* The temporal part of a search is closed under Nearer and within the limit.
LEMMA TemporalIs ==
  ASSUME Copies!ScoringAssumption, Searched
  PROVE  /\ Found(Copies!Temporal) \in SUBSET Within
         /\ Cardinality(Found(Copies!Temporal)) \in Nat
         /\ Cardinality(Found(Copies!Temporal)) <= MaxCandidates
         /\ \A t \in Within : \A u \in Found(Copies!Temporal) :
              Copies!Nearer(t, u) => t \in Found(Copies!Temporal)
         /\ \A t \in Within : t \notin Found(Copies!Temporal) =>
              /\ Cardinality(Found(Copies!Temporal)) = MaxCandidates
              /\ \A u \in Found(Copies!Temporal) : Copies!Nearer(u, t)
<1>1. PICK o : o = CopiesOrder(Within)
  OBVIOUS
<1>2. Within \in SUBSET copy_ledger
  BY DEF Within
<1>3. PICK n \in Nat : n = Cardinality(Within)
  BY <1>1, <1>2, CopiesInOrder
<1>4. /\ o \in [1..n -> Within]
      /\ \A j, k \in 1..n : j < k => Copies!Nearer(o[j], o[k]) /\ o[j] # o[k]
      /\ \A r \in Within : \E k \in 1..n : o[k] = r
  BY <1>1, <1>2, <1>3, CopiesInOrder
<1>5. o = [i \in 1..n |-> o[i]]
  BY <1>4
<1>6. PICK M \in Nat \ {0} : M = MaxCandidates
  BY DEF Copies!ScoringAssumption
<1>7. PICK m \in Nat : m = IF n < M THEN n ELSE M
  BY <1>6
<1>8. Copies!Temporal = Copies!CutTo(o)
  BY <1>1 DEF Copies!Temporal, CopiesOrder, Within
<1>9. Copies!Temporal = [i \in 1..m |-> o[i]]
  BY <1>5, <1>6, <1>7, <1>8, CopiesCut
<1>10. PICK T : T = {o[i] : i \in 1..m}
  OBVIOUS
<1>11. Found(Copies!Temporal) = T
  BY <1>9, <1>10 DEF Found, Copies!ToSet
<1>12. m <= n /\ m <= M /\ (m < n => m = M)
  BY <1>6, <1>7
<1>13. \A i, j \in 1..m : i # j => o[i] # o[j]
  BY <1>4, <1>12
<1>14. Cardinality(T) = m
  BY <1>10, <1>13, DistinctCount
<1>15. T \in SUBSET Within
  BY <1>4, <1>10, <1>12
<1>16. \A r, s \in Within : Copies!Nearer(r, s) => ~Copies!Nearer(s, r)
  <2>1. \A r \in Within : Copies!Distance(r) \in Nat /\ r.id \in Int
    BY <1>2, CopiesTyped
  <2> QED BY <2>1 DEF Copies!Nearer
<1>17. ASSUME NEW t \in Within, NEW u \in T, Copies!Nearer(t, u) PROVE t \in T
  <2>1. PICK k \in 1..n : o[k] = t
    BY <1>4
  <2>2. PICK i \in 1..m : o[i] = u
    BY <1>10
  <2>3. i \in 1..n
    BY <1>12, <2>2
  <2>4. ~(i < k)
    BY <1>4, <1>15, <1>16, <1>17, <2>1, <2>2, <2>3
  <2>5. k \in 1..m
    BY <2>1, <2>2, <2>4
  <2> QED BY <1>10, <2>1, <2>5
<1>18. ASSUME NEW t \in Within, t \notin T
       PROVE  Cardinality(T) = M /\ \A u \in T : Copies!Nearer(u, t)
  <2>1. PICK k \in 1..n : o[k] = t
    BY <1>4
  <2>2. k > m
    <3>1. ~(k \in 1..m)
      BY <1>10, <1>18, <2>1
    <3> QED BY <2>1, <3>1
  <2>3. m = M
    BY <1>12, <2>1, <2>2
  <2>4. ASSUME NEW u \in T PROVE Copies!Nearer(u, t)
    <3>1. PICK i \in 1..m : o[i] = u
      BY <1>10
    <3>2. i \in 1..n /\ i < k
      BY <1>12, <2>2, <3>1
    <3> QED BY <1>4, <2>1, <3>1, <3>2
  <2> QED BY <1>14, <2>3, <2>4
<1> QED BY <1>6, <1>11, <1>12, <1>14, <1>15, <1>17, <1>18
\* The rows with a shared identifier, in any order, as many as the limit lets through.
LEMMA ExactIs ==
  ASSUME Copies!ScoringAssumption, Searched, NEW e \in Copies!Exact
  PROVE  \E k \in Nat :
           /\ k = Len(e) /\ k <= MaxCandidates /\ DOMAIN e = 1..k
           /\ e \in Seq(Shared)
           /\ e \in [1..k -> Shared]
           /\ Shared # {} => k > 0
           /\ Shared = {} => k = 0
           /\ Cardinality(Shared) <= MaxCandidates => Found(e) = Shared /\ k = Cardinality(Shared)
<1>1. PICK n \in Nat : n = Cardinality(Shared)
  <2>1. Shared \in SUBSET copy_ledger
    BY DEF Shared
  <2> QED BY <2>1, CopiesTyped, FS_Subset, FS_CardinalityType
<1>2. IsFiniteSet(Shared)
  <2>1. Shared \in SUBSET copy_ledger
    BY DEF Shared
  <2> QED BY <2>1, CopiesTyped, FS_Subset
<1>3. PICK M \in Nat \ {0} : M = MaxCandidates
  BY DEF Copies!ScoringAssumption
<1>4. PICK k \in Nat : k = IF n < M THEN n ELSE M
  BY <1>3
<1>5. PICK S \in SUBSET Shared : Cardinality(S) = k /\ e \in Copies!SetToSeqs(S)
  BY <1>1, <1>3, <1>4, CopiesCount DEF Copies!Exact, Shared
<1>6. e \in [1..k -> S] /\ \A i, j \in 1..k : i # j => e[i] # e[j]
  BY <1>5, CopiesCount DEF Copies!SetToSeqs
<1>7. DOMAIN e = 1..k /\ e = [i \in 1..k |-> e[i]] /\ e \in [1..k -> Shared]
  BY <1>5, <1>6
<1>8. Len(e) = k /\ e \in Seq(Shared)
  BY <1>4, <1>7
<1>9. k <= M /\ k <= n /\ (n > 0 => k > 0)
  BY <1>3, <1>4
<1>10. n = 0 <=> Shared = {}
  BY <1>1, <1>2, FS_EmptySet
<1>11. ASSUME n <= M PROVE Found(e) = Shared /\ k = n
  <2>1. k = n
    BY <1>4, <1>11
  <2>2. PICK T : T = {e[i] : i \in 1..k}
    OBVIOUS
  <2>3. Found(e) = T
    BY <1>7, <2>2 DEF Found, Copies!ToSet
  <2>4. T \in SUBSET Shared
    BY <1>7, <2>2
  <2>5. Cardinality(T) = n
    BY <1>4, <1>6, <2>1, <2>2, DistinctCount
  <2>6. T = Shared
    BY <1>1, <1>2, <2>4, <2>5, FS_Subset
  <2> QED BY <2>1, <2>3, <2>6
<1>12. Shared # {} => k > 0
  BY <1>1, <1>9, <1>10
<1>13. Shared = {} => k = 0
  BY <1>9, <1>10
<1> QED BY <1>1, <1>3, <1>4, <1>7, <1>8, <1>9, <1>11, <1>12, <1>13

\* A function on the first n numbers is a sequence of length n.
LEMMA FunctionsAreSequences ==
  ASSUME NEW n \in Nat, NEW S, NEW f \in [1..n -> S]
  PROVE  f \in Seq(S) /\ Len(f) = n
OBVIOUS

\* What the search returns, by the rows it is made of.
Kept(e) == Found(Copies!Temporal) \ Found(e)
KeptOrder(e) == CopiesOrder(Kept(e))
Took(e) ==
  IF Len(e) + Cardinality(Kept(e)) < MaxCandidates THEN Len(e) + Cardinality(Kept(e)) ELSE MaxCandidates
Firsts(o, n) == {o[i] : i \in 1..n}

\* What the search returns, as rows with a shared identifier and the nearest of the others.
LEMMA JoinedIs ==
  ASSUME Copies!ScoringAssumption, Searched, NEW e \in Copies!Exact
  PROVE  /\ Copies!Joined(e) \in Seq(copy_ledger)
         /\ Len(Copies!Joined(e)) = Took(e)
         /\ Found(Copies!Joined(e)) = Found(e) \cup Firsts(KeptOrder(e), Took(e) - Len(e))
         /\ Len(e) \in Nat /\ Took(e) \in Nat /\ Cardinality(Kept(e)) \in Nat
         /\ Took(e) - Len(e) \in 0..Cardinality(Kept(e))
         /\ Found(e) \in SUBSET Shared
         /\ Kept(e) \in SUBSET copy_ledger
         /\ Firsts(KeptOrder(e), Cardinality(Kept(e))) = Kept(e)
         /\ Firsts(KeptOrder(e), Took(e) - Len(e)) \in SUBSET Kept(e)
<1>1. PICK k \in Nat : k = Len(e) /\ k <= MaxCandidates /\ DOMAIN e = 1..k /\ e \in [1..k -> Shared]
  BY ExactIs
<1>1a. PICK d \in Nat : d = Cardinality(Kept(e))
  <2>1. Kept(e) \in SUBSET copy_ledger
    BY TemporalIs DEF Kept, Within
  <2> QED BY <2>1, CopiesTyped, FS_Subset, FS_CardinalityType
<1>1b. PICK o : o = CopiesOrder(Kept(e))
  OBVIOUS
<1>1c. PICK m \in Nat : m = Took(e)
  BY <1>1, <1>1a DEF Took, Copies!ScoringAssumption
<1>2. PICK M \in Nat \ {0} : M = MaxCandidates
  BY DEF Copies!ScoringAssumption
<1>3. PICK D : D = Kept(e)
  OBVIOUS
<1>4. D \in SUBSET copy_ledger
  BY <1>3, TemporalIs DEF Kept, Within
<1>5. o \in [1..d -> D] /\ \A r \in D : \E i \in 1..d : o[i] = r
  BY <1>1a, <1>1b, <1>3, <1>4, CopiesInOrder
<1>6. e = [i \in 1..k |-> e[i]] /\ o = [i \in 1..d |-> o[i]]
  BY <1>1, <1>5
<1>7. PICK s : s = e \o o
  OBVIOUS
<1>8. /\ s = [i \in 1..(k + d) |-> s[i]]
      /\ \A i \in 1..k : s[i] = e[i]
      /\ \A i \in 1..d : s[k + i] = o[i]
  <2>1. /\ e \o o = [i \in 1..(k + d) |-> (e \o o)[i]]
        /\ \A i \in 1..k : (e \o o)[i] = e[i]
        /\ \A i \in 1..d : (e \o o)[k + i] = o[i]
    <3>1. PICK S : S = Shared \cup D
      OBVIOUS
    <3>2. e \in [1..k -> S] /\ o \in [1..d -> S]
      BY <1>1, <1>5, <3>1
    <3>3. e \in Seq(S) /\ o \in Seq(S) /\ Len(e) = k /\ Len(o) = d
      BY <1>1, <1>1a, <3>2, FunctionsAreSequences
    <3>4. /\ e \o o \in Seq(S) /\ DOMAIN (e \o o) = 1..(Len(e) + Len(o))
          /\ \A i \in 1..Len(e) : (e \o o)[i] = e[i]
          /\ \A i \in 1..Len(o) : (e \o o)[Len(e) + i] = o[i]
      <4>1. e \in Seq(S) /\ o \in Seq(S)
        BY <3>3
      <4> QED BY <4>1, Concatenated
    <3>5. \A x : x \in Seq(S) => x = [i \in DOMAIN x |-> x[i]]
      OBVIOUS
    <3>6. e \o o = [i \in DOMAIN (e \o o) |-> (e \o o)[i]]
      BY <3>4, <3>5
    <3> QED BY <3>3, <3>4, <3>6
  <2> QED BY <1>7, <2>1
<1>9. Copies!Joined(e) = Copies!CutTo(s)
  BY <1>1b, <1>7 DEF Copies!Joined, Copies!Others, CopiesOrder, Kept, Found
<1>10. k + d \in Nat
  BY <1>1, <1>1a
<1>11. Copies!Joined(e) = [i \in 1..m |-> s[i]]
  <2>1. PICK n \in Nat : n = k + d
    BY <1>10
  <2>2. s = [i \in 1..n |-> s[i]]
    BY <1>8, <2>1
  <2>3. Copies!CutTo(s) = [i \in 1..(IF n < MaxCandidates THEN n ELSE MaxCandidates) |-> s[i]]
    BY <2>1, <2>2, CopiesCut
  <2>4. m = IF n < MaxCandidates THEN n ELSE MaxCandidates
    BY <1>1, <1>1a, <1>1c, <2>1 DEF Took
  <2> QED BY <1>9, <2>3, <2>4
<1>12. k <= m /\ m - k \in 0..d
  BY <1>1, <1>1a, <1>1c, <1>2 DEF Took
<1>13. Shared \subseteq copy_ledger
  BY DEF Shared
<1>14. ASSUME NEW i \in 1..m PROVE s[i] \in copy_ledger
  <2>1. CASE i <= k
    <3>1. i \in 1..k
      BY <2>1
    <3> QED BY <1>1, <1>8, <1>13, <3>1
  <2>2. CASE i > k
    <3>1. PICK j \in 1..d : i = k + j
      <4>1. i - k \in 1..d /\ i = k + (i - k)
        BY <1>12, <2>2
      <4> QED BY <4>1
    <3> QED BY <1>4, <1>5, <1>8, <3>1
  <2> QED BY <2>1, <2>2
<1>15. Copies!Joined(e) \in Seq(copy_ledger) /\ Len(Copies!Joined(e)) = m
  <2>1. PICK x : x = Copies!Joined(e)
    OBVIOUS
  <2>2. x \in [1..m -> copy_ledger]
    BY <1>11, <1>14, <2>1
  <2>3. x \in Seq(copy_ledger) /\ Len(x) = m
    BY <1>1c, <2>2, FunctionsAreSequences
  <2> QED BY <2>1, <2>3
<1>16. Found(e) = {e[i] : i \in 1..k}
  BY <1>1 DEF Found, Copies!ToSet
<1>17. Found(Copies!Joined(e)) = {s[i] : i \in 1..m}
  BY <1>11 DEF Found, Copies!ToSet
<1>18. {s[i] : i \in 1..m} = {e[i] : i \in 1..k} \cup {o[i] : i \in 1..(m - k)}
  <2> DEFINE A == {e[i] : i \in 1..k}
             B == {o[i] : i \in 1..(m - k)}
             C == {s[i] : i \in 1..m}
  <2>a. (\A i \in 1..k : e[i] \in A) /\ (\A i \in 1..(m - k) : o[i] \in B)
          /\ (\A i \in 1..m : s[i] \in C)
    OBVIOUS
  <2>b. /\ \A x \in A : \E i \in 1..k : x = e[i]
        /\ \A x \in B : \E i \in 1..(m - k) : x = o[i]
        /\ \A x \in C : \E i \in 1..m : x = s[i]
    OBVIOUS
  <2> HIDE DEF A, B, C
  <2>1. ASSUME NEW i \in 1..m PROVE s[i] \in A \cup B
    <3>1. CASE i <= k
      <4>1. i \in 1..k
        BY <3>1
      <4> QED BY <1>8, <2>a, <4>1
    <3>2. CASE i > k
      <4>1. PICK j \in 1..(m - k) : i = k + j
        <5>1. i - k \in 1..(m - k) /\ i = k + (i - k)
          BY <1>12, <3>2
        <5> QED BY <5>1
      <4>2. j \in 1..d
        BY <1>12, <4>1
      <4> QED BY <1>8, <2>a, <4>1, <4>2
    <3>3. i <= k \/ i > k
      OBVIOUS
    <3> QED BY <3>1, <3>2, <3>3
  <2>2. ASSUME NEW i \in 1..k PROVE e[i] \in C
    <3>1. i \in 1..m
      BY <1>12
    <3> QED BY <1>8, <2>a, <3>1
  <2>3. ASSUME NEW i \in 1..(m - k) PROVE o[i] \in C
    <3>1. k + i \in 1..m /\ i \in 1..d
      BY <1>12
    <3> QED BY <1>8, <2>a, <3>1
  <2>4. C \subseteq A \cup B /\ A \subseteq C /\ B \subseteq C
    BY <2>b, <2>1, <2>2, <2>3
  <2>5. C = A \cup B
    BY <2>4
  <2> QED BY <2>5 DEF A, B, C
<1>19. Found(e) \in SUBSET Shared
  BY <1>1, <1>16
<1>20. Firsts(o, d) = D
  BY <1>5 DEF Firsts
<1>21. Firsts(o, m - k) \in SUBSET D
  <2>1. \A i \in 1..(m - k) : i \in 1..d
    BY <1>12, <1>1a
  <2> QED BY <1>5, <2>1 DEF Firsts
<1>22. Found(Copies!Joined(e)) = Found(e) \cup Firsts(o, m - k)
  BY <1>16, <1>17, <1>18 DEF Firsts
<1>23. o = KeptOrder(e)
  BY <1>1b DEF KeptOrder
<1> QED BY <1>1, <1>1a, <1>1c, <1>3, <1>4, <1>12, <1>15, <1>19, <1>20, <1>21, <1>22, <1>23

\* The rows found: those with a shared identifier come first, then the nearest.
LEMMA JoinedSays ==
  ASSUME Copies!ScoringAssumption, Searched, NEW e \in Copies!Exact
  PROVE  /\ Copies!Joined(e) \in Seq(copy_ledger)
         /\ Len(Copies!Joined(e)) <= MaxCandidates
         /\ Found(Copies!Joined(e)) \in SUBSET {t \in copy_ledger : t.matches}
         /\ Copies!Joined(e) = <<>> <=> Found(Copies!Joined(e)) = {}
         /\ Shared # {} => \E t \in Shared : t \in Found(Copies!Joined(e))
         /\ Shared = {} => Found(Copies!Joined(e)) = Found(Copies!Temporal)
<1>1. PICK k \in Nat :
           /\ k = Len(e) /\ k <= MaxCandidates /\ DOMAIN e = 1..k
           /\ e \in [1..k -> Shared]
           /\ Shared # {} => k > 0
           /\ Shared = {} => k = 0
  BY ExactIs
<1>2. PICK D : D = Kept(e)
  OBVIOUS
<1>3. PICK d \in Nat : d = Cardinality(D)
  BY <1>2, JoinedIs
<1>4. PICK o : o = KeptOrder(e)
  OBVIOUS
<1>5. PICK M \in Nat \ {0} : M = MaxCandidates
  BY DEF Copies!ScoringAssumption
<1>6. PICK m \in Nat : m = Took(e) /\ m = IF k + d < M THEN k + d ELSE M
  BY <1>1, <1>2, <1>3, <1>5, JoinedIs DEF Took
<1>7. PICK s : s = Copies!Joined(e)
  OBVIOUS
<1>8. /\ s \in Seq(copy_ledger) /\ Len(s) = m
      /\ Found(s) = Found(e) \cup Firsts(o, m - k)
      /\ m - k \in 0..d
      /\ Firsts(o, d) = D
      /\ Firsts(o, m - k) \in SUBSET D
  BY <1>1, <1>2, <1>3, <1>4, <1>6, <1>7, JoinedIs
<1>9. Found(e) = {e[i] : i \in 1..k}
  BY <1>1 DEF Found, Copies!ToSet
<1>10. Found(e) \subseteq Shared
  BY <1>1, <1>9
<1>11. Shared \subseteq {t \in copy_ledger : t.matches} /\ D \subseteq {t \in copy_ledger : t.matches}
  BY <1>2, TemporalIs DEF Kept, Shared, Within
<1>13. Found(s) \subseteq {t \in copy_ledger : t.matches}
  BY <1>8, <1>10, <1>11
<1>14. s = <<>> <=> Found(s) = {}
  <2>1. DOMAIN s = 1..m
    BY <1>8
  <2>2. s = <<>> <=> m = 0
    BY <1>8
  <2>3. Found(s) = {s[i] : i \in 1..m}
    BY <2>1 DEF Found, Copies!ToSet
  <2>4. m # 0 => 1 \in 1..m
    OBVIOUS
  <2>5. m = 0 => 1..m = {}
    OBVIOUS
  <2> QED BY <2>2, <2>3, <2>4, <2>5
<1>15. ASSUME Shared # {} PROVE \E t \in Shared : t \in Found(s)
  <2>1. 1 \in 1..k
    BY <1>1, <1>15
  <2> QED BY <1>1, <1>8, <1>9, <2>1
<1>16. ASSUME Shared = {} PROVE Found(s) = Found(Copies!Temporal)
  <2>1. k = 0 /\ Found(e) = {}
    BY <1>1, <1>9, <1>10, <1>16
  <2>2. D = Found(Copies!Temporal)
    BY <1>2, <2>1 DEF Kept
  <2>3. d <= M
    BY <1>3, <1>5, <2>2, TemporalIs
  <2>4. m - k = d
    BY <1>1, <1>3, <1>5, <1>6, <2>1, <2>3
  <2> QED BY <1>8, <2>1, <2>2, <2>4
<1>17. Len(s) <= MaxCandidates
  BY <1>5, <1>6, <1>8
<1> QED BY <1>7, <1>8, <1>13, <1>14, <1>15, <1>16, <1>17

\* As long as all of them fit, the rows found do not depend on their order.
LEMMA JoinedAlike ==
  ASSUME Copies!ScoringAssumption, Searched, NEW e \in Copies!Exact, NEW f \in Copies!Exact,
         Cardinality(Shared) <= MaxCandidates
  PROVE  Found(Copies!Joined(e)) = Found(Copies!Joined(f))
<1>1. PICK k \in Nat : k = Cardinality(Shared) /\ k = Len(e) /\ Found(e) = Shared
  BY ExactIs
<1>2. k = Len(f) /\ Found(f) = Shared
  BY <1>1, ExactIs
<1>3. Kept(e) = Kept(f)
  BY <1>1, <1>2 DEF Kept
<1>4. KeptOrder(e) = KeptOrder(f) /\ Took(e) = Took(f) /\ Len(e) = Len(f)
  BY <1>1, <1>2, <1>3 DEF KeptOrder, Took
<1> QED BY <1>1, <1>2, <1>4, JoinedIs
-----------------------------------------------------------------------------
(* The choice *)

Better(t, u) == Copies!Score(u) < Copies!Score(t) \/ (Copies!Score(u) = Copies!Score(t) /\ t.id < u.id)
BetterOn(Q) == {e \in Q \X Q : Better(e[1], e[2])}

\* Among the rows found one is best: the order by score and id is total.
LEMMA BestIs ==
  ASSUME Copies!ScoringAssumption, Searched, NEW s, Found(s) \in SUBSET copy_ledger, Found(s) # {}
  PROVE  /\ Copies!Best(s) \in Found(s)
         /\ \A u \in Found(s) : Copies!Score(u) <= Copies!Score(Copies!Best(s))
<1>1. PICK Q : Q = Found(s)
  OBVIOUS
<1>2. IsFiniteSet(Q) /\ Cardinality(Q) \in Nat
  BY <1>1, CopiesTyped, FS_Subset, FS_CardinalityType
<1>3. \A r \in Q : Copies!Score(r) \in Int
  <2>1. \A r \in Q : Copies!Score(r) \in 0..Full
    BY <1>1, Scores
  <2> QED BY <2>1, FullScore
<1>3a. PICK sc : sc = [r \in Q |-> Copies!Score(r)]
  OBVIOUS
<1>3b. (\A r \in Q : sc[r] \in Int) /\ \A r \in Q : sc[r] = Copies!Score(r)
  BY <1>3, <1>3a
<1>4. (\A r \in Q : r.id \in Int) /\ \A r, t \in Q : r.id = t.id => r = t
  BY <1>1, CopiesTyped
<1>4a. \A r, t \in Q : Better(r, t) <=> sc[t] < sc[r] \/ (sc[t] = sc[r] /\ r.id < t.id)
  BY <1>3b DEF Better
<1>5. TotalOrder(BetterOn(Q), Q)
  <2>1. \A r, t \in Q : <<r, t>> \in BetterOn(Q) <=> Better(r, t)
    BY DEF BetterOn
  <2>2. \A r \in Q : ~Better(r, r)
    BY <1>3b, <1>4, <1>4a
  <2>3. \A r, t, u \in Q : Better(r, t) /\ Better(t, u) => Better(r, u)
    BY <1>3b, <1>4, <1>4a
  <2>4. \A r, t \in Q : r = t \/ Better(r, t) \/ Better(t, r)
    BY <1>3b, <1>4, <1>4a
  <2> HIDE DEF BetterOn
  <2> QED BY <2>1, <2>2, <2>3, <2>4 DEF TotalOrder
<1>6. 1 \in 1..Cardinality(Q)
  BY <1>1, <1>2, FS_EmptySet
<1>7. PICK t \in Q : Cardinality({y \in Q : <<y, t>> \in BetterOn(Q)}) = 0
  <2>1. \A k \in 1..Cardinality(Q) : \E t \in Q : Cardinality({y \in Q : <<y, t>> \in BetterOn(Q)})
          = k - 1
    BY <1>2, <1>5, Ranks
  <2>2. PICK k \in 1..Cardinality(Q) : k = 1
    BY <1>6
  <2>3. k - 1 = 0
    BY <2>2
  <2> QED BY <2>1, <2>3, Zenon
<1>8. {y \in Q : <<y, t>> \in BetterOn(Q)} = {}
  <2>1. IsFiniteSet({y \in Q : <<y, t>> \in BetterOn(Q)})
    BY <1>2, FS_Subset
  <2> QED BY <1>7, <2>1, FS_EmptySet
<1>9. \A u \in Q : ~Better(u, t)
  BY <1>8 DEF BetterOn
<1>10. \A u \in Q : Copies!Score(u) < Copies!Score(t)
         \/ (Copies!Score(u) = Copies!Score(t) /\ t.id <= u.id)
  <2>1. \A u \in Q : sc[u] < sc[t] \/ (sc[u] = sc[t] /\ t.id <= u.id)
    BY <1>3b, <1>4, <1>4a, <1>9
  <2> QED BY <1>3b, <2>1
<1>11. PICK b : b = Copies!Best(s)
  OBVIOUS
<1>12. b \in Q /\ \A u \in Q : Copies!Score(u) < Copies!Score(b)
         \/ (Copies!Score(u) = Copies!Score(b) /\ b.id <= u.id)
  BY <1>1, <1>10, <1>11 DEF Copies!Best, Found
<1>13. \A u \in Q : Copies!Score(u) <= Copies!Score(b)
  <2>1. \A u \in Q : sc[u] < sc[b] \/ sc[u] = sc[b]
    BY <1>3b, <1>12
  <2>2. \A u \in Q : sc[u] <= sc[b]
    BY <1>3b, <1>12, <2>1
  <2> QED BY <1>3b, <1>12, <2>2
<1> QED BY <1>1, <1>11, <1>12, <1>13

CopiesInv ==
  /\ Searched
  /\ copy_candidates = None \/ \E e \in Copies!Exact : copy_candidates = Copies!Joined(e)
  /\ copy_result = None \/ \E e \in Copies!Exact : copy_result = Copies!Reconciled(Copies!Joined(e))

\* The invariant holds in every reachable state.
LEMMA CopiesInvariance ==
  ASSUME Copies!ScoringAssumption
  PROVE  Spec => []CopiesInv
<1>1. Init => CopiesInv
  <2> SUFFICES ASSUME Init PROVE CopiesInv
    OBVIOUS
  <2>1. Copies!Init
    BY DEF Init
  <2> QED BY <2>1 DEF Copies!Init, CopiesInv, Searched
<1>2. CopiesInv /\ [Next]_vars => CopiesInv'
  <2> SUFFICES ASSUME CopiesInv, [Next]_vars PROVE CopiesInv'
    OBVIOUS
  <2>1. ASSUME copy_policy' = copy_policy, copy_event' = copy_event, copy_ledger' = copy_ledger
        PROVE  /\ Searched' /\ Copies!Exact' = Copies!Exact
               /\ \A e : Copies!Joined(e)' = Copies!Joined(e)
               /\ \A s : Copies!Reconciled(s)' = Copies!Reconciled(s)
    <3>1. Searched'
      BY <2>1 DEF CopiesInv, Searched
    <3>2. Copies!Exact' = Copies!Exact
      BY <2>1 DEF Copies!Exact, Copies!SharesId
    <3>3. Copies!Temporal' = Copies!Temporal /\ \A e : Copies!Joined(e)' = Copies!Joined(e)
      BY <2>1 DEF Copies!Joined, Copies!Others, Copies!Temporal, Copies!InOrder, Copies!Nearer,
         Copies!Distance
    <3>4. \A t : Copies!Score(t)' = Copies!Score(t) /\ Copies!Decision(t)' = Copies!Decision(t)
      BY <2>1 DEF Copies!Score, Copies!Decision, Copies!Weighed, Copies!SharesId, Copies!Distance
    <3>5. \A s : Copies!Best(s)' = Copies!Best(s)
      BY <3>4 DEF Copies!Best
    <3>6. \A s : Copies!Reconciled(s)' = Copies!Reconciled(s)
      BY <3>4, <3>5 DEF Copies!Reconciled
    <3> QED BY <3>1, <3>2, <3>3, <3>6
  <2>2. CASE UNCHANGED copy_vars
    BY <2>1, <2>2 DEF copy_vars, CopiesInv
  <2>3. CASE Copies!Lookup
    BY <2>1, <2>3 DEF Copies!Lookup, CopiesInv
  <2>4. CASE Copies!Decide
    BY <2>1, <2>4 DEF Copies!Decide, CopiesInv
  <2> QED BY <2>2, <2>3, <2>4 DEF Next, vars, Rest, Copies!Next
<1> QED BY <1>1, <1>2, PTL DEF Spec

\* What a decision is made of.
LEMMA DecisionIs ==
  ASSUME Copies!ScoringAssumption, CopiesInv, copy_result # None
  PROVE  \E s :
           /\ Found(s) \in SUBSET {t \in copy_ledger : t.matches}
           /\ copy_result = Copies!Reconciled(s)
           /\ \E e \in Copies!Exact : s = Copies!Joined(e)
           /\ Found(s) = {} => copy_result = [id |-> None, decision |-> "new", score |-> 0]
           /\ Found(s) # {} =>
                \E t \in Found(s) :
                   /\ copy_result = [id |-> t.id, decision |-> Copies!Decision(t),
                        score |-> Copies!Score(t)]
                   /\ t \in copy_ledger /\ t.matches /\ t.id # None
                   /\ Copies!Chosen = t
                   /\ \A u \in Found(s) : Copies!Score(u) <= Copies!Score(t)
           /\ Shared # {} => \E t \in Shared : t \in Found(s)
           /\ Shared = {} => Found(s) = Found(Copies!Temporal)
<1>1. PICK e \in Copies!Exact : copy_result = Copies!Reconciled(Copies!Joined(e))
  BY DEF CopiesInv
<1>2. PICK s : s = Copies!Joined(e)
  OBVIOUS
<1>3. Searched
  BY DEF CopiesInv
<1>4. /\ Found(s) \in SUBSET {t \in copy_ledger : t.matches}
      /\ s = <<>> <=> Found(s) = {}
      /\ Shared # {} => \E t \in Shared : t \in Found(s)
      /\ Shared = {} => Found(s) = Found(Copies!Temporal)
  BY <1>2, <1>3, JoinedSays
<1>5. Found(s) = {} => copy_result = [id |-> None, decision |-> "new", score |-> 0]
  BY <1>1, <1>2, <1>4 DEF Copies!Reconciled
<1>6. ASSUME Found(s) # {}
      PROVE  \E t \in Found(s) :
               /\ copy_result = [id |-> t.id, decision |-> Copies!Decision(t),
                    score |-> Copies!Score(t)]
               /\ t \in copy_ledger /\ t.matches /\ t.id # None
               /\ Copies!Chosen = t
               /\ \A u \in Found(s) : Copies!Score(u) <= Copies!Score(t)
  <2>1. PICK t : t = Copies!Best(s)
    OBVIOUS
  <2>2. t \in Found(s) /\ \A u \in Found(s) : Copies!Score(u) <= Copies!Score(t)
    <3>1. Found(s) \in SUBSET copy_ledger
      BY <1>4
    <3> QED BY <1>3, <1>6, <2>1, <3>1, BestIs
  <2>3. copy_result = [id |-> t.id, decision |-> Copies!Decision(t), score |-> Copies!Score(t)]
    BY <1>1, <1>2, <1>4, <1>6, <2>1 DEF Copies!Reconciled
  <2>4. t \in copy_ledger /\ t.matches /\ t.id # None
    BY <1>3, <1>4, <2>2, CopiesTyped
  <2>5. Copies!Chosen = t
    <3>1. \A u \in copy_ledger : u.id = copy_result.id <=> u = t
      BY <1>3, <2>3, <2>4, CopiesTyped
    <3> QED BY <2>4, <3>1 DEF Copies!Chosen
  <2> QED BY <2>2, <2>3, <2>4, <2>5
<1> QED BY <1>1, <1>2, <1>4, <1>5, <1>6

\* A full score is a merge.
LEMMA FullScoreMerges ==
  ASSUME Searched, NEW t, t.matches, Copies!Score(t) = Full
  PROVE  Copies!Decision(t) = "merge"
<1>1. PICK m \in 0..100 : m = copy_policy.merge
  <2>1. copy_policy.merge \in 0..100
    BY DEF Searched, Copies!Valid
  <2> QED BY <2>1
<1>2. Full >= 100 * m
  BY DEF Full
<1> QED BY <1>1, <1>2 DEF Copies!Decision

\* OrderIsNoMatter: while all rows with a shared identifier fit, their order changes nothing.
LEMMA OrderDoesNotMatter ==
  ASSUME Copies!ScoringAssumption, CopiesInv
  PROVE  Copies!OrderIsNoMatter
<1> SUFFICES ASSUME copy_result # None, Cardinality(Shared) <= MaxCandidates, NEW f \in Copies!Exact
             PROVE  Copies!Reconciled(Copies!Joined(f)) = copy_result
  BY CopiesCount DEF Copies!OrderIsNoMatter, Copies!Decided, Shared
<1>1. PICK e \in Copies!Exact : copy_result = Copies!Reconciled(Copies!Joined(e))
  BY DEF CopiesInv
<1>2. Searched
  BY DEF CopiesInv
<1>3. PICK s, t : s = Copies!Joined(e) /\ t = Copies!Joined(f)
  OBVIOUS
<1>4. Found(s) = Found(t)
  BY <1>2, <1>3, JoinedAlike
<1>5. (s = <<>> <=> Found(s) = {}) /\ (t = <<>> <=> Found(t) = {})
  BY <1>2, <1>3, JoinedSays
<1>6. Copies!Best(s) = Copies!Best(t)
  BY <1>4 DEF Copies!Best, Found
<1> QED BY <1>1, <1>3, <1>4, <1>5, <1>6 DEF Copies!Reconciled

\* Where a row shares an identifier the event is merged, with a full score.
LEMMA IdentifiersMerge ==
  ASSUME Copies!ScoringAssumption, CopiesInv, copy_result # None, Shared # {}
  PROVE  copy_result.decision = "merge" /\ copy_result.score = Full
<1>1. PICK s :
        /\ \E t \in Shared : t \in Found(s)
        /\ Found(s) # {} =>
             \E t \in Found(s) :
                /\ copy_result = [id |-> t.id, decision |-> Copies!Decision(t),
                     score |-> Copies!Score(t)]
                /\ t \in copy_ledger /\ t.matches /\ t.id # None
                /\ Copies!Chosen = t
                /\ \A u \in Found(s) : Copies!Score(u) <= Copies!Score(t)
  BY DecisionIs
<1>2. PICK u \in Shared : u \in Found(s)
  BY <1>1
<1>3. PICK t \in Found(s) :
        /\ copy_result = [id |-> t.id, decision |-> Copies!Decision(t), score |-> Copies!Score(t)]
        /\ t \in copy_ledger /\ t.matches
        /\ \A v \in Found(s) : Copies!Score(v) <= Copies!Score(t)
  BY <1>1, <1>2
<1>4. Copies!Score(u) = Full
  BY <1>2, Scores DEF CopiesInv, Shared
<1>5. Copies!Score(t) \in 0..Full
  BY <1>3, Scores DEF CopiesInv
<1>6. Copies!Score(t) = Full
  <2>1. Copies!Score(u) <= Copies!Score(t)
    BY <1>2, <1>3
  <2>2. Full <= Copies!Score(t)
    BY <1>4, <2>1
  <2> QED BY <1>5, <2>2, FullScore
<1>7. Copies!Decision(t) = "merge"
  BY <1>3, <1>6, FullScoreMerges DEF CopiesInv
<1> QED BY <1>3, <1>6, <1>7

\* CopyMerges: a copy in every respect is merged.
LEMMA TheSameAreMerged ==
  ASSUME Copies!ScoringAssumption, CopiesInv
  PROVE  Copies!CopyMerges
<1> DEFINE Z == {t \in copy_ledger : t.matches /\ t.at = copy_event.at}
<1> SUFFICES ASSUME copy_result # None, Cardinality(Z) <= MaxCandidates, NEW c \in copy_ledger,
                    c.matches, c.at = copy_event.at,
                    c.merchant = copy_event.merchant, c.merchant # None,
                    c.description = copy_event.description, c.description # None
             PROVE  copy_result.decision = "merge"
  BY CopiesCount DEF Copies!CopyMerges, Copies!Decided
<1>1. CASE Shared # {}
  BY <1>1, IdentifiersMerge
<1>2. CASE Shared = {}
  <2>0. Searched
    BY DEF CopiesInv
  <2>1. IsFiniteSet(Z) /\ Cardinality(Z) \in Nat
    BY <2>0, CopiesTyped, FS_Subset, FS_CardinalityType
  <2>2. PICK M \in Nat \ {0} : M = MaxCandidates
    BY DEF Copies!ScoringAssumption
  <2>3. c \in Within /\ Copies!Distance(c) = 0
    <3>1. Copies!Distance(c) = 0 /\ Window \in Nat
      BY <2>0, CopiesTyped
    <3> QED BY <3>1 DEF Within
  <2>4. PICK T : T = Found(Copies!Temporal)
    OBVIOUS
  <2>5. c \in T
    <3> SUFFICES ASSUME c \notin T PROVE FALSE
      OBVIOUS
    <3>1. Cardinality(T) = M /\ T \in SUBSET Within /\ \A u \in T : Copies!Nearer(u, c)
      BY <2>0, <2>2, <2>3, <2>4, TemporalIs
    <3>2. \A u \in T : Copies!Distance(u) = 0 /\ u # c
      <4>1. \A u \in T : Copies!Distance(u) \in Nat /\ u.id \in Int
        BY <2>0, <3>1, CopiesTyped DEF Within
      <4>2. c.id \in Int
        BY <2>0, CopiesTyped
      <4> QED BY <2>3, <3>1, <4>1, <4>2 DEF Copies!Nearer
    <3>3. T \subseteq Z \ {c}
      BY <2>0, <3>1, <3>2, CopiesTyped DEF Within
    <3>4. IsFiniteSet(Z \ {c}) /\ Cardinality(Z \ {c}) = Cardinality(Z) - 1
      <4>1. c \in Z
        OBVIOUS
      <4> HIDE DEF Z
      <4> QED BY <2>1, <4>1, FS_RemoveElement
    <3>5. Cardinality(T) <= Cardinality(Z \ {c})
      BY <3>3, <3>4, FS_Subset
    <3> HIDE DEF Z
    <3> QED BY <2>1, <2>2, <3>1, <3>4, <3>5
  <2>6. PICK s :
          /\ Shared = {} => Found(s) = Found(Copies!Temporal)
          /\ Found(s) # {} =>
               \E t \in Found(s) :
                  /\ copy_result = [id |-> t.id, decision |-> Copies!Decision(t),
                       score |-> Copies!Score(t)]
                  /\ t \in copy_ledger /\ t.matches /\ t.id # None
                  /\ Copies!Chosen = t
                  /\ \A u \in Found(s) : Copies!Score(u) <= Copies!Score(t)
    BY DecisionIs
  <2>7. c \in Found(s)
    BY <1>2, <2>4, <2>5, <2>6
  <2>8. PICK t \in Found(s) :
          /\ copy_result = [id |-> t.id, decision |-> Copies!Decision(t), score |-> Copies!Score(t)]
          /\ t \in copy_ledger /\ t.matches
          /\ \A v \in Found(s) : Copies!Score(v) <= Copies!Score(t)
    BY <2>6, <2>7
  <2>9. Copies!Score(c) = Full
    BY <2>0, Scores
  <2>10. Copies!Score(t) \in 0..Full
    BY <2>0, <2>8, Scores
  <2>11. Copies!Score(t) = Full
    <3>1. Copies!Score(c) <= Copies!Score(t)
      BY <2>7, <2>8
    <3>2. Full <= Copies!Score(t)
      BY <2>9, <3>1
    <3> QED BY <2>10, <3>2, FullScore
  <2> QED BY <2>0, <2>8, <2>11, FullScoreMerges
<1> QED BY <1>1, <1>2

\* NothingBetterNearer: the limit hides no row that is nearer and better.
LEMMA NearerIsNotBetter ==
  ASSUME Copies!ScoringAssumption, CopiesInv
  PROVE  Copies!NothingBetterNearer
<1> SUFFICES ASSUME copy_result # None, copy_result.id # None, NEW c \in copy_ledger,
                    c.matches, Copies!Distance(c) <= Window,
                    Copies!Distance(c) < Copies!Distance(Copies!Chosen)
             PROVE  Copies!Score(c) <= copy_result.score
  BY DEF Copies!NothingBetterNearer, Copies!Decided
<1>0. Searched
  BY DEF CopiesInv
<1>1. CASE Shared # {}
  <2>1. copy_result.score = Full
    BY <1>1, IdentifiersMerge
  <2>2. PICK x \in 0..Full : x = Copies!Score(c)
    BY <1>0, Scores
  <2>3. x <= Full
    <3>1. x \in 0..Full
      BY <2>2
    <3> QED BY <3>1, FullScore
  <2> QED BY <2>1, <2>2, <2>3
<1>2. CASE Shared = {}
  <2>1. PICK s :
          /\ Shared = {} => Found(s) = Found(Copies!Temporal)
          /\ Found(s) = {} => copy_result = [id |-> None, decision |-> "new", score |-> 0]
          /\ Found(s) # {} =>
               \E t \in Found(s) :
                  /\ copy_result = [id |-> t.id, decision |-> Copies!Decision(t),
                       score |-> Copies!Score(t)]
                  /\ t \in copy_ledger /\ t.matches /\ t.id # None
                  /\ Copies!Chosen = t
                  /\ \A u \in Found(s) : Copies!Score(u) <= Copies!Score(t)
    BY DecisionIs
  <2>2. Found(s) # {}
    BY <2>1
  <2>3. PICK t \in Found(s) :
          /\ copy_result = [id |-> t.id, decision |-> Copies!Decision(t), score |-> Copies!Score(t)]
          /\ Copies!Chosen = t
          /\ \A v \in Found(s) : Copies!Score(v) <= Copies!Score(t)
    BY <2>1, <2>2
  <2>4. c \in Within
    BY DEF Within
  <2>5. Copies!Nearer(c, t)
    BY <2>3 DEF Copies!Nearer
  <2>6. c \in Found(s)
    BY <1>0, <1>2, <2>1, <2>3, <2>4, <2>5, TemporalIs
  <2> QED BY <2>3, <2>6
<1> QED BY <1>1, <1>2

\* AbsentTextIsNoEvidence: with the default weights money and time alone flag nothing.
LEMMA AbsentTextIsNotEnough ==
  ASSUME Copies!ScoringAssumption, CopiesInv, copy_policy = DefaultPolicy
  PROVE  Copies!AbsentTextIsNoEvidence
<1> SUFFICES ASSUME copy_result # None, copy_result.decision # "new", ~Copies!SharesId(Copies!Chosen),
                    copy_event.merchant = None \/ Copies!Chosen.merchant = None,
                    copy_event.description = None \/ Copies!Chosen.description = None
             PROVE  FALSE
  BY DEF Copies!AbsentTextIsNoEvidence, Copies!Decided
<1>0. Searched
  BY DEF CopiesInv
<1>1. PICK s :
        /\ Found(s) = {} => copy_result = [id |-> None, decision |-> "new", score |-> 0]
        /\ Found(s) # {} =>
             \E t \in Found(s) :
                /\ copy_result = [id |-> t.id, decision |-> Copies!Decision(t),
                     score |-> Copies!Score(t)]
                /\ t \in copy_ledger /\ t.matches /\ t.id # None
                /\ Copies!Chosen = t
                /\ \A u \in Found(s) : Copies!Score(u) <= Copies!Score(t)
  BY DecisionIs
<1>2. Found(s) # {}
  BY <1>1
<1>3. PICK t \in copy_ledger :
        /\ copy_result = [id |-> t.id, decision |-> Copies!Decision(t), score |-> Copies!Score(t)]
        /\ t.matches /\ Copies!Chosen = t
  BY <1>1, <1>2
<1>4. Copies!Score(t) <= 6000 /\ Copies!Score(t) \in 0..Full
  BY <1>0, <1>3, Scores
<1>5. copy_policy.merge = 92 /\ copy_policy.flag = 70
  BY DEF DefaultPolicy, Policy
<1>6. ~(Copies!Score(t) >= 100 * copy_policy.merge) /\ ~(Copies!Score(t) >= 100 * copy_policy.flag)
  <2>1. PICK x : x = Copies!Score(t)
    OBVIOUS
  <2>2. x \in Int /\ x <= 6000
    BY <1>4, <2>1, FullScore
  <2>3. ~(x >= 100 * 92) /\ ~(x >= 100 * 70)
    BY <2>2
  <2> QED BY <1>5, <2>1, <2>3
<1>7. Copies!Decision(t) = "new"
  BY <1>3, <1>6 DEF Copies!Decision
<1> QED BY <1>3, <1>7

\* What the invariant says of the properties of the run.
LEMMA CopiesSay ==
  ASSUME Copies!ScoringAssumption, CopiesInv
  PROVE  /\ Copies!TypeOK /\ Copies!OrderIsNoMatter /\ Copies!NothingBetterNearer
         /\ Copies!IdentifierMerges /\ Copies!CopyMerges
         /\ copy_policy = DefaultPolicy => Copies!AbsentTextIsNoEvidence
<1>0. Searched
  BY DEF CopiesInv
<1>1. Copies!IdentifierMerges
  BY IdentifiersMerge DEF Copies!IdentifierMerges, Copies!Decided, Shared, Full
<1>2. copy_candidates # None => Copies!ToSet(copy_candidates) \subseteq copy_ledger
        /\ Len(copy_candidates) <= MaxCandidates
  BY <1>0, JoinedSays DEF CopiesInv, Found
<1>3. ASSUME copy_result # None
      PROVE  copy_result.decision \in {"new", "flag", "merge"} /\ copy_result.score \in 0..Full
  <2>1. PICK s :
          /\ Found(s) = {} => copy_result = [id |-> None, decision |-> "new", score |-> 0]
          /\ Found(s) # {} =>
               \E t \in Found(s) :
                  /\ copy_result = [id |-> t.id, decision |-> Copies!Decision(t),
                       score |-> Copies!Score(t)]
                  /\ t \in copy_ledger /\ t.matches /\ t.id # None
                  /\ Copies!Chosen = t
                  /\ \A u \in Found(s) : Copies!Score(u) <= Copies!Score(t)
    BY <1>3, DecisionIs
  <2>2. CASE Found(s) = {}
    <3>1. 0 \in 0..Full
      BY FullScore
    <3> QED BY <2>1, <2>2, <3>1
  <2>3. ASSUME NEW t \in copy_ledger,
               copy_result = [id |-> t.id, decision |-> Copies!Decision(t), score |-> Copies!Score(t)]
        PROVE  copy_result.decision \in {"new", "flag", "merge"} /\ copy_result.score \in 0..Full
    <3>1. Copies!Decision(t) \in {"new", "flag", "merge"}
      BY DEF Copies!Decision
    <3>2. Copies!Score(t) \in 0..Full
      BY <1>0, Scores
    <3> QED BY <2>3, <3>1, <3>2
  <2>4. CASE Found(s) # {}
    <3>1. PICK t \in copy_ledger :
            copy_result = [id |-> t.id, decision |-> Copies!Decision(t), score |-> Copies!Score(t)]
      BY <2>1, <2>4
    <3> QED BY <2>3, <3>1
  <2> QED BY <2>2, <2>4
<1>4. Copies!TypeOK
  <2>1. 0..Full = 0..10000
    BY DEF Full
  <2>2. copy_result # None =>
          copy_result.decision \in {"new", "flag", "merge"} /\ copy_result.score \in 0..10000
    BY <1>3, <2>1
  <2>3. Copies!Valid(copy_policy) /\ copy_event \in Events
    BY <1>0 DEF Searched
  <2> QED BY <1>2, <2>2, <2>3, PTL DEF Copies!TypeOK
<1> QED BY <1>1, <1>4, OrderDoesNotMatter, NearerIsNotBetter, TheSameAreMerged, AbsentTextIsNotEnough

-----------------------------------------------------------------------------
(* What the modules promise together.                                      *)

(* What the owner is shown: every posting is in the one month its owner lived *)
(* it in, all views add up to one spending, and a walk through the pages      *)
(* shows nothing twice and misses nothing that was there when it began.       *)
THEOREM ViewsKept == Spec => []ViewsAgree
<1>1. /\ Summaries!MonthsAssumption /\ Summaries!LedgerViewsAssumption /\ Pages!LedgerViewsAssumption
      /\ Zones # {} /\ \A z \in Zones : Plain(z)
  BY LedgerAssumptions DEF LedgerAssumptions
<1>2. SummariesInv => Summaries!OneMonthEach /\ Summaries!SpendingViewsAgree
  BY <1>1, OneMonth, OneSpending
<1>3. PagesInv => Pages!WalkDescends /\ Pages!WalkMissesNothing
  BY PagesSay
<1>4. SummariesInv /\ PagesInv => ViewsAgree
  BY <1>2, <1>3 DEF ViewsAgree
<1>5. (Spec => []SummariesInv) /\ (Spec => []PagesInv)
  BY <1>1, SummariesInvariance, PagesInvariance
<1> QED BY <1>4, <1>5, PTL

(* A report read in four statements, between which rows and the day change:   *)
(* its deltas add up, no row is in both months, its history holds both, and   *)
(* every payment and debt it names was there to be read.                      *)
THEOREM ReportsKept == Spec => []ReportsHold
<1>1. Report!InsightsAssumption
  BY LedgerAssumptions DEF LedgerAssumptions
<1>2. ReportInv => ReportsHold
  BY <1>1, ReportSays DEF ReportsHold
<1>3. Spec => []ReportInv
  BY <1>1, ReportInvariance
<1> QED BY <1>2, <1>3, PTL

(* The search for copies, under every policy that is accepted: the order of   *)
(* the rows with a shared identifier does not matter while none is cut, the   *)
(* limit hides nothing nearer, identifiers and exact copies always merge, and *)
(* with the default weights a missing text is no evidence.                    *)
THEOREM CopiesKept == Spec => []CopiesAreFound
<1>1. Copies!ScoringAssumption
  BY LedgerAssumptions DEF LedgerAssumptions
<1>2. CopiesInv => CopiesAreFound
  BY <1>1, CopiesSay DEF CopiesAreFound
<1>3. Spec => []CopiesInv
  BY <1>1, CopiesInvariance
<1> QED BY <1>2, <1>3, PTL

=============================================================================
