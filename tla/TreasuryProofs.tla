--------------------------- MODULE TreasuryProofs ---------------------------
(***************************************************************************)
(* Theorems about Treasury, for every pool of rows, every holding, every   *)
(* length of month, limit and page size, and every question.               *)
(***************************************************************************)
EXTENDS Treasury, SequenceTheorems, FoldFacts

(* Types.                                                                  *)
Statements == {"byBank", "balance", "totals", "categories", "series", "banks", "name",
               "sources", "count", "page"}
TypeInv ==
  /\ rows \subseteq Pool /\ held \in Holdings /\ today \in 1..LastDay
  /\ DOMAIN get = {"kind", "left", "got", "question", "page"}
  /\ get.kind \in DOMAIN Plans \cup {"none"}
  /\ get.left \in Seq(Statements) /\ get.question \in Questions /\ get.page \in Nat
  /\ seen \in [Pool -> Nat] /\ start \subseteq Pool
  /\ grew \in BOOLEAN /\ moved \in BOOLEAN

LEMMA ReadKeeps ==
  ASSUME TypeInv, Read
  PROVE  /\ DOMAIN get'.got = DOMAIN get.got \cup {Head(get.left)}
         /\ get'.got[Head(get.left)] = Reads(Head(get.left), get.question)
         /\ \A s \in DOMAIN get.got \ {Head(get.left)} : get'.got[s] = get.got[s]
         /\ get'.left = Tail(get.left) /\ get.left # <<>>
         /\ get'.kind = get.kind /\ get'.question = get.question /\ get'.page = get.page
         /\ DOMAIN get' = DOMAIN get
<1> DEFINE s == Head(get.left)
           v == Reads(s, get.question)
<1>1. get' = [get EXCEPT !.left = Tail(@), !.got = Answered(@, s, v)]
  BY DEF Read
<1>2. get'.got = Answered(get.got, s, v)
  BY <1>1 DEF TypeInv
<1>3. /\ get'.left = Tail(get.left) /\ get.left # <<>>
      /\ get'.kind = get.kind /\ get'.question = get.question /\ get'.page = get.page
      /\ DOMAIN get' = DOMAIN get
  BY <1>1 DEF TypeInv, Read
<1> HIDE DEF s, v
<1>4. /\ DOMAIN get'.got = DOMAIN get.got \cup {s}
      /\ get'.got[s] = v
      /\ \A u \in DOMAIN get.got \ {s} : get'.got[u] = get.got[u]
  BY <1>2 DEF Answered
<1> QED
  BY <1>3, <1>4 DEF s, v

-----------------------------------------------------------------------------
(* The rows behind the sums.                                               *)
LEMMA FirstDayComes ==
  ASSUME NEW day \in Nat \ {0}
  PROVE  FirstDay(day) \in 1..day /\ Month(day) \in Nat
<1> DEFINE m == MonthLength
           q == (day - 1) \div m
<1>1. m \in Nat /\ m > 0 /\ day - 1 \in Nat
  BY TreasuryAssumption
<1>2. q \in Nat /\ q * m <= day - 1 /\ q * m \in Nat
  BY <1>1, SMTT(30)
<1> HIDE DEF q, m
<1> QED
  BY <1>1, <1>2 DEF FirstDay, Month, q, m

LEMMA RowsOfMonth ==
  ASSUME NEW S \in SUBSET Pool, NEW day
  PROVE  /\ InMonth(S, day) \subseteq S /\ Counted(S, day) \subseteq InMonth(S, day)
         /\ Expenses(S, day) \subseteq Counted(S, day)
         /\ IsFiniteSet(S) /\ IsFiniteSet(Counted(S, day)) /\ IsFiniteSet(Expenses(S, day))
         /\ IsFiniteSet(InMonth(S, day))
         /\ \A t \in Expenses(S, day) : t.amount < 0
         /\ \A t \in Counted(S, day) \ Expenses(S, day) : t.amount >= 0
         /\ \A t \in Pool : t.amount \in Int /\ t.day \in Nat \ {0} /\ t.id \in Int
<1>1. /\ InMonth(S, day) \subseteq S /\ Counted(S, day) \subseteq InMonth(S, day)
      /\ Expenses(S, day) \subseteq Counted(S, day)
  BY DEF InMonth, Counted, Expenses
<1>2. /\ IsFiniteSet(Pool)
      /\ \A t \in Pool : t.amount \in Int /\ t.day \in Nat \ {0} /\ t.id \in Int
  BY TreasuryAssumption
<1>3. IsFiniteSet(S)
  BY <1>2, FS_Subset
<1>4. Counted(S, day) \in SUBSET S /\ Expenses(S, day) \in SUBSET S /\ InMonth(S, day) \in SUBSET S
  BY <1>1
<1>5. IsFiniteSet(Counted(S, day)) /\ IsFiniteSet(Expenses(S, day)) /\ IsFiniteSet(InMonth(S, day))
  BY <1>3, <1>4, FS_Subset
<1>6. \A t \in Expenses(S, day) : t.amount < 0
  BY DEF Expenses
<1>7. \A t \in Counted(S, day) \ Expenses(S, day) : t.amount >= 0
  BY <1>1, <1>2 DEF Expenses
<1> QED
  BY <1>1, <1>2, <1>3, <1>5, <1>6, <1>7

LEMMA AmountsTyped ==
  \A t \in Pool : Amount[t] = t.amount /\ Spent[t] = -t.amount /\ t.amount \in Int
                  /\ Amount[t] \in Int /\ Spent[t] \in Int
BY TreasuryAssumption DEF Amount, Spent

(* The expenses of the categories are the month's.                         *)
LEMMA CategoriesSum ==
  ASSUME NEW S \in SUBSET Pool, NEW day
  PROVE  CategorySum(ExpensesByCategory(S, day)) = Sum(Spent, Expenses(S, day))
<1> DEFINE T == Expenses(S, day)
           L == {DisplayCategory(t) : t \in T}
           h == [t \in T |-> DisplayCategory(t)]
           B == ExpensesByCategory(S, day)
           by == [c \in DOMAIN B |-> B[c].total]
<1>1. IsFiniteSet(T) /\ T \in SUBSET Pool
  BY RowsOfMonth
<1>2. \A t \in T : Spent[t] \in Int
  BY <1>1, AmountsTyped
<1>3. \A t \in T : h[t] \in L /\ h[t] = DisplayCategory(t)
  OBVIOUS
<1>4. IsFiniteSet(L)
  <2>1. h \in Surjection(T, L)
    BY DEF Surjection
  <2> HIDE DEF h, L, T
  <2> QED
    BY <1>1, <2>1, FS_Surjection
<1>5. DOMAIN B = L /\ by = [c \in L |-> B[c].total]
  BY DEF ExpensesByCategory
<1>6. ASSUME NEW l \in L PROVE by[l] = Sum(Spent, {t \in T : h[t] = l})
  <2>1. B[l].total = SumFunctionOnSet(Spent, {t \in T : DisplayCategory(t) = l})
    BY DEF ExpensesByCategory
  <2>2. {t \in T : DisplayCategory(t) = l} = {t \in T : h[t] = l}
    BY <1>3
  <2>3. by[l] = B[l].total
    BY <1>5
  <2> QED
    BY <2>1, <2>2, <2>3, SumOfFunction
<1>7. CategorySum(B) = Sum(by, L)
  <2>1. CategorySum(B) = SumFunction(by)
    BY DEF CategorySum
  <2>2. SumFunction(by) = SumFunctionOnSet(by, DOMAIN by) /\ DOMAIN by = L
    BY <1>5 DEF SumFunction
  <2> HIDE DEF by, B, L
  <2> QED
    BY <2>1, <2>2, SumOfFunction
<1> HIDE DEF T, L, h, B, by
<1>8. Sum(Spent, T) = Sum(by, L)
  <2> DEFINE part == [l \in L |-> {t \in T : h[t] = l}]
  <2>1. \A t \in T : h[t] \in L
    BY <1>3
  <2>2. \A l \in L : by[l] = Sum(Spent, part[l])
    BY <1>6
  <2>3. \A l \in L : \A x : x \in part[l] <=> x \in T /\ h[x] = l
    OBVIOUS
  <2> HIDE DEF part
  <2> QED
    BY <1>1, <1>2, <1>4, <2>1, <2>2, <2>3, SumByLabel
<1> QED
  BY <1>7, <1>8 DEF T, B

(* What a prompt lists of the categories does not pass their sum, and is   *)
(* that sum when they all fit.                                             *)
LEMMA ListedSum ==
  ASSUME NEW S \in SUBSET Pool, NEW day, NEW R \in Ranked(ExpensesByCategory(S, day))
  PROVE  LET B == ExpensesByCategory(S, day)
         IN  /\ TotalOf(B, R) <= CategorySum(B)
             /\ Cardinality(DOMAIN B) <= CategoryLimit => TotalOf(B, R) = CategorySum(B)
<1> DEFINE T == Expenses(S, day)
           B == ExpensesByCategory(S, day)
           L == {DisplayCategory(t) : t \in T}
           h == [t \in T |-> DisplayCategory(t)]
           by == [c \in DOMAIN B |-> B[c].total]
<1>1. IsFiniteSet(T) /\ T \in SUBSET Pool /\ \A t \in T : Spent[t] \in Nat
  <2>1. IsFiniteSet(T) /\ T \in SUBSET Pool
    BY RowsOfMonth
  <2>2. \A t \in T : t.amount < 0
    BY DEF Expenses
  <2> HIDE DEF T
  <2> QED
    BY <2>1, <2>2, AmountsTyped
<1>2. DOMAIN B = L
  BY DEF ExpensesByCategory
<1>3. IsFiniteSet(L)
  <2>1. h \in Surjection(T, L)
    BY DEF Surjection
  <2> HIDE DEF h, L, T
  <2> QED
    BY <1>1, <2>1, FS_Surjection
<1>4. ASSUME NEW l \in L PROVE by[l] \in Nat
  <2> DEFINE of == {t \in T : DisplayCategory(t) = l}
  <2>1. by[l] = SumFunctionOnSet(Spent, of)
    BY <1>2 DEF ExpensesByCategory
  <2>2. IsFiniteSet(of) /\ \A t \in of : Spent[t] \in Nat
    BY <1>1, FS_Subset
  <2> HIDE DEF of
  <2>3. Sum(Spent, of) \in Nat
    BY <2>2, SumNatural
  <2> QED
    BY <2>1, <2>3, SumOfFunction
<1>5. /\ R \in SUBSET L
      /\ Cardinality(R) = IF Cardinality(L) < CategoryLimit THEN Cardinality(L)
                          ELSE CategoryLimit
  BY <1>2 DEF Ranked
<1>6. TotalOf(B, R) = SumFunctionOnSet(by, R) /\ CategorySum(B) = SumFunctionOnSet(by, L)
  BY <1>2 DEF TotalOf, CategorySum, SumFunction
<1> HIDE DEF T, B, L, h, by
<1>7. Sum(by, L) = Sum(by, R) + Sum(by, L \ R)
  BY <1>3, <1>4, <1>5, SumOfPart
<1>8. Sum(by, R) \in Nat /\ Sum(by, L \ R) \in Nat
  <2>1. IsFiniteSet(R) /\ IsFiniteSet(L \ R)
    BY <1>3, <1>5, FS_Subset
  <2> QED
    BY <1>4, <1>5, <2>1, SumNatural
<1>9. Cardinality(L) <= CategoryLimit => R = L
  <2>1. Cardinality(L) \in Nat /\ (Cardinality(R) = Cardinality(L) => R = L)
    BY <1>3, <1>5, FS_Subset, FS_CardinalityType
  <2> QED
    BY <1>5, <2>1, TreasuryAssumption
<1> QED
  BY <1>2, <1>6, <1>7, <1>8, <1>9, SumOfFunction DEF B

(* The month's expenses are those of the days that have come and the rest. *)
LEMMA SeriesEnds ==
  ASSUME NEW S \in SUBSET Pool, NEW day \in Nat \ {0}
  PROVE  LET series == DailyCumulativeExpenses(S, day)
         IN  /\ series[Len(series)] = Sum(Spent, {t \in Expenses(S, day) : t.day <= day})
             /\ Sum(Spent, Expenses(S, day)) =
                  series[Len(series)] + Sum(Spent, {t \in Expenses(S, day) : t.day > day})
<1> DEFINE series == DailyCumulativeExpenses(S, day)
           k == day - FirstDay(day) + 1
           T == Expenses(S, day)
           R == {t \in T : t.day <= day}
<1>1. k \in Nat \ {0} /\ FirstDay(day) + k = day + 1
  BY FirstDayComes
<1>2. series = [i \in 1..k |->
                  SumFunctionOnSet(Spent, {t \in T : t.day < FirstDay(day) + i})]
  BY DEF DailyCumulativeExpenses
<1>3. IsFiniteSet(T) /\ T \in SUBSET Pool /\ \A t \in T : t.day \in Nat
  BY RowsOfMonth
<1>4. \A t \in T : Spent[t] \in Int
  BY <1>3, AmountsTyped
<1> HIDE DEF series, k, T
<1>5. Len(series) = k
  BY <1>1, <1>2
<1>6. {t \in T : t.day < FirstDay(day) + k} = R
  BY <1>1, <1>3
<1>7. series[k] = Sum(Spent, R)
  BY <1>1, <1>2, <1>6, SumOfFunction
<1>8. T \ R = {t \in T : t.day > day} /\ R \in SUBSET T
  BY <1>3
<1> HIDE DEF R
<1>9. Sum(Spent, T) = Sum(Spent, R) + Sum(Spent, T \ R)
  BY <1>3, <1>4, <1>8, SumOfPart
<1>10. series[Len(series)] = Sum(Spent, R) /\ Sum(Spent, T) =
         series[Len(series)] + Sum(Spent, {t \in T : t.day > day})
  BY <1>5, <1>7, <1>8, <1>9
<1> QED
  BY <1>10 DEF series, T, R

LEMMA TotalsFit == TypeInv => TotalsAgree
<1> SUFFICES ASSUME TypeInv PROVE TotalsAgree
  OBVIOUS
<1>1. rows \in SUBSET Pool /\ today \in Nat \ {0}
  BY TreasuryAssumption DEF TypeInv
<1>2. MonthTotals(rows, today).expenses = Sum(Spent, Expenses(rows, today))
  BY SumOfFunction DEF MonthTotals
<1>3. CategorySum(ExpensesByCategory(rows, today)) = Sum(Spent, Expenses(rows, today))
  BY <1>1, CategoriesSum
<1> DEFINE series == DailyCumulativeExpenses(rows, today)
           late == {t \in Expenses(rows, today) : t.day > today}
<1>4. Sum(Spent, Expenses(rows, today)) = series[Len(series)] + Sum(Spent, late)
  BY <1>1, SeriesEnds
<1>5. SumFunctionOnSet(Spent, late) = Sum(Spent, late)
  BY SumOfFunction
<1> QED
  BY <1>2, <1>3, <1>4, <1>5 DEF TotalsAgree

(* The balances on the cards are the total: a bank without an account      *)
(* shows 0, an account without a bank is in neither.                       *)
LEMMA CardsSum ==
  ASSUME NEW H \in Holdings
  PROVE  SumFunction(BankCards(H.connections, BalanceByConnection(UserAccounts(H))))
           = Balance(UserAccounts(H))
<1> DEFINE A == UserAccounts(H)
           f == [a \in A |-> a.balance]
           L == H.connections
           h == [a \in A |-> a.bank]
           by == BankCards(L, BalanceByConnection(A))
<1>1. IsFiniteSet(A) /\ \A a \in A : f[a] \in Int
  <2>1. A \subseteq H.accounts
    BY DEF UserAccounts
  <2>2. IsFiniteSet(H.accounts) /\ \A a \in H.accounts : a.balance \in Int
    BY TreasuryAssumption
  <2> HIDE DEF A
  <2> QED
    BY <2>1, <2>2, FS_Subset
<1>2. \A a \in A : h[a] \in L
  BY DEF UserAccounts
<1>3. IsFiniteSet(L)
  BY TreasuryAssumption
<1> HIDE DEF A
<1>4. ASSUME NEW l \in L PROVE by[l] = Sum(f, {a \in A : h[a] = l})
  <2> DEFINE T == {a \in A : h[a] = l}
             g == [a \in T |-> a.balance]
  <2>1. by[l] = IF l \in {a.bank : a \in A} THEN Balance({a \in A : a.bank = l}) ELSE 0
    BY DEF BankCards, BalanceByConnection
  <2>2. {a \in A : a.bank = l} = T /\ T \in SUBSET A
    OBVIOUS
  <2>3. Balance(T) = SumFunction(g) /\ SumFunction(g) = SumFunctionOnSet(g, T)
    BY DEF Balance, SumFunction
  <2>4. \A a \in T : g[a] = f[a]
    OBVIOUS
  <2>5. l \notin {a.bank : a \in A} => T = {}
    OBVIOUS
  <2> HIDE DEF T, g, f, by
  <2>6. IsFiniteSet(T)
    BY <1>1, <2>2, FS_Subset
  <2>7. Sum(g, T) = Sum(f, T)
    BY <2>4, <2>6, SumSame
  <2>8. CASE l \in {a.bank : a \in A}
    BY <2>1, <2>2, <2>3, <2>7, <2>8, SumOfFunction DEF T
  <2>9. CASE l \notin {a.bank : a \in A}
    <3>1. Sum(f, T) = 0
      BY <2>5, <2>9, SumOfNone
    <3> QED
      BY <2>1, <2>9, <3>1 DEF T
  <2> QED
    BY <2>8, <2>9
<1>5. SumFunction(by) = SumFunctionOnSet(by, L)
  BY DEF SumFunction, BankCards
<1>6. Balance(A) = SumFunctionOnSet(f, A)
  BY DEF Balance, SumFunction
<1> HIDE DEF f, L, h, by
<1>7. Sum(f, A) = Sum(by, L)
  <2> DEFINE part == [l \in L |-> {a \in A : h[a] = l}]
  <2>1. \A a \in A : f[a] \in Int
    BY <1>1
  <2>2. \A l \in L : by[l] = Sum(f, part[l])
    BY <1>4
  <2>3. \A l \in L : \A x : x \in part[l] <=> x \in A /\ h[x] = l
    OBVIOUS
  <2> HIDE DEF part
  <2> QED
    BY <1>1, <1>2, <1>3, <2>1, <2>2, <2>3, SumByLabel
<1> QED
  BY <1>5, <1>6, <1>7, SumOfFunction DEF by, A, L

-----------------------------------------------------------------------------
(* Ranks.  Tuples of numbers of one length are ordered by the first place  *)
(* where they differ, so every row of a set has a place of its own.        *)
Tuples(k) == [1..k -> Int]

LEMMA FirstDifference ==
  ASSUME NEW k \in Nat, NEW a \in Tuples(k), NEW b \in Tuples(k), a # b
  PROVE  \E i \in 1..k : a[i] # b[i] /\ \A j \in 1..i - 1 : a[j] = b[j]
<1> DEFINE D == {i \in 1..k : a[i] # b[i]}
<1>1. D # {} /\ D \in SUBSET Nat
  BY DEF Tuples
<1>2. PICK i \in D : \A j \in D : i <= j
  BY <1>1, LeastNumber
<1>3. i \in 1..k /\ a[i] # b[i] /\ \A j \in 1..i - 1 : j \in 1..k /\ j \notin D
  BY <1>2
<1> QED
  BY <1>3

LEMMA BeforeOrders ==
  ASSUME NEW k \in Nat, NEW a \in Tuples(k), NEW b \in Tuples(k), NEW c \in Tuples(k)
  PROVE  /\ ~Before(a, a)
         /\ a # b => Before(a, b) \/ Before(b, a)
         /\ Before(a, b) /\ Before(b, c) => Before(a, c)
<1> USE DEF Before, Tuples
<1>0. DOMAIN a = 1..k /\ DOMAIN b = 1..k /\ DOMAIN c = 1..k
  OBVIOUS
<1>1. ~Before(a, a)
  OBVIOUS
<1>2. ASSUME a # b PROVE Before(a, b) \/ Before(b, a)
  <2>1. PICK i \in 1..k : a[i] # b[i] /\ \A j \in 1..i - 1 : a[j] = b[j]
    BY <1>2, FirstDifference
  <2>2. a[i] \in Int /\ b[i] \in Int
    OBVIOUS
  <2>3. a[i] < b[i] \/ b[i] < a[i]
    BY <2>1, <2>2
  <2> QED
    BY <1>0, <2>1, <2>3
<1>3. ASSUME Before(a, b), Before(b, c) PROVE Before(a, c)
  <2>1. PICK i \in 1..k : a[i] < b[i] /\ \A j \in 1..i - 1 : a[j] = b[j]
    BY <1>0, <1>3
  <2>2. PICK l \in 1..k : b[l] < c[l] /\ \A j \in 1..l - 1 : b[j] = c[j]
    BY <1>0, <1>3
  <2>3. CASE i < l
    <3>1. b[i] = c[i] /\ \A j \in 1..i - 1 : b[j] = c[j]
      BY <2>2, <2>3
    <3> QED
      BY <1>0, <2>1, <3>1
  <2>4. CASE l < i
    <3>1. a[l] = b[l] /\ \A j \in 1..l - 1 : a[j] = b[j]
      BY <2>1, <2>4
    <3> QED
      BY <1>0, <2>2, <3>1
  <2>5. CASE i = l
    <3>1. a[i] \in Int /\ b[i] \in Int /\ c[i] \in Int
      OBVIOUS
    <3>2. a[i] < c[i]
      BY <2>1, <2>2, <2>5, <3>1
    <3> QED
      BY <1>0, <2>1, <2>2, <2>5, <3>2
  <2> QED
    BY <2>3, <2>4, <2>5
<1> QED
  BY <1>1, <1>2, <1>3

LEMMA EveryRowHasItsPlace ==
  ASSUME NEW S, IsFiniteSet(S), NEW k \in Nat, NEW rank,
         \A t \in S : rank[t] \in Tuples(k),
         \A t, u \in S : rank[t] = rank[u] => t = u
  PROVE  /\ Cardinality(S) \in Nat
         /\ \A t \in S : Place(t, S, rank) \in 1..Cardinality(S)
         /\ \A t, u \in S : Place(t, S, rank) = Place(u, S, rank) => t = u
         /\ \A i \in 1..Cardinality(S) : \E t \in S : Place(t, S, rank) = i
<1> DEFINE Ahead(t) == {u \in S : Before(rank[u], rank[t])}
           n == Cardinality(S)
           place == [t \in S |-> Place(t, S, rank)]
<1>1. n \in Nat
  BY FS_CardinalityType
<1>2. ASSUME NEW t \in S PROVE IsFiniteSet(Ahead(t)) /\ Cardinality(Ahead(t)) \in 0..n - 1
  <2>1. t \notin Ahead(t) /\ Ahead(t) \in SUBSET (S \ {t})
    BY BeforeOrders
  <2>2. IsFiniteSet(S \ {t}) /\ Cardinality(S \ {t}) = n - 1
    BY FS_RemoveElement
  <2> HIDE DEF Ahead, n
  <2>3. IsFiniteSet(Ahead(t)) /\ Cardinality(Ahead(t)) <= n - 1
    BY <2>1, <2>2, FS_Subset
  <2>4. Cardinality(Ahead(t)) \in Nat
    BY <2>3, FS_CardinalityType
  <2> QED
    BY <1>1, <2>3, <2>4
<1>3. \A t \in S : Place(t, S, rank) = 1 + Cardinality(Ahead(t)) /\ place[t] = Place(t, S, rank)
  BY DEF Place
<1> DEFINE size == [t \in S |-> Cardinality(Ahead(t))]
<1> HIDE DEF Ahead, n
<1>a. ASSUME NEW t \in S
      PROVE  size[t] = Cardinality(Ahead(t)) /\ size[t] \in 0..n - 1 /\ size[t] \in Nat
  BY <1>1, <1>2
<1>4. ASSUME NEW t \in S, NEW u \in S, Before(rank[t], rank[u])
      PROVE  Cardinality(Ahead(t)) < Cardinality(Ahead(u))
  <2>1. Ahead(t) \in SUBSET Ahead(u)
    <3> SUFFICES ASSUME NEW v \in Ahead(t) PROVE v \in Ahead(u)
      OBVIOUS
    <3>1. v \in S /\ Before(rank[v], rank[t])
      BY DEF Ahead
    <3>2. rank[v] \in Tuples(k) /\ rank[t] \in Tuples(k) /\ rank[u] \in Tuples(k)
      BY <3>1
    <3>3. Before(rank[v], rank[u])
      BY <1>4, <3>1, <3>2, BeforeOrders
    <3> QED
      BY <3>1, <3>3 DEF Ahead
  <2>2. t \in Ahead(u) /\ t \notin Ahead(t)
    BY <1>4, BeforeOrders DEF Ahead
  <2>3. /\ Cardinality(Ahead(t)) \in Nat /\ Cardinality(Ahead(u)) \in Nat
        /\ IsFiniteSet(Ahead(u))
    BY <1>2, <1>a
  <2>4. /\ Cardinality(Ahead(t)) <= Cardinality(Ahead(u))
        /\ Cardinality(Ahead(u)) = Cardinality(Ahead(t)) => Ahead(u) = Ahead(t)
    BY <2>1, <2>3, FS_Subset
  <2> QED
    BY <2>2, <2>3, <2>4
<1>5. ASSUME NEW t \in S, NEW u \in S, Place(t, S, rank) = Place(u, S, rank) PROVE t = u
  <2>1. size[t] \in Nat /\ size[u] \in Nat /\ 1 + size[t] = 1 + size[u]
    BY <1>3, <1>5, <1>a
  <2>2. size[t] = size[u]
    BY <2>1
  <2>3. ~(size[t] < size[u]) /\ ~(size[u] < size[t])
    BY <2>1, <2>2
  <2>4. ~Before(rank[t], rank[u]) /\ ~Before(rank[u], rank[t])
    BY <1>4, <1>a, <2>3
  <2>5. rank[t] = rank[u]
    BY <2>4, BeforeOrders
  <2> QED
    BY <2>5
<1>6. \A t \in S : Place(t, S, rank) \in 1..n
  <2> SUFFICES ASSUME NEW t \in S PROVE Place(t, S, rank) \in 1..n
    OBVIOUS
  <2>1. Place(t, S, rank) = 1 + size[t] /\ size[t] \in 0..n - 1
    BY <1>3, <1>a
  <2> QED
    BY <1>1, <2>1
<1>7. place \in Injection(S, 1..n)
  BY <1>3, <1>5, <1>6 DEF Injection, IsInjective
<1>8. IsFiniteSet(1..n) /\ Cardinality(1..n) = n
  BY <1>1, FS_Interval
<1>9. place \in Surjection(S, 1..n)
  <2> HIDE DEF place
  <2>1. Cardinality(S) = Cardinality(1..n)
    BY <1>8 DEF n
  <2> QED
    BY <1>7, <1>8, <2>1, FS_Injection
<1>10. \A i \in 1..n : \E t \in S : Place(t, S, rank) = i
  BY <1>3, <1>9 DEF Surjection
<1> QED
  BY <1>1, <1>5, <1>6, <1>10 DEF n

(* A ranked list: rows of the set, none twice, all of them when it is not  *)
(* cut.                                                                    *)
Whole(s, T) ==
  /\ \A i, j \in DOMAIN s : s[i] = s[j] => i = j
  /\ T = {s[i] : i \in DOMAIN s}

LEMMA FirstsAreRows ==
  ASSUME NEW S, IsFiniteSet(S), NEW k \in Nat, NEW rank,
         \A t \in S : rank[t] \in Tuples(k),
         \A t, u \in S : rank[t] = rank[u] => t = u,
         NEW n \in Nat
  PROVE  /\ Firsts(S, rank, n) \in Seq(S)
         /\ Len(Firsts(S, rank, n)) < n => Whole(Firsts(S, rank, n), S)
<1> DEFINE m == Cardinality(S)
           len == IF m < n THEN m ELSE n
           at(i) == CHOOSE t \in S : Place(t, S, rank) = i
           s == Firsts(S, rank, n)
<1>1. /\ m \in Nat
      /\ \A t \in S : Place(t, S, rank) \in 1..m
      /\ \A t, u \in S : Place(t, S, rank) = Place(u, S, rank) => t = u
      /\ \A i \in 1..m : \E t \in S : Place(t, S, rank) = i
  BY EveryRowHasItsPlace
<1>2. \A i \in 1..m : at(i) \in S /\ Place(at(i), S, rank) = i
  BY <1>1
<1>3. s = [i \in 1..len |-> at(i)]
  BY DEF Firsts
<1>4. len \in Nat /\ 1..len \subseteq 1..m /\ len <= n /\ (len < n => len = m)
  BY <1>1
<1> HIDE DEF s, at, m, len
<1>5. s \in Seq(S) /\ Len(s) = len /\ DOMAIN s = 1..len
  BY <1>2, <1>3, <1>4
<1>6. ASSUME len < n
      PROVE  /\ \A i, j \in DOMAIN s : s[i] = s[j] => i = j
             /\ S = {s[i] : i \in DOMAIN s}
  <2>1. \A i \in 1..m : s[i] = at(i) /\ Place(s[i], S, rank) = i /\ s[i] \in S
    BY <1>2, <1>3, <1>4, <1>6
  <2>2. \A i, j \in 1..m : s[i] = s[j] => i = j
    BY <2>1
  <2>3. ASSUME NEW t \in S PROVE \E i \in 1..m : s[i] = t
    <3>1. Place(t, S, rank) \in 1..m /\ Place(s[Place(t, S, rank)], S, rank) = Place(t, S, rank)
      BY <1>1, <2>1
    <3> QED
      BY <1>1, <2>1, <3>1
  <2>4. len = m
    BY <1>4, <1>6
  <2> QED
    BY <1>5, <2>1, <2>2, <2>3, <2>4
<1> QED
  BY <1>4, <1>5, <1>6 DEF s, Whole

LEMMA ShortTuples ==
  /\ \A a, b, c \in Int : <<a, b, c>> \in Tuples(3) /\ <<a, b, c>>[3] = c
  /\ \A a, b, c, d \in Int : <<a, b, c, d>> \in Tuples(4) /\ <<a, b, c, d>>[4] = d
BY DEF Tuples

LEMMA SameIdSameRow ==
  ASSUME NEW t \in Pool, NEW u \in Pool, -t.id = -u.id
  PROVE  t = u
<1>1. t.id \in Int /\ u.id \in Int
  BY TreasuryAssumption
<1>2. t.id = u.id
  BY <1>1
<1> QED
  BY <1>2, TreasuryAssumption

LEMMA KeysAreNumbers ==
  ASSUME NEW t \in Pool
  PROVE  /\ -t.id \in Int /\ -t.day \in Int /\ t.amount \in Int
         /\ -Abs(t.amount) \in Int
BY TreasuryAssumption DEF Abs

LEMMA AmountRankIsOne ==
  /\ \A t \in Pool : AmountRank[t] \in Tuples(3)
  /\ \A t, u \in Pool : AmountRank[t] = AmountRank[u] => t = u
<1>1. ASSUME NEW t \in Pool PROVE AmountRank[t] \in Tuples(3) /\ AmountRank[t][3] = -t.id
  <2> DEFINE a == -Abs(t.amount)
             b == -t.day
             c == -t.id
  <2>1. a \in Int /\ b \in Int /\ c \in Int
    BY KeysAreNumbers
  <2>2. AmountRank[t] = <<a, b, c>>
    BY DEF AmountRank
  <2> HIDE DEF a, b
  <2> QED
    BY <2>1, <2>2, ShortTuples
<1> QED
  BY <1>1, SameIdSameRow

LEMMA ExpenseRankIsOne ==
  /\ \A t \in Pool : ExpenseRank[t] \in Tuples(3)
  /\ \A t, u \in Pool : ExpenseRank[t] = ExpenseRank[u] => t = u
<1>1. ASSUME NEW t \in Pool PROVE ExpenseRank[t] \in Tuples(3) /\ ExpenseRank[t][3] = -t.id
  <2> DEFINE a == t.amount
             b == -t.day
             c == -t.id
  <2>1. a \in Int /\ b \in Int /\ c \in Int
    BY KeysAreNumbers
  <2>2. ExpenseRank[t] = <<a, b, c>>
    BY DEF ExpenseRank
  <2> HIDE DEF a, b
  <2> QED
    BY <2>1, <2>2, ShortTuples
<1> QED
  BY <1>1, SameIdSameRow

LEMMA OverlapRankIsOne ==
  ASSUME NEW o \in Overlaps
  PROVE  /\ \A t \in Pool : OverlapRank(o)[t] \in Tuples(4)
         /\ \A t, u \in Pool : OverlapRank(o)[t] = OverlapRank(o)[u] => t = u
<1>1. ASSUME NEW t \in Pool
      PROVE  OverlapRank(o)[t] \in Tuples(4) /\ OverlapRank(o)[t][4] = -t.id
  <2> DEFINE a == -o[t.id]
             b == -Abs(t.amount)
             c == -t.day
             d == -t.id
  <2>1. a \in Int /\ b \in Int /\ c \in Int /\ d \in Int
    BY KeysAreNumbers, TreasuryAssumption
  <2>2. OverlapRank(o)[t] = <<a, b, c, d>>
    BY DEF OverlapRank
  <2> HIDE DEF a, b, c
  <2> QED
    BY <2>1, <2>2, ShortTuples
<1> QED
  BY <1>1, SameIdSameRow

(* The sources of an answer are rows that count, and all of them once when *)
(* no question narrowed the list and it is not cut.                        *)
LEMMA SourcesAreRows ==
  ASSUME NEW S \in SUBSET Pool, NEW day, NEW q \in Questions
  PROVE  LET s == SelectGroundingSources(S, day, q)
         IN  /\ s \in Seq(Counted(S, day))
             /\ q = NoQuestion /\ Len(s) < SourceLimit => Whole(s, Counted(S, day))
<1> DEFINE C == Counted(S, day)
           s == SelectGroundingSources(S, day, q)
           named == IF q.kind = "named" THEN {t \in C : q.overlap[t.id] > 0} ELSE {}
<1>0. SourceLimit \in Nat \ {0} /\ 3 \in Nat /\ 4 \in Nat
  BY TreasuryAssumption
<1>1. C \subseteq Pool /\ IsFiniteSet(C) /\ Expenses(S, day) \subseteq C
      /\ IsFiniteSet(Expenses(S, day))
  BY RowsOfMonth
<1>2. named \subseteq C /\ IsFiniteSet(named)
  BY <1>1, FS_Subset, FS_EmptySet
<1>3. s = IF q.kind = "largest" THEN Firsts(Expenses(S, day), ExpenseRank, RequestedCount(q.n))
          ELSE IF named # {} THEN Firsts(named, OverlapRank(q.overlap), SourceLimit)
          ELSE Firsts(C, AmountRank, SourceLimit)
  BY DEF SelectGroundingSources
<1>4. q.kind = "largest" => RequestedCount(q.n) \in Nat
  <2>1. q.kind = "largest" => q.n \in Int
    <3>1. q.kind = "largest" => q \in [kind : {"largest"}, n : Counts]
      BY DEF Questions, NoQuestion
    <3>2. Counts \subseteq Int
      BY TreasuryAssumption
    <3> QED
      BY <3>1, <3>2
  <2> QED
    BY <1>0, <2>1 DEF RequestedCount
<1>5. q.kind = "named" => q.overlap \in Overlaps
  BY DEF Questions, NoQuestion
<1>6. q = NoQuestion => q.kind = "none"
  BY DEF NoQuestion
<1> HIDE DEF s, named, C
<1>7. CASE q.kind = "largest"
  <2> DEFINE E == Expenses(S, day)
             n == RequestedCount(q.n)
  <2>1. s = Firsts(E, ExpenseRank, n) /\ n \in Nat
    BY <1>3, <1>4, <1>7
  <2>2. E \subseteq C /\ E \subseteq Pool /\ IsFiniteSet(E)
    BY <1>1
  <2> HIDE DEF E, n
  <2>3. Firsts(E, ExpenseRank, n) \in Seq(E)
    <3>1. /\ \A t \in E : ExpenseRank[t] \in Tuples(3)
          /\ \A t, u \in E : ExpenseRank[t] = ExpenseRank[u] => t = u
      BY <2>2, ExpenseRankIsOne
    <3> QED
      BY <1>0, <2>1, <2>2, <3>1, FirstsAreRows
  <2>4. s \in Seq(C)
    BY <2>1, <2>2, <2>3
  <2> QED
    BY <1>6, <1>7, <2>4 DEF s, C
<1>8. CASE q.kind # "largest" /\ named # {}
  <2>1. q.kind = "named" /\ q.overlap \in Overlaps
    BY <1>5, <1>8 DEF named
  <2> DEFINE rank == OverlapRank(q.overlap)
  <2>2. s = Firsts(named, rank, SourceLimit)
    BY <1>3, <1>8
  <2>3. /\ \A t \in named : rank[t] \in Tuples(4)
        /\ \A t, u \in named : rank[t] = rank[u] => t = u
    <3>1. named \subseteq Pool
      BY <1>1, <1>2
    <3>2. \A t \in Pool : rank[t] \in Tuples(4)
      BY <2>1, OverlapRankIsOne
    <3>3. \A t, u \in Pool : rank[t] = rank[u] => t = u
      BY <2>1, OverlapRankIsOne
    <3> QED
      BY <3>1, <3>2, <3>3
  <2> HIDE DEF rank
  <2>4. Firsts(named, rank, SourceLimit) \in Seq(named)
    BY <1>0, <1>2, <2>3, FirstsAreRows
  <2>5. s \in Seq(C)
    BY <1>2, <2>2, <2>4
  <2> QED
    BY <1>6, <2>1, <2>5 DEF s, C
<1>9. CASE q.kind # "largest" /\ named = {}
  <2>1. s = Firsts(C, AmountRank, SourceLimit)
    BY <1>3, <1>9
  <2>2. /\ \A t \in C : AmountRank[t] \in Tuples(3)
        /\ \A t, u \in C : AmountRank[t] = AmountRank[u] => t = u
    BY <1>1, AmountRankIsOne
  <2>3. /\ Firsts(C, AmountRank, SourceLimit) \in Seq(C)
        /\ Len(Firsts(C, AmountRank, SourceLimit)) < SourceLimit =>
             Whole(Firsts(C, AmountRank, SourceLimit), C)
    <3>1. SourceLimit \in Nat /\ 3 \in Nat
      BY <1>0
    <3> QED
      BY <1>1, <2>2, <3>1, FirstsAreRows
  <2> QED
    BY <2>1, <2>3 DEF s, C
<1> QED
  BY <1>7, <1>8, <1>9

LEMMA MonthSums ==
  ASSUME NEW S \in SUBSET Pool, NEW day
  PROVE  LET totals == MonthTotals(S, day)
         IN  /\ totals.month = Month(day)
             /\ totals.expenses = Sum(Spent, Expenses(S, day)) /\ totals.expenses \in Nat
             /\ totals.income = Sum(Amount, Counted(S, day) \ Expenses(S, day))
             /\ totals.income \in Nat
             /\ Sum(Amount, Counted(S, day)) = totals.income - totals.expenses
             /\ \A t \in Counted(S, day) :
                  t.amount <= totals.income /\ -t.amount <= totals.expenses
<1> DEFINE totals == MonthTotals(S, day)
           C == Counted(S, day)
           E == Expenses(S, day)
           I == C \ E
           out == Sum(Spent, E)
           inn == Sum(Amount, I)
<1>1. /\ C \subseteq Pool /\ E \subseteq C /\ IsFiniteSet(C) /\ IsFiniteSet(E)
      /\ \A t \in E : t.amount < 0
      /\ \A t \in I : t.amount >= 0
  BY RowsOfMonth
<1>2. totals.month = Month(day) /\ totals.expenses = out /\ totals.income = inn
  BY SumOfFunction DEF MonthTotals
<1> HIDE DEF C, E
<1>3. IsFiniteSet(I) /\ E \in SUBSET C /\ I \in SUBSET C
  BY <1>1, FS_Subset
<1>4. /\ \A t \in C : Amount[t] = t.amount /\ Spent[t] = -t.amount /\ t.amount \in Int
                      /\ Amount[t] \in Int /\ Spent[t] \in Int
  BY <1>1, AmountsTyped
<1>5. \A t \in E : Spent[t] \in Nat /\ Amount[t] \in Int /\ Spent[t] = -Amount[t]
  BY <1>1, <1>4
<1>6. \A t \in I : Amount[t] \in Nat
  BY <1>1, <1>3, <1>4
<1> HIDE DEF I, out, inn, totals
<1>7. out \in Nat
  BY <1>1, <1>5, SumNatural DEF out
<1>8. inn \in Nat
  BY <1>3, <1>6, SumNatural DEF inn
<1>9. Sum(Amount, C) = inn - out
  <2>1. Sum(Amount, C) = Sum(Amount, E) + Sum(Amount, C \ E)
    BY <1>1, <1>3, <1>4, SumOfPart
  <2>2. out = -Sum(Amount, E)
    BY <1>1, <1>5, SumOfMinus DEF out
  <2>3. Sum(Amount, E) \in Int
    BY <1>1, <1>5, SumTyped
  <2>4. Sum(Amount, C \ E) = inn
    BY DEF inn, I
  <2> QED
    BY <1>8, <2>1, <2>2, <2>3, <2>4
<1>10. ASSUME NEW t \in C PROVE t.amount <= inn /\ -t.amount <= out
  <2>1. CASE t \in E
    <3>1. Spent[t] <= out
      BY <1>1, <1>5, <2>1, SumCoversShare DEF out
    <3> QED
      BY <1>1, <1>4, <1>7, <1>8, <2>1, <3>1
  <2>2. CASE t \notin E
    <3>1. t \in I
      BY <2>2 DEF I
    <3>2. Amount[t] <= inn
      BY <1>3, <1>6, <3>1, SumCoversShare DEF inn
    <3>3. t.amount >= 0 /\ t.amount \in Int /\ Amount[t] = t.amount
      BY <1>1, <1>4, <3>1
    <3>4. -t.amount <= 0
      BY <3>3
    <3> QED
      BY <1>7, <1>8, <3>2, <3>3, <3>4
  <2> QED
    BY <2>1, <2>2
<1> QED
  BY <1>2, <1>7, <1>8, <1>9, <1>10 DEF totals, C, E, I, out, inn

LEMMA AmountsOfWhole ==
  ASSUME NEW S \in SUBSET Pool, NEW s \in Seq(S), Whole(s, S)
  PROVE  AmountsOf(s) = Sum(Amount, S)
<1> DEFINE P == DOMAIN s
           e == [i \in P |-> s[i].amount]
<1>1. P = 1..Len(s) /\ Len(s) \in Nat
  OBVIOUS
<1>2. IsFiniteSet(P)
  BY <1>1, FS_Interval
<1>3. \A i \in P : s[i] \in Pool /\ e[i] = Amount[s[i]] /\ Amount[s[i]] \in Int
  BY AmountsTyped
<1>4. AmountsOf(s) = SumFunctionOnSet(e, P)
  BY DEF AmountsOf, SumFunction
<1>5. (\A i, j \in P : s[i] = s[j] => i = j) /\ S = {s[i] : i \in P}
  BY DEF Whole
<1> HIDE DEF P, e
<1>6. Sum(e, P) = Sum(Amount, {s[i] : i \in P})
  <2>1. \A i \in P : Amount[s[i]] \in Int
    BY <1>3
  <2>2. \A i \in P : e[i] = Amount[s[i]]
    BY <1>3
  <2>3. \A i, j \in P : s[i] = s[j] => i = j
    BY <1>5
  <2> QED
    BY <1>2, <2>1, <2>2, <2>3, SumOverPlaces
<1> QED
  BY <1>4, <1>5, <1>6, SumOfFunction

-----------------------------------------------------------------------------
(* Which statements see only what a midnight inside a month leaves alone.  *)
Summed == {"overview", "tips", "chat"}
Steady == {"byBank", "balance", "totals", "categories", "banks", "name", "sources"}

LEMMA SameMonthSameAnswer ==
  ASSUME NEW S, NEW d, NEW e, Month(d) = Month(e), NEW q
  PROVE  /\ MonthTotals(S, d) = MonthTotals(S, e)
         /\ ExpensesByCategory(S, d) = ExpensesByCategory(S, e)
         /\ SelectGroundingSources(S, d, q) = SelectGroundingSources(S, e, q)
<1>1. InMonth(S, d) = InMonth(S, e)
  BY DEF InMonth
<1>2. Counted(S, d) = Counted(S, e)
  BY <1>1 DEF Counted
<1>3. Expenses(S, d) = Expenses(S, e)
  BY <1>2 DEF Expenses
<1>4. MonthTotals(S, d) = MonthTotals(S, e)
  BY <1>2, <1>3 DEF MonthTotals
<1>5. ExpensesByCategory(S, d) = ExpensesByCategory(S, e)
  BY <1>3 DEF ExpensesByCategory
<1>6. SelectGroundingSources(S, d, q) = SelectGroundingSources(S, e, q)
  BY <1>2, <1>3 DEF SelectGroundingSources
<1> QED
  BY <1>4, <1>5, <1>6

(* Every statement of a plan is answered or still to run, and what was     *)
(* answered holds while nothing was committed and the month went on.       *)
GetInv ==
  /\ get.kind \in Summed =>
       \A i \in DOMAIN Plans[get.kind] :
         \/ Plans[get.kind][i] \in DOMAIN get.got
         \/ \E j \in DOMAIN get.left : get.left[j] = Plans[get.kind][i]
  /\ ~grew /\ ~moved =>
       \A s \in Steady \cap DOMAIN get.got : get.got[s] = Reads(s, get.question)

(* Pages.  Every row above a position that was read has been shown, or as  *)
(* many of its day as there were at the start.                             *)
Newer(S, day) == Cardinality({t \in S : t.day > day})
RowsOf(S, day) == Cardinality({t \in S : t.day = day})
ShownOf(f, day) == SumFunctionOnSet(f, {x \in Pool : x.day = day})
ShownAbove(f, R, S, position) ==
  \A t \in R : \/ ShownOf(f, t.day) >= RowsOf(R, t.day)
              \/ ShownOf(f, t.day) >= position - Newer(S, t.day)
AllShown(f, R) == \A t \in R : ShownOf(f, t.day) >= RowsOf(R, t.day)
PageInv ==
  get.kind = "pages" /\ ~moved =>
    LET R == InMonth(start, today)
        S == InMonth(rows, today)
    IN  /\ start \subseteq rows /\ get.page # 0
        /\ get.left \in {<<"count", "page">>, <<"page">>, <<>>}
        /\ get.left = <<"page">> => get.got["count"] = Cardinality(S)
        /\ get.left # <<>> => ShownAbove(seen, R, S, Offset(get.page))
        /\ get.left = <<>> /\ MorePages => ShownAbove(seen, R, S, get.page * PageLimit)
        /\ get.left = <<>> /\ ~MorePages => AllShown(seen, R)

LEMMA TypeStarts == Init => TypeInv
<1>1. NoQuestion \in Questions /\ <<>> \in Seq(Statements)
  BY DEF Questions
<1>2. Unseen \in [Pool -> Nat]
  BY DEF Unseen
<1> QED
  <2> SUFFICES ASSUME Init PROVE TypeInv
    OBVIOUS
  <2>1. /\ DOMAIN get = {"kind", "left", "got", "question", "page"}
        /\ get.kind = "none" /\ get.left = <<>> /\ get.question = NoQuestion /\ get.page = 0
    BY DEF Init, Closed
  <2>2. /\ rows \subseteq Pool /\ held \in Holdings /\ today \in 1..LastDay
        /\ seen = Unseen /\ start = rows /\ grew = FALSE /\ moved = FALSE
    BY DEF Init
  <2> QED
    <3>1. get.left \in Seq(Statements) /\ get.question \in Questions /\ get.page \in Nat
      BY <1>1, <2>1
    <3>2. seen \in [Pool -> Nat] /\ start \subseteq Pool
      BY <1>2, <2>2
    <3>3. grew \in BOOLEAN /\ moved \in BOOLEAN
      BY <2>2
    <3> QED
      BY <2>1, <2>2, <3>1, <3>2, <3>3 DEF TypeInv

LEMMA PlansAreStatements ==
  /\ DOMAIN Plans = {"overview", "categories", "series", "tips", "chat", "pages"}
  /\ \A kind \in DOMAIN Plans : Plans[kind] \in Seq(Statements) /\ Plans[kind] # <<>>
  /\ Plans["pages"] = <<"count", "page">>
<1>1. DOMAIN Plans = {"overview", "categories", "series", "tips", "chat", "pages"}
  BY DEF Plans
<1>2. /\ Plans["overview"] = <<"byBank", "balance", "totals", "banks", "name">>
      /\ Plans["categories"] = <<"categories", "name">>
      /\ Plans["series"] = <<"series", "name">>
      /\ Plans["tips"] = <<"balance", "totals", "categories", "banks", "name", "sources">>
      /\ Plans["chat"] = <<"sources", "balance", "totals", "categories", "banks", "name">>
      /\ Plans["pages"] = <<"count", "page">>
  BY DEF Plans
<1>3. /\ <<"byBank", "balance", "totals", "banks", "name">> \in Seq(Statements)
      /\ <<"categories", "name">> \in Seq(Statements)
      /\ <<"series", "name">> \in Seq(Statements)
  BY DEF Statements
<1>4. /\ <<"balance", "totals", "categories", "banks", "name", "sources">> \in Seq(Statements)
      /\ <<"sources", "balance", "totals", "categories", "banks", "name">> \in Seq(Statements)
      /\ <<"count", "page">> \in Seq(Statements)
  BY DEF Statements
<1>5. \A kind \in DOMAIN Plans : Plans[kind] \in Seq(Statements)
  BY <1>1, <1>2, <1>3, <1>4
<1>6. \A kind \in DOMAIN Plans : Plans[kind] # <<>>
  BY <1>1, <1>2
<1> QED
  BY <1>1, <1>2, <1>5, <1>6

(* What each action leaves in the GET.                                     *)
LEMMA BeginGives ==
  ASSUME NEW kind \in DOMAIN Plans, Begin(kind)
  PROVE  /\ get'.kind = kind /\ get'.left = Plans[kind] /\ get'.got = <<>>
         /\ get'.question \in Questions /\ get'.page = 1
         /\ DOMAIN get' = {"kind", "left", "got", "question", "page"}
         /\ seen' = Unseen /\ start' = rows /\ grew' = FALSE /\ moved' = FALSE
         /\ UNCHANGED <<rows, held, today>>
<1>1. PICK q \in (IF kind = "chat" THEN Questions ELSE {NoQuestion}) :
        get' = [kind |-> kind, left |-> Plans[kind], got |-> <<>>, question |-> q, page |-> 1]
  BY DEF Begin
<1>2. q \in Questions
  BY DEF Questions
<1> QED
  BY <1>1, <1>2 DEF Begin, db

LEMMA ReadPageGives ==
  ASSUME TypeInv, ReadPage
  PROVE  /\ get.left # <<>> /\ Head(get.left) = "page" /\ get'.left = Tail(get.left)
         /\ get'.kind = get.kind /\ get'.got = get.got /\ get'.question = get.question
         /\ get'.page = get.page /\ DOMAIN get' = DOMAIN get
         /\ UNCHANGED <<rows, held, today, start, grew, moved>>
         /\ \E P \in PagesAt(InMonth(rows, today), Offset(get.page), PageLimit) :
              seen' = [t \in Pool |-> IF t \in P THEN seen[t] + 1 ELSE seen[t]]
BY DEF ReadPage, TypeInv, db, history

LEMMA NextPageGives ==
  ASSUME TypeInv, NextPage
  PROVE  /\ get.left = <<>> /\ MorePages /\ get'.left = <<"count", "page">>
         /\ get'.kind = get.kind /\ get'.got = get.got /\ get'.question = get.question
         /\ get'.page = get.page + 1 /\ DOMAIN get' = DOMAIN get
         /\ UNCHANGED <<rows, held, today, seen, start, grew, moved>>
BY PlansAreStatements DEF NextPage, TypeInv, db, history

LEMMA TypeStep == TypeInv /\ [Next]_vars => TypeInv'
<1> SUFFICES ASSUME TypeInv, [Next]_vars PROVE TypeInv'
  OBVIOUS
<1>1. ASSUME NEW kind \in DOMAIN Plans, Begin(kind) PROVE TypeInv'
  <2>1. Plans[kind] \in Seq(Statements)
    BY PlansAreStatements
  <2>2. Unseen \in [Pool -> Nat]
    BY DEF Unseen
  <2>3. get'.page \in Nat /\ get'.left \in Seq(Statements) /\ seen' \in [Pool -> Nat]
    <3>1. get'.page = 1 /\ get'.left = Plans[kind] /\ seen' = Unseen
      BY <1>1, BeginGives
    <3> QED
      BY <2>1, <2>2, <3>1
  <2> QED
    BY <1>1, <2>3, BeginGives DEF TypeInv
<1>2. CASE Read
  <2>1. get'.left \in Seq(Statements)
    <3>1. get'.left = Tail(get.left) /\ get.left # <<>>
      BY <1>2, ReadKeeps
    <3>2. get.left \in Seq(Statements)
      BY DEF TypeInv
    <3> QED
      BY <3>1, <3>2
  <2>2. UNCHANGED <<rows, held, today, seen, start, grew, moved>>
    BY <1>2 DEF Read, db, history
  <2> QED
    BY <1>2, <2>1, <2>2, ReadKeeps DEF TypeInv
<1>3. CASE ReadPage
  <2>1. PICK P : seen' = [t \in Pool |-> IF t \in P THEN seen[t] + 1 ELSE seen[t]]
    BY <1>3, ReadPageGives
  <2>2. seen' \in [Pool -> Nat]
    BY <2>1 DEF TypeInv
  <2>3. get'.left \in Seq(Statements)
    <3>1. get'.left = Tail(get.left) /\ get.left # <<>> /\ get.left \in Seq(Statements)
      BY <1>3, ReadPageGives DEF TypeInv
    <3> QED
      BY <3>1
  <2> QED
    BY <1>3, <2>2, <2>3, ReadPageGives DEF TypeInv
<1>4. CASE NextPage
  <2>1. <<"count", "page">> \in Seq(Statements)
    BY DEF Statements
  <2> QED
    <3>1. get'.left \in Seq(Statements) /\ get'.page \in Nat
      <4>1. get'.left = <<"count", "page">> /\ get'.page = get.page + 1 /\ get.page \in Nat
        BY <1>4, NextPageGives DEF TypeInv
      <4>2. get'.left \in Seq(Statements)
        BY <2>1, <4>1, Zenon
      <4> QED
        BY <4>1, <4>2
    <3> QED
      BY <1>4, <3>1, NextPageGives DEF TypeInv
<1>5. CASE SyncInserts
  BY <1>5 DEF SyncInserts, TypeInv
<1>6. CASE RowsChange
  BY <1>6 DEF RowsChange, TypeInv
<1>7. CASE Midnight
  <2>1. today' \in 1..LastDay /\ moved' \in BOOLEAN
    BY <1>7, TreasuryAssumption DEF Midnight, TypeInv
  <2> QED
    BY <1>7, <2>1 DEF Midnight, TypeInv
<1>8. CASE UNCHANGED vars
  BY <1>8 DEF vars, db, history, TypeInv
<1> QED
  BY <1>1, <1>2, <1>3, <1>4, <1>5, <1>6, <1>7, <1>8 DEF Next

LEMMA TypeAlways == Spec => []TypeInv
BY TypeStarts, TypeStep, PTL DEF Spec

-----------------------------------------------------------------------------
LEMMA GetStarts == Init => GetInv
BY DEF Init, Closed, GetInv, Summed

(* What is not the head of a list is in its tail.                          *)
LEMMA TailKeeps ==
  ASSUME NEW T, NEW s \in Seq(T), s # <<>>
  PROVE  \A j \in DOMAIN s :
           s[j] = Head(s) \/ \E k \in DOMAIN Tail(s) : Tail(s)[k] = s[j]
<1> SUFFICES ASSUME NEW j \in DOMAIN s, j # 1
             PROVE  \E k \in DOMAIN Tail(s) : Tail(s)[k] = s[j]
  OBVIOUS
<1>1. j - 1 \in DOMAIN Tail(s) /\ Tail(s)[j - 1] = s[j]
  OBVIOUS
<1> QED
  BY <1>1

LEMMA ReadsOfSameRows ==
  ASSUME UNCHANGED <<rows, held, today>>
  PROVE  \A u, q : Reads(u, q)' = Reads(u, q)
BY DEF Reads

LEMMA GetStep == TypeInv /\ GetInv /\ [Next]_vars => GetInv'
<1> SUFFICES ASSUME TypeInv, GetInv, [Next]_vars PROVE GetInv'
  OBVIOUS
<1>0. get.left \in Seq(Statements)
  BY DEF TypeInv
<1>1. ASSUME NEW kind \in DOMAIN Plans, Begin(kind) PROVE GetInv'
  <2>1. DOMAIN <<>> = {}
    OBVIOUS
  <2> QED
    BY <1>1, <2>1, BeginGives DEF GetInv
<1>2. CASE Read
  <2> DEFINE s == Head(get.left)
  <2>1. /\ DOMAIN get'.got = DOMAIN get.got \cup {s}
        /\ get'.got[s] = Reads(s, get.question)
        /\ \A u \in DOMAIN get.got \ {s} : get'.got[u] = get.got[u]
        /\ get'.left = Tail(get.left) /\ get.left # <<>>
        /\ get'.kind = get.kind /\ get'.question = get.question
    BY <1>2, ReadKeeps
  <2>2. UNCHANGED <<rows, held, today, grew, moved>>
    BY <1>2 DEF Read, db, history
  <2>3. \A j \in DOMAIN get.left :
          get.left[j] = s \/ \E k \in DOMAIN get'.left : get'.left[k] = get.left[j]
    BY <1>0, <2>1, TailKeeps
  <2> HIDE DEF s
  <2>4. ASSUME get.kind \in Summed, NEW i \in DOMAIN Plans[get.kind]
        PROVE  \/ Plans[get.kind][i] \in DOMAIN get'.got
               \/ \E j \in DOMAIN get'.left : get'.left[j] = Plans[get.kind][i]
    BY <2>1, <2>3, <2>4 DEF GetInv
  <2>5. \A u, q : Reads(u, q)' = Reads(u, q)
    BY <2>2, ReadsOfSameRows
  <2>6. ASSUME ~grew, ~moved, NEW u \in Steady \cap DOMAIN get'.got
        PROVE  get'.got[u] = Reads(u, get.question)
    BY <2>1, <2>6 DEF GetInv
  <2> QED
    BY <2>1, <2>2, <2>4, <2>5, <2>6 DEF GetInv
<1>3. CASE ReadPage
  <2>1. /\ get.left # <<>> /\ Head(get.left) = "page" /\ get'.left = Tail(get.left)
        /\ get'.kind = get.kind /\ get'.got = get.got /\ get'.question = get.question
        /\ UNCHANGED <<rows, held, today, grew, moved>>
    BY <1>3, ReadPageGives
  <2>2. ASSUME get.kind \in Summed PROVE \A i \in DOMAIN Plans[get.kind] :
          Plans[get.kind][i] # "page"
    BY <2>2 DEF Plans, Summed
  <2>3. \A j \in DOMAIN get.left :
          get.left[j] = "page" \/ \E k \in DOMAIN get'.left : get'.left[k] = get.left[j]
    BY <1>0, <2>1, TailKeeps
  <2>4. ASSUME get.kind \in Summed, NEW i \in DOMAIN Plans[get.kind]
        PROVE  \/ Plans[get.kind][i] \in DOMAIN get'.got
               \/ \E j \in DOMAIN get'.left : get'.left[j] = Plans[get.kind][i]
    BY <2>1, <2>2, <2>3, <2>4 DEF GetInv
  <2>5. \A u, q : Reads(u, q)' = Reads(u, q)
    BY <2>1, ReadsOfSameRows
  <2> QED
    BY <2>1, <2>4, <2>5 DEF GetInv
<1>4. CASE NextPage
  <2>1. /\ get'.kind = get.kind /\ get'.got = get.got /\ get'.question = get.question
        /\ get.kind \notin Summed /\ UNCHANGED <<rows, held, today, grew, moved>>
    BY <1>4, NextPageGives DEF MorePages, Summed
  <2>2. \A u, q : Reads(u, q)' = Reads(u, q)
    BY <2>1, ReadsOfSameRows
  <2> QED
    BY <2>1, <2>2 DEF GetInv
<1>5. CASE SyncInserts
  BY <1>5 DEF SyncInserts, GetInv
<1>6. CASE RowsChange
  BY <1>6 DEF RowsChange, GetInv
<1>7. CASE Midnight
  <2>1. /\ UNCHANGED <<rows, held, get, grew>> /\ today' = today + 1
        /\ ~moved' => ~moved /\ Month(today') = Month(today)
    BY <1>7 DEF Midnight
  <2>2. ASSUME Month(today') = Month(today), NEW u \in Steady, NEW q
        PROVE  Reads(u, q)' = Reads(u, q)
    <3>1. /\ MonthTotals(rows, today') = MonthTotals(rows, today)
          /\ ExpensesByCategory(rows, today') = ExpensesByCategory(rows, today)
          /\ SelectGroundingSources(rows, today', q) = SelectGroundingSources(rows, today, q)
      BY <2>2, SameMonthSameAnswer
    <3> QED
      BY <2>1, <2>2, <3>1 DEF Reads, Steady
  <2> QED
    BY <2>1, <2>2 DEF GetInv
<1>8. CASE UNCHANGED vars
  <2>1. UNCHANGED <<rows, held, today, get, grew, moved>>
    BY <1>8 DEF vars, db, history
  <2>2. \A u, q : Reads(u, q)' = Reads(u, q)
    BY <2>1, ReadsOfSameRows
  <2> QED
    BY <2>1, <2>2 DEF GetInv
<1> QED
  BY <1>1, <1>2, <1>3, <1>4, <1>5, <1>6, <1>7, <1>8 DEF Next

LEMMA GetAlways == Spec => []GetInv
BY TypeAlways, GetStarts, GetStep, PTL DEF Spec

(* A finished answer holds what each of its statements reads.              *)
LEMMA AnswerHolds ==
  ASSUME TypeInv, GetInv, get.left = <<>>, ~grew, ~moved,
         get.kind \in Summed
  PROVE  \A i \in DOMAIN Plans[get.kind] :
           Plans[get.kind][i] \in Steady =>
             /\ Plans[get.kind][i] \in DOMAIN get.got
             /\ get.got[Plans[get.kind][i]] = Reads(Plans[get.kind][i], get.question)
BY DEF GetInv

LEMMA OverviewHolds ==
  ASSUME TypeInv, GetInv, get.left = <<>>, ~grew, ~moved, get.kind = "overview"
  PROVE  OverviewAddsUp(get.got)
<1>1. Plans["overview"] = <<"byBank", "balance", "totals", "banks", "name">>
  BY DEF Plans
<1>2. \A i \in 1..5 : i \in DOMAIN Plans["overview"] /\ Plans["overview"][i] \in Steady
  BY <1>1 DEF Steady
<1>3. \A i \in 1..5 : get.got[Plans["overview"][i]] = Reads(Plans["overview"][i], get.question)
  BY <1>2, AnswerHolds DEF Summed
<1>4. /\ get.got["byBank"] = Reads("byBank", get.question)
      /\ get.got["balance"] = Reads("balance", get.question)
      /\ get.got["totals"] = Reads("totals", get.question)
      /\ get.got["banks"] = Reads("banks", get.question)
      /\ get.got["name"] = Reads("name", get.question)
  BY <1>1, <1>3
<1>5. /\ get.got.byBank = BalanceByConnection(UserAccounts(held))
      /\ get.got.balance = Balance(UserAccounts(held))
      /\ get.got.totals = MonthTotals(rows, today)
      /\ get.got.banks = held.connections
      /\ get.got.name = Month(today)
  BY <1>4 DEF Reads
<1>6. SumFunction(BankCards(held.connections, BalanceByConnection(UserAccounts(held))))
        = Balance(UserAccounts(held))
  BY CardsSum DEF TypeInv
<1>7. MonthTotals(rows, today).month = Month(today)
  BY DEF MonthTotals
<1> QED
  BY <1>5, <1>6, <1>7 DEF OverviewAddsUp

LEMMA PromptHolds ==
  ASSUME TypeInv, GetInv, get.left = <<>>, ~grew, ~moved, get.kind \in {"tips", "chat"}
  PROVE  PromptAddsUp(get.got)
<1> DEFINE plan == Plans[get.kind]
<1>1. \/ plan = <<"balance", "totals", "categories", "banks", "name", "sources">>
      \/ plan = <<"sources", "balance", "totals", "categories", "banks", "name">>
  BY DEF Plans
<1> HIDE DEF plan
<1>2. \A i \in 1..6 : i \in DOMAIN plan /\ plan[i] \in Steady
  BY <1>1 DEF Steady
<1>3. \A i \in 1..6 : get.got[plan[i]] = Reads(plan[i], get.question)
  BY <1>2, AnswerHolds DEF Summed, plan
<1>4. /\ get.got["totals"] = Reads("totals", get.question)
      /\ get.got["categories"] = Reads("categories", get.question)
      /\ get.got["name"] = Reads("name", get.question)
      /\ get.got["sources"] = Reads("sources", get.question)
  BY <1>1, <1>3
<1> DEFINE C == Counted(rows, today)
           totals == MonthTotals(rows, today)
           sources == SelectGroundingSources(rows, today, get.question)
<1>5. /\ get.got.totals = totals /\ get.got.name = Month(today)
      /\ get.got.categories = ExpensesByCategory(rows, today)
      /\ get.got.sources = sources
  BY <1>4 DEF Reads
<1>6. /\ totals.month = Month(today)
      /\ totals.expenses = Sum(Spent, Expenses(rows, today))
      /\ Sum(Amount, C) = totals.income - totals.expenses
      /\ \A t \in C : t.amount <= totals.income /\ -t.amount <= totals.expenses
  BY MonthSums DEF TypeInv
<1>7. \A L \in Ranked(ExpensesByCategory(rows, today)) :
        /\ TotalOf(ExpensesByCategory(rows, today), L) <= totals.expenses
        /\ Cardinality(DOMAIN ExpensesByCategory(rows, today)) <= CategoryLimit =>
             TotalOf(ExpensesByCategory(rows, today), L) = totals.expenses
  <2>1. rows \in SUBSET Pool
    BY DEF TypeInv
  <2>2. CategorySum(ExpensesByCategory(rows, today)) = totals.expenses
    BY <1>6, <2>1, CategoriesSum
  <2> HIDE DEF totals
  <2> QED
    BY <2>1, <2>2, ListedSum
<1>8. /\ sources \in Seq(C)
      /\ get.question = NoQuestion /\ Len(sources) < SourceLimit => Whole(sources, C)
  BY SourcesAreRows DEF TypeInv
<1>9. C \in SUBSET Pool /\ \A t \in C : Month(t.day) = Month(today)
  BY RowsOfMonth DEF TypeInv, Counted, InMonth
<1> HIDE DEF C, totals, sources
<1>10. Whole(sources, C) => AmountsOf(sources) = Sum(Amount, C)
  BY <1>8, <1>9, AmountsOfWhole
<1>11. \A i \in DOMAIN sources : sources[i] \in C
  BY <1>8
<1> QED
  BY <1>5, <1>6, <1>7, <1>8, <1>9, <1>10, <1>11 DEF PromptAddsUp

(* Whatever rows are committed, the overview's expenses are the sum of the *)
(* categories, and the last point of the series but for rows dated ahead.  *)
THEOREM TotalsAlwaysAgree == Spec => []TotalsAgree
BY TypeAlways, TotalsFit, PTL

(* An overview or a prompt that no commit and no month's end cut through   *)
(* adds up, whatever was asked and whatever connections and accounts are   *)
(* stored: its statements saw the same rows, the banks' cards sum to the   *)
(* balance, the listed categories do not pass the expenses and are those   *)
(* expenses unless cut, and the listed movements are rows of the totals,   *)
(* all of them when the list is not cut.                                   *)
THEOREM AnswersAlwaysAddUp == Spec => []AnswersAddUp
<1>1. TypeInv /\ GetInv => AnswersAddUp
  BY OverviewHolds, PromptHolds DEF AnswersAddUp
<1> QED
  BY <1>1, TypeAlways, GetAlways, PTL

-----------------------------------------------------------------------------
(* Counting the rows of a day.                                             *)
LEMMA DayCounts ==
  ASSUME NEW S \in SUBSET Pool, NEW day
  PROVE  /\ Newer(S, day) \in Nat /\ RowsOf(S, day) \in Nat
         /\ Cardinality(S) \in Nat
<1>1. IsFiniteSet(S)
  BY TreasuryAssumption, FS_Subset
<1> DEFINE A == {t \in S : t.day > day}
           B == {t \in S : t.day = day}
<1>2. IsFiniteSet(A) /\ IsFiniteSet(B)
  BY <1>1, FS_Subset
<1> HIDE DEF A, B
<1>3. Cardinality(A) \in Nat /\ Cardinality(B) \in Nat /\ Cardinality(S) \in Nat
  BY <1>1, <1>2, FS_CardinalityType
<1> QED
  BY <1>3 DEF Newer, RowsOf, A, B

LEMMA DaysFit ==
  ASSUME NEW S \in SUBSET Pool, NEW day \in Nat
  PROVE  Newer(S, day) + RowsOf(S, day) <= Cardinality(S)
<1> DEFINE A == {t \in S : t.day > day}
           B == {t \in S : t.day = day}
<1>1. IsFiniteSet(S) /\ \A t \in S : t.day \in Nat
  BY TreasuryAssumption, FS_Subset
<1>2. IsFiniteSet(A) /\ IsFiniteSet(B)
  BY <1>1, FS_Subset
<1>3. A \cap B = {} /\ A \cup B \in SUBSET S
  BY <1>1
<1>4. Newer(S, day) = Cardinality(A) /\ RowsOf(S, day) = Cardinality(B)
  BY DEF Newer, RowsOf
<1> HIDE DEF A, B
<1>5. Cardinality(A \cup B) = Cardinality(A) + Cardinality(B) - Cardinality(A \cap B)
  BY <1>2, FS_Union
<1>6. Cardinality(A \cup B) <= Cardinality(S)
  BY <1>1, <1>3, FS_Subset
<1>7. Cardinality(A \cap B) = 0 /\ Cardinality(A) \in Nat /\ Cardinality(B) \in Nat
  BY <1>2, <1>3, FS_EmptySet, FS_CardinalityType
<1> QED
  BY <1>4, <1>5, <1>6, <1>7

LEMMA MoreRowsMoreCounted ==
  ASSUME NEW S \in SUBSET Pool, NEW R \in SUBSET S, NEW day
  PROVE  Newer(R, day) <= Newer(S, day) /\ RowsOf(R, day) <= RowsOf(S, day)
<1>1. IsFiniteSet(S)
  BY TreasuryAssumption, FS_Subset
<1> DEFINE A == {t \in S : t.day > day}
           B == {t \in S : t.day = day}
           C == {t \in R : t.day > day}
           D == {t \in R : t.day = day}
<1>2. IsFiniteSet(A) /\ IsFiniteSet(B) /\ C \in SUBSET A /\ D \in SUBSET B
  BY <1>1, FS_Subset
<1> HIDE DEF A, B, C, D
<1>3. Cardinality(C) <= Cardinality(A) /\ Cardinality(D) <= Cardinality(B)
  BY <1>2, FS_Subset
<1> QED
  BY <1>3 DEF Newer, RowsOf, A, B, C, D

LEMMA ShownGrows ==
  ASSUME NEW f \in [Pool -> Nat], NEW P \in SUBSET Pool, NEW day,
         NEW g, g = [t \in Pool |-> IF t \in P THEN f[t] + 1 ELSE f[t]]
  PROVE  /\ ShownOf(f, day) \in Nat
         /\ ShownOf(g, day) = ShownOf(f, day) + RowsOf(P, day)
<1> DEFINE T == {x \in Pool : x.day = day}
<1>1. IsFiniteSet(T) /\ T \in SUBSET Pool
  BY TreasuryAssumption, FS_Subset
<1>2. {t \in P : t.day = day} = T \cap P
  OBVIOUS
<1>3. ShownOf(f, day) = Sum(f, T) /\ ShownOf(g, day) = Sum(g, T)
  BY SumOfFunction DEF ShownOf
<1>4. RowsOf(P, day) = Cardinality(T \cap P)
  BY <1>2 DEF RowsOf
<1> HIDE DEF T
<1>5. /\ \A x \in T : f[x] \in Int /\ f[x] \in Nat
      /\ \A x \in T : f[x] \in Int /\ g[x] = IF x \in P THEN f[x] + 1 ELSE f[x]
  BY <1>1
<1>6. Sum(f, T) \in Nat
  BY <1>1, <1>5, SumNatural
<1>7. Sum(g, T) = Sum(f, T) + Cardinality(T \cap P)
  BY <1>1, <1>5, SumOneMore
<1> QED
  BY <1>3, <1>4, <1>6, <1>7

(* One page brings what of a day falls on its positions.                   *)
LEMMA OnePage ==
  ASSUME NEW shown \in Nat, NEW first \in Nat, NEW newer \in Nat, NEW count \in Nat,
         NEW m \in Nat, NEW limit \in Nat, first <= count,
         shown >= first \/ shown >= m - newer,
         NEW more, more =
           Clip(IF newer > m THEN newer ELSE m,
                IF newer + count < m + limit THEN newer + count ELSE m + limit)
  PROVE  shown + more >= first \/ shown + more >= (m + limit) - newer
BY DEF Clip

LEMMA PositionsAdd ==
  ASSUME NEW page \in Nat
  PROVE  /\ Offset(page) + PageLimit = page * PageLimit
         /\ Offset(page + 1) = page * PageLimit
         /\ page \in Nat \ {0} => Offset(page) \in Nat
         /\ page * PageLimit \in Nat
<1>1. PageLimit \in Nat
  BY TreasuryAssumption
<1>2. (page - 1) * PageLimit + PageLimit = page * PageLimit /\ page * PageLimit \in Nat
  BY <1>1, SMTT(30)
<1>3. (page + 1) - 1 = page
  OBVIOUS
<1>4. page \in Nat \ {0} => (page - 1) * PageLimit \in Nat
  BY <1>1, SMTT(30)
<1> QED
  BY <1>2, <1>3, <1>4 DEF Offset

(* The rows of a month: sets of rows, a larger one for more rows.          *)
LEMMA MonthGrows ==
  ASSUME NEW S \in SUBSET Pool, NEW R \in SUBSET S, NEW day
  PROVE  InMonth(R, day) \subseteq InMonth(S, day) /\ InMonth(S, day) \in SUBSET Pool
BY DEF InMonth

LEMMA ShownIsNumber ==
  ASSUME NEW f \in [Pool -> Nat], NEW day
  PROVE  ShownOf(f, day) \in Nat
<1> DEFINE g == [t \in Pool |-> IF t \in {} THEN f[t] + 1 ELSE f[t]]
<1>1. {} \in SUBSET Pool /\ g = [t \in Pool |-> IF t \in {} THEN f[t] + 1 ELSE f[t]]
  OBVIOUS
<1> HIDE DEF g
<1> QED
  BY <1>1, ShownGrows

(* What a sync inserts moves rows to later positions only.                 *)
LEMMA AboveStays ==
  ASSUME NEW f \in [Pool -> Nat], NEW S \in SUBSET Pool, NEW T \in SUBSET S,
         NEW R \in SUBSET Pool, NEW position \in Nat, ShownAbove(f, R, T, position)
  PROVE  ShownAbove(f, R, S, position)
<1> SUFFICES ASSUME NEW t \in R
             PROVE  \/ ShownOf(f, t.day) >= RowsOf(R, t.day)
                    \/ ShownOf(f, t.day) >= position - Newer(S, t.day)
  BY DEF ShownAbove
<1>1. \/ ShownOf(f, t.day) >= RowsOf(R, t.day)
      \/ ShownOf(f, t.day) >= position - Newer(T, t.day)
  BY DEF ShownAbove
<1>2. T \in SUBSET Pool /\ Newer(T, t.day) <= Newer(S, t.day)
  BY MoreRowsMoreCounted
<1>3. Newer(T, t.day) \in Nat /\ Newer(S, t.day) \in Nat /\ ShownOf(f, t.day) \in Nat
  BY <1>2, DayCounts, ShownIsNumber
<1> QED
  BY <1>1, <1>2, <1>3

(* A page that begins at a position shows all up to the next one.          *)
LEMMA PageShows ==
  ASSUME NEW f \in [Pool -> Nat], NEW S \in SUBSET Pool, NEW R \in SUBSET S,
         NEW position \in Nat, ShownAbove(f, R, S, position),
         NEW P \in PagesAt(S, position, PageLimit),
         NEW g, g = [t \in Pool |-> IF t \in P THEN f[t] + 1 ELSE f[t]]
  PROVE  ShownAbove(g, R, S, position + PageLimit)
<1> SUFFICES ASSUME NEW t \in R
             PROVE  \/ ShownOf(g, t.day) >= RowsOf(R, t.day)
                    \/ ShownOf(g, t.day) >= (position + PageLimit) - Newer(S, t.day)
  BY DEF ShownAbove
<1> DEFINE d == t.day
           newer == Newer(S, d)
           count == RowsOf(S, d)
           first == RowsOf(R, d)
           shown == ShownOf(f, d)
           more == RowsOf(P, d)
<1>1. PageLimit \in Nat
  BY TreasuryAssumption
<1>2. R \in SUBSET Pool /\ P \in SUBSET Pool
  BY DEF PagesAt
<1>3. newer \in Nat /\ count \in Nat /\ first \in Nat /\ shown \in Nat
  BY <1>2, DayCounts, ShownIsNumber
<1>4. first <= count
  BY MoreRowsMoreCounted
<1>5. shown >= first \/ shown >= position - newer
  BY DEF ShownAbove
<1>6. more = OfDay(S, d, position, PageLimit)
  BY DEF PagesAt, RowsOf
<1>7. more = Clip(IF newer > position THEN newer ELSE position,
                  IF newer + count < position + PageLimit THEN newer + count
                  ELSE position + PageLimit)
  BY <1>6 DEF OfDay, Newer, RowsOf
<1>8. ShownOf(g, d) = shown + more
  BY <1>2, ShownGrows
<1> HIDE DEF d, newer, count, first, shown, more
<1>9. shown + more >= first \/ shown + more >= (position + PageLimit) - newer
  BY <1>1, <1>3, <1>4, <1>5, <1>7, OnePage
<1> QED
  BY <1>8, <1>9 DEF d, newer, first

(* Nothing is left below the last position.                                *)
LEMMA LastPageShows ==
  ASSUME NEW f \in [Pool -> Nat], NEW S \in SUBSET Pool, NEW R \in SUBSET S,
         NEW position \in Nat, ShownAbove(f, R, S, position), position >= Cardinality(S)
  PROVE  AllShown(f, R)
<1> SUFFICES ASSUME NEW t \in R PROVE ShownOf(f, t.day) >= RowsOf(R, t.day)
  BY DEF AllShown
<1>1. \/ ShownOf(f, t.day) >= RowsOf(R, t.day)
      \/ ShownOf(f, t.day) >= position - Newer(S, t.day)
  BY DEF ShownAbove
<1>2. R \in SUBSET Pool /\ t \in Pool /\ t.day \in Nat
  BY TreasuryAssumption
<1>3. Newer(S, t.day) + RowsOf(S, t.day) <= Cardinality(S)
  BY <1>2, DaysFit
<1>4. RowsOf(R, t.day) <= RowsOf(S, t.day)
  BY MoreRowsMoreCounted
<1>5. /\ Newer(S, t.day) \in Nat /\ RowsOf(S, t.day) \in Nat /\ RowsOf(R, t.day) \in Nat
      /\ ShownOf(f, t.day) \in Nat /\ Cardinality(S) \in Nat
  BY <1>2, DayCounts, ShownIsNumber
<1> QED
  BY <1>1, <1>3, <1>4, <1>5

LEMMA PageStarts == Init => PageInv
BY DEF Init, Closed, PageInv

LEMMA PageBegins ==
  ASSUME TypeInv, NEW kind \in DOMAIN Plans, Begin(kind)
  PROVE  PageInv'
<1> SUFFICES ASSUME kind = "pages" PROVE PageInv'
  BY BeginGives DEF PageInv
<1>1. /\ get'.left = <<"count", "page">> /\ get'.page = 1 /\ seen' = Unseen
      /\ start' = rows /\ rows' = rows /\ today' = today
  BY BeginGives, PlansAreStatements
<1> DEFINE S == InMonth(rows, today)
<1>2. S \in SUBSET Pool
  BY DEF InMonth, TypeInv
<1>3. Offset(1) = 0
  BY PositionsAdd, TreasuryAssumption DEF Offset
<1>4. Unseen \in [Pool -> Nat]
  BY DEF Unseen
<1> HIDE DEF S
<1>5. ShownAbove(Unseen, S, S, 0)
  <2> SUFFICES ASSUME NEW t \in S
               PROVE  ShownOf(Unseen, t.day) >= 0 - Newer(S, t.day)
    BY DEF ShownAbove
  <2>1. ShownOf(Unseen, t.day) \in Nat /\ Newer(S, t.day) \in Nat
    BY <1>2, <1>4, ShownIsNumber, DayCounts
  <2> QED
    BY <2>1
<1> QED
  BY <1>1, <1>3, <1>5 DEF PageInv, S

LEMMA PageStep == TypeInv /\ PageInv /\ [Next]_vars => PageInv'
<1> SUFFICES ASSUME TypeInv, PageInv, [Next]_vars, get'.kind = "pages", ~moved'
             PROVE  PageInv'
  BY DEF PageInv
<1> DEFINE R == InMonth(start, today)
           S == InMonth(rows, today)
<1>0. ASSUME get.kind = "pages", ~moved
      PROVE  /\ R \in SUBSET S /\ S \in SUBSET Pool /\ seen \in [Pool -> Nat]
             /\ get.page \in Nat \ {0} /\ get.page * PageLimit \in Nat
             /\ Offset(get.page) \in Nat
             /\ Offset(get.page) + PageLimit = get.page * PageLimit
             /\ Offset(get.page + 1) = get.page * PageLimit
  <2>1. R \in SUBSET S /\ S \in SUBSET Pool /\ seen \in [Pool -> Nat]
    BY <1>0, MonthGrows DEF PageInv, TypeInv
  <2>2. get.page \in Nat \ {0}
    BY <1>0 DEF PageInv, TypeInv
  <2> QED
    BY <2>1, <2>2, PositionsAdd
<1>9. PageInv' <=>
        /\ start' \subseteq rows' /\ get'.page # 0
        /\ get'.left \in {<<"count", "page">>, <<"page">>, <<>>}
        /\ get'.left = <<"page">> => get'.got["count"] = Cardinality(S')
        /\ get'.left # <<>> => ShownAbove(seen', R', S', Offset(get'.page))
        /\ get'.left = <<>> /\ MorePages' => ShownAbove(seen', R', S', get'.page * PageLimit)
        /\ get'.left = <<>> /\ ~MorePages' => AllShown(seen', R')
  BY DEF PageInv
<1>1. ASSUME NEW kind \in DOMAIN Plans, Begin(kind) PROVE PageInv'
  BY <1>1, PageBegins
<1>2. CASE Read
  <2>1. /\ get'.left = Tail(get.left) /\ get.left # <<>> /\ Head(get.left) # "page"
        /\ get'.got[Head(get.left)] = Reads(Head(get.left), get.question)
        /\ get'.kind = get.kind /\ get'.page = get.page
        /\ UNCHANGED <<rows, held, today, seen, start, grew, moved>>
    BY <1>2, ReadKeeps DEF Read, db, history
  <2>2. get.left = <<"count", "page">>
    BY <2>1 DEF PageInv
  <2>3. get'.left = <<"page">> /\ Head(get.left) = "count"
    BY <2>1, <2>2
  <2>4. get'.got["count"] = Cardinality(S)
    BY <2>1, <2>3 DEF Reads
  <2>5. ShownAbove(seen, R, S, Offset(get.page)) /\ start \subseteq rows /\ get.page # 0
    BY <2>1, <2>2 DEF PageInv
  <2>6. R' = R /\ S' = S
    BY <2>1
  <2>7. get'.left # <<>> /\ get'.left \in {<<"count", "page">>, <<"page">>, <<>>}
    BY <2>3
  <2> HIDE DEF R, S
  <2> QED
    BY <1>9, <2>1, <2>4, <2>5, <2>6, <2>7
<1>3. CASE ReadPage
  <2>1. /\ get.left # <<>> /\ Head(get.left) = "page" /\ get'.left = Tail(get.left)
        /\ get'.kind = get.kind /\ get'.got = get.got /\ get'.page = get.page
        /\ UNCHANGED <<rows, held, today, start, grew, moved>>
    BY <1>3, ReadPageGives
  <2>2. PICK P \in PagesAt(S, Offset(get.page), PageLimit) :
          seen' = [t \in Pool |-> IF t \in P THEN seen[t] + 1 ELSE seen[t]]
    BY <1>3, ReadPageGives
  <2>3. /\ get.kind = "pages" /\ ~moved /\ start \subseteq rows
        /\ get.left = <<"page">> /\ get.got["count"] = Cardinality(S)
        /\ ShownAbove(seen, R, S, Offset(get.page))
    <3>1. get.left \in {<<"count", "page">>, <<"page">>, <<>>}
      BY <2>1 DEF PageInv
    <3>2. get.left = <<"page">>
      BY <2>1, <3>1
    <3> QED
      BY <2>1, <3>2 DEF PageInv
  <2>4. get'.left = <<>>
    BY <2>1, <2>3
  <2>5. ShownAbove(seen', R, S, get.page * PageLimit)
    <3>1. /\ R \in SUBSET S /\ S \in SUBSET Pool /\ seen \in [Pool -> Nat]
          /\ Offset(get.page) \in Nat
          /\ Offset(get.page) + PageLimit = get.page * PageLimit
      BY <1>0, <2>3
    <3> HIDE DEF R, S
    <3>2. ShownAbove(seen', R, S, Offset(get.page) + PageLimit)
      BY <2>2, <2>3, <3>1, PageShows
    <3> QED
      BY <3>1, <3>2
  <2>6. seen' \in [Pool -> Nat]
    BY TypeStep DEF TypeInv
  <2>7. get.page * PageLimit >= Cardinality(S) => AllShown(seen', R)
    <3>1. /\ R \in SUBSET S /\ S \in SUBSET Pool /\ get.page * PageLimit \in Nat
      BY <1>0, <2>3
    <3> HIDE DEF R, S
    <3> QED
      BY <2>5, <2>6, <3>1, LastPageShows
  <2>8. ~MorePages' => get.page * PageLimit >= Cardinality(S)
    <3>1. S \in SUBSET Pool /\ get.page * PageLimit \in Nat
      BY <1>0, <2>3
    <3>2. Cardinality(S) \in Nat
      BY <3>1, DayCounts
    <3>3. MorePages' <=> get.page * PageLimit < Cardinality(S)
      BY <2>1, <2>3 DEF MorePages
    <3> HIDE DEF S
    <3> QED
      BY <3>1, <3>2, <3>3
  <2>9. R' = R /\ S' = S /\ get'.page # 0 /\ start' \subseteq rows'
    BY <2>1, <2>3 DEF PageInv
  <2> QED
    <3>1. get'.left # <<"page">>
      BY <2>4
    <3> HIDE DEF R, S
    <3> QED
      BY <1>9, <2>1, <2>4, <2>5, <2>7, <2>8, <2>9, <3>1
<1>4. CASE NextPage
  <2>1. /\ get.left = <<>> /\ MorePages /\ get'.left = <<"count", "page">>
        /\ get'.kind = get.kind /\ get'.page = get.page + 1
        /\ UNCHANGED <<rows, today, seen, start, moved>>
    BY <1>4, NextPageGives
  <2>2. ShownAbove(seen, R, S, get.page * PageLimit) /\ start \subseteq rows
    BY <2>1 DEF PageInv
  <2>3. Offset(get'.page) = get.page * PageLimit /\ get'.page # 0
    BY <1>0, <2>1
  <2> QED
    BY <2>1, <2>2, <2>3 DEF PageInv
<1>5. CASE SyncInserts
  <2>1. /\ UNCHANGED <<today, get, seen, start>> /\ ~moved /\ get.kind = "pages"
        /\ get.left # <<"page">> /\ rows \subseteq rows' /\ rows' \subseteq Pool
    BY <1>5 DEF SyncInserts, TypeInv
  <2>2. S' \in SUBSET Pool /\ S \in SUBSET S' /\ R \in SUBSET Pool /\ R' = R
    BY <1>0, <2>1 DEF InMonth
  <2>3. ASSUME NEW position \in Nat, ShownAbove(seen, R, S, position)
        PROVE  ShownAbove(seen, R, S', position)
    <3>1. seen \in [Pool -> Nat]
      BY DEF TypeInv
    <3> HIDE DEF R, S
    <3> QED
      BY <2>2, <2>3, <3>1, AboveStays
  <2>4. get.page * PageLimit \in Nat /\ Offset(get.page) \in Nat
    BY <1>0, <2>1
  <2>5. MorePages' <=> MorePages
    BY <2>1 DEF MorePages
  <2>6. /\ start \subseteq rows /\ get.page # 0
        /\ get.left \in {<<"count", "page">>, <<>>}
        /\ get.left # <<>> => ShownAbove(seen, R, S, Offset(get.page))
        /\ get.left = <<>> /\ MorePages => ShownAbove(seen, R, S, get.page * PageLimit)
        /\ get.left = <<>> /\ ~MorePages => AllShown(seen, R)
    BY <2>1 DEF PageInv
  <2>7. /\ get.left # <<>> => ShownAbove(seen, R, S', Offset(get.page))
        /\ get.left = <<>> /\ MorePages => ShownAbove(seen, R, S', get.page * PageLimit)
    BY <2>3, <2>4, <2>6
  <2> HIDE DEF R, S
  <2> QED
    BY <2>1, <2>2, <2>5, <2>6, <2>7 DEF PageInv, R, S
<1>6. CASE RowsChange
  BY <1>6 DEF RowsChange
<1>7. CASE Midnight
  <2>1. /\ UNCHANGED <<rows, get, seen, start>> /\ ~moved /\ Month(today') = Month(today)
    BY <1>7 DEF Midnight
  <2>2. R' = R /\ S' = S /\ (MorePages' <=> MorePages)
    BY <2>1 DEF InMonth, MorePages
  <2> QED
    BY <2>1, <2>2 DEF PageInv
<1>8. CASE UNCHANGED vars
  <2>1. UNCHANGED <<rows, today, get, seen, start, moved>> /\ (MorePages' <=> MorePages)
    BY <1>8 DEF vars, db, history, MorePages
  <2> QED
    BY <2>1 DEF PageInv
<1> QED
  BY <1>1, <1>2, <1>3, <1>4, <1>5, <1>6, <1>7, <1>8 DEF Next

LEMMA PageAlways == Spec => []PageInv
BY TypeAlways, PageStarts, PageStep, PTL DEF Spec

LEMMA ShownMeansNoLoss == TypeInv /\ PageInv => PagesLoseOnlyTies
<1> SUFFICES ASSUME TypeInv, PageInv, get.kind = "pages", get.left = <<>>, ~MorePages,
                    ~moved, NEW t \in InMonth(start, today)
             PROVE  SumFunctionOnSet(seen, {x \in Pool : x.day = t.day})
                      >= Cardinality({x \in start : x.day = t.day})
  BY DEF PagesLoseOnlyTies
<1> DEFINE R == InMonth(start, today)
<1>1. ShownOf(seen, t.day) >= RowsOf(R, t.day)
  BY DEF PageInv, AllShown
<1>2. {x \in R : x.day = t.day} = {x \in start : x.day = t.day}
  BY DEF InMonth
<1> QED
  BY <1>1, <1>2 DEF ShownOf, RowsOf

(* A reader of the pages who reads on until the count is reached is shown  *)
(* of each day at least as many items as the day had rows, although the    *)
(* order within a day is free and a sync may insert rows between pages.    *)
THEOREM PagesAlwaysLoseOnlyTies == Spec => []PagesLoseOnlyTies
BY TypeAlways, PageAlways, ShownMeansNoLoss, PTL
=============================================================================
