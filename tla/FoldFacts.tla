----------------------------- MODULE FoldFacts -----------------------------
(***************************************************************************)
(* Sums over finite sets and the ends of sets of numbers: what proofs by   *)
(* a smallest counterexample need.                                         *)
(***************************************************************************)
EXTENDS Integers, FiniteSetsExt, Functions, FiniteSetTheorems, WellFoundedInduction, TLAPS

LEMMA LeastNumber ==
  ASSUME NEW S \in SUBSET Nat, S # {}
  PROVE  \E k \in S : \A j \in S : k <= j
<1>1. \E k \in S : \A j \in S : <<j, k>> \notin OpToRel(<, Nat)
  BY NatLessThanWellFounded, WFMin
<1>2. PICK k \in S : \A j \in S : <<j, k>> \notin OpToRel(<, Nat)
  BY <1>1
<1>3. ASSUME NEW j \in S PROVE k <= j
  <2>1. j \in Nat /\ k \in Nat
    OBVIOUS
  <2>2. ~(j < k)
    BY <1>2, <2>1 DEF OpToRel
  <2> QED
    BY <2>1, <2>2
<1> QED
  BY <1>3

(* A set of positions that is not empty has a last one.                    *)
LEMMA LastPosition ==
  ASSUME NEW n \in Nat, NEW rows \in SUBSET (1..n), rows # {}
  PROVE  /\ \E k \in rows : \A j \in rows : j <= k
         /\ Max(rows) \in rows /\ \A j \in rows : j <= Max(rows)
<1> DEFINE distances == {n - k : k \in rows}
<1>a. \A k \in rows : k \in 1..n /\ n - k \in Nat
  OBVIOUS
<1>1. distances \subseteq Nat /\ distances # {}
  BY <1>a, Zenon
<1>2. \E x \in distances : \A y \in distances : x <= y
  BY <1>1, LeastNumber
<1>3. PICK k \in rows : \A j \in rows : n - k <= n - j
  BY <1>2
<1>4. \A j \in rows : j <= k
  BY <1>a, <1>3
<1>5. \A j \in rows : k >= j
  BY <1>a, <1>4
<1>6. Max(rows) \in rows /\ \A j \in rows : Max(rows) >= j
  BY <1>5 DEF Max
<1>7. \A j \in rows : j <= Max(rows)
  BY <1>a, <1>6
<1> QED
  BY <1>4, <1>6, <1>7

(* A finite set outside of which a property of sets holds has a smallest   *)
(* subset with that property.                                              *)
LEMMA SmallestSet ==
  ASSUME NEW S, IsFiniteSet(S), NEW bad \in SUBSET SUBSET S, bad # {}
  PROVE  \E U \in bad : IsFiniteSet(U) /\ \A x \in U : U \ {x} \notin bad
<1>1. bad \subseteq FiniteSubsetsOf(S)
  BY FS_FiniteSubsetsOfFinite
<1>2. PICK U \in bad : \A V \in bad : <<V, U>> \notin StrictSubsetOrdering(S)
  BY <1>1, FS_StrictSubsetOrderingWellFounded, WFMin
<1>3. ASSUME NEW x \in U PROVE U \ {x} \notin bad
  <2>1. <<U \ {x}, U>> \in StrictSubsetOrdering(S)
    BY DEF StrictSubsetOrdering
  <2> QED
    BY <1>2, <2>1
<1> QED
  BY <1>3, FS_Subset

LEMMA LargestNumber ==
  ASSUME NEW S \in SUBSET Int, IsFiniteSet(S), S # {}
  PROVE  Max(S) \in S /\ \A j \in S : j <= Max(S)
<1> DEFINE bad == {U \in SUBSET S : U # {} /\ \A k \in U : \E j \in U : ~(j <= k)}
<1>1. ASSUME bad # {} PROVE FALSE
  <2>a. bad \in SUBSET SUBSET S
    OBVIOUS
  <2>1. PICK U \in bad : \A x \in U : U \ {x} \notin bad
    <3> HIDE DEF bad
    <3> QED
      BY <1>1, <2>a, SmallestSet
  <2>2. PICK x \in U : TRUE
    BY <2>1
  <2>3. U \in SUBSET S /\ \A k \in U : k \in Int /\ \E j \in U : ~(j <= k)
    BY <2>1
  <2>4. CASE U = {x}
    <3>1. x <= x
      BY <2>3
    <3> QED
      BY <2>3, <2>4, <3>1
  <2>5. CASE U # {x}
    <3>1. U \ {x} # {} /\ U \ {x} \in SUBSET S /\ U \ {x} \notin bad
      BY <2>1, <2>2, <2>5
    <3>2. PICK k \in U \ {x} : \A j \in U \ {x} : j <= k
      BY <3>1
    <3>3. k \in Int /\ x \in Int
      BY <2>2, <2>3, <3>2
    <3>4. CASE x <= k
      BY <2>3, <3>2, <3>4
    <3>5. CASE ~(x <= k)
      <4>1. \A j \in U \ {x} : j \in Int /\ j <= x
        BY <2>3, <3>2, <3>3, <3>5
      <4>2. \A j \in U : j <= x
        BY <3>3, <4>1
      <4> QED
        BY <2>2, <2>3, <4>2
    <3> QED
      BY <3>4, <3>5
  <2> QED
    BY <2>4, <2>5
<1>2. PICK k \in S : \A j \in S : j <= k
  BY <1>1
<1>3. \A j \in S : k >= j
  BY <1>2
<1>4. Max(S) \in S /\ \A j \in S : Max(S) >= j
  BY <1>3 DEF Max
<1> QED
  BY <1>4

-----------------------------------------------------------------------------
(* Sums.  The recursion MapThenSumSet stands for has one solution.         *)
Some(U) == CHOOSE x \in U : TRUE

Value(f, g, U) == IF U = {} THEN 0 ELSE f[Some(U)] + g[U \ {Some(U)}]

SumsUp(f, T, g) == g = [U \in SUBSET T |-> Value(f, g, U)]

Sum(f, T) == (CHOOSE g : SumsUp(f, T, g))[T]

LEMMA SumsUpAt ==
  ASSUME NEW f, NEW T, NEW g, SumsUp(f, T, g), NEW U \in SUBSET T
  PROVE  g[U] = Value(f, g, U)
BY DEF SumsUp

LEMMA SomeIsOne ==
  ASSUME NEW U, U # {}
  PROVE  Some(U) \in U
BY DEF Some

LEMMA SumsAgree ==
  ASSUME NEW f, NEW T, NEW g, SumsUp(f, T, g), NEW h, NEW R,
         NEW e, SumsUp(e, R, h), R \subseteq T, IsFiniteSet(R), \A x \in R : f[x] = e[x]
  PROVE  \A U \in SUBSET R : g[U] = h[U]
<1> DEFINE bad == {U \in SUBSET R : g[U] # h[U]}
<1>1. ASSUME bad # {} PROVE FALSE
  <2>1. PICK U \in bad : \A x \in U : U \ {x} \notin bad
    BY <1>1, SmallestSet
  <2>a. U \in SUBSET R /\ U \in SUBSET T
    OBVIOUS
  <2>b. g[U] = Value(f, g, U) /\ h[U] = Value(e, h, U)
    BY <2>a, SumsUpAt
  <2>2. /\ g[U] = IF U = {} THEN 0 ELSE f[Some(U)] + g[U \ {Some(U)}]
        /\ h[U] = IF U = {} THEN 0 ELSE e[Some(U)] + h[U \ {Some(U)}]
    BY <2>b DEF Value
  <2>3. U # {}
    BY <2>1, <2>2
  <2>4. Some(U) \in U /\ g[U \ {Some(U)}] = h[U \ {Some(U)}]
    BY <2>1, <2>3, SomeIsOne
  <2> QED
    BY <2>1, <2>2, <2>3, <2>4
<1> QED
  BY <1>1

LEMMA SumsUpExist ==
  ASSUME NEW f, NEW T, IsFiniteSet(T)
  PROVE  \E g : SumsUp(f, T, g)
<1> DEFINE bad == {U \in SUBSET T : ~\E g : SumsUp(f, U, g)}
<1>1. ASSUME bad # {} PROVE FALSE
  <2>1. PICK U \in bad : IsFiniteSet(U) /\ \A x \in U : U \ {x} \notin bad
    BY <1>1, SmallestSet
  <2>2. ASSUME NEW x \in U PROVE \E g : SumsUp(f, U \ {x}, g)
    BY <2>1
  <2> DEFINE part(x) == CHOOSE g : SumsUp(f, U \ {x}, g)
             less(V) == part(Some(U \ V))
             whole == [V \in SUBSET U |->
                         IF V = U THEN IF U = {} THEN 0
                                       ELSE f[Some(U)] + part(Some(U))[U \ {Some(U)}]
                         ELSE less(V)[V]]
  <2>3. ASSUME NEW x \in U PROVE SumsUp(f, U \ {x}, part(x))
    BY <2>2
  <2> HIDE DEF part
  <2>4. ASSUME NEW V \in SUBSET U, V # U
        PROVE  \A x \in U \ V : part(x)[V] = less(V)[V]
    <3> SUFFICES ASSUME NEW x \in U \ V PROVE part(x)[V] = less(V)[V]
      OBVIOUS
    <3> DEFINE y == Some(U \ V)
    <3>1. y \in U \ V
      BY <2>4, SomeIsOne
    <3>2. PICK g : SumsUp(f, V, g)
      <4>1. V \notin bad
        <5>1. CASE V = U \ {y}
          BY <2>1, <3>1, <5>1
        <5>2. CASE V # U \ {y}
          <6>1. SumsUp(f, V, [W \in SUBSET V |-> part(y)[W]])
            <7>1. \A W \in SUBSET V : W \in SUBSET (U \ {y}) /\ W \ {Some(W)} \in SUBSET V
              BY <3>1
            <7>2. SumsUp(f, U \ {y}, part(y))
              BY <2>3, <3>1
            <7> HIDE DEF y
            <7>3. ASSUME NEW W \in SUBSET V
                  PROVE  part(y)[W] = Value(f, part(y), W)
              BY <7>1, <7>2, SumsUpAt
            <7> QED
              BY <7>1, <7>3 DEF SumsUp, Value
          <6> QED
            BY <6>1
        <5> QED
          BY <5>1, <5>2
      <4> QED
        BY <4>1
    <3>3. IsFiniteSet(V) /\ V \subseteq U \ {x} /\ V \subseteq U \ {y}
      BY <2>1, <3>1, FS_Subset
    <3>a. SumsUp(f, U \ {x}, part(x)) /\ SumsUp(f, U \ {y}, part(y))
      BY <2>3, <3>1
    <3> HIDE DEF y, less
    <3>b. V \in SUBSET V
      OBVIOUS
    <3>4. part(x)[V] = g[V] /\ part(y)[V] = g[V]
      BY <3>a, <3>b, <3>2, <3>3, SumsAgree
    <3> QED
      BY <3>4 DEF less, y
  <2>5. SumsUp(f, U, whole)
    <3>1. ASSUME NEW V \in SUBSET U
          PROVE  whole[V] = IF V = {} THEN 0 ELSE f[Some(V)] + whole[V \ {Some(V)}]
      <4>1. CASE V = U
        <5>1. CASE U = {}
          BY <4>1, <5>1
        <5>2. CASE U # {}
          <6>1. Some(U) \in U /\ U \ {Some(U)} # U
            BY <5>2, SomeIsOne
          <6>2. whole[U \ {Some(U)}] = part(Some(U))[U \ {Some(U)}]
            BY <2>4, <6>1
          <6> QED
            BY <4>1, <5>2, <6>2
        <5> QED
          BY <5>1, <5>2
      <4>2. CASE V # U
        <5> DEFINE x == Some(U \ V)
        <5>1. x \in U \ V
          BY <4>2, SomeIsOne
        <5>2. whole[V] = part(x)[V]
          BY <4>2
        <5>3. part(x)[V] = IF V = {} THEN 0 ELSE f[Some(V)] + part(x)[V \ {Some(V)}]
          <6>1. V \in SUBSET (U \ {x})
            BY <5>1
          <6>2. SumsUp(f, U \ {x}, part(x))
            BY <2>3, <5>1
          <6> HIDE DEF x
          <6>3. part(x)[V] = Value(f, part(x), V)
            BY <6>1, <6>2, SumsUpAt
          <6> QED
            BY <6>3 DEF Value
        <5>4. V # {} => whole[V \ {Some(V)}] = part(x)[V \ {Some(V)}]
          <6>1. V \ {Some(V)} \in SUBSET U /\ V \ {Some(V)} # U /\ x \in U \ (V \ {Some(V)})
            BY <5>1
          <6>2. part(x)[V \ {Some(V)}] = less(V \ {Some(V)})[V \ {Some(V)}]
            BY <2>4, <6>1
          <6> QED
            BY <6>1, <6>2
        <5> QED
          BY <5>2, <5>3, <5>4
      <4> QED
        BY <4>1, <4>2
    <3> HIDE DEF whole
    <3>2. whole = [V \in SUBSET U |-> whole[V]]
      BY DEF whole
    <3> QED
      BY <3>1, <3>2 DEF SumsUp, Value
  <2> QED
    BY <2>1, <2>5
<1>2. T \notin bad
  BY <1>1
<1> QED
  BY <1>2

LEMMA SumsUpIsSum ==
  ASSUME NEW f, NEW T, IsFiniteSet(T), NEW g, SumsUp(f, T, g), NEW U \in SUBSET T
  PROVE  g[U] = Sum(f, U)
<1>1. IsFiniteSet(U)
  BY FS_Subset
<1> DEFINE h == CHOOSE h : SumsUp(f, U, h)
<1>2. SumsUp(f, U, h)
  BY <1>1, SumsUpExist
<1>3. Sum(f, U) = h[U]
  BY DEF Sum
<1> HIDE DEF h
<1>4. U \in SUBSET U /\ U \subseteq T
  OBVIOUS
<1> QED
  BY <1>1, <1>2, <1>3, <1>4, SumsAgree

(* What a sum is: nothing, or one element's share and the sum of the rest. *)
LEMMA SumEquation ==
  ASSUME NEW f, NEW T, IsFiniteSet(T)
  PROVE  Sum(f, T) = IF T = {} THEN 0 ELSE f[Some(T)] + Sum(f, T \ {Some(T)})
<1>1. PICK g : SumsUp(f, T, g)
  BY SumsUpExist
<1>a. T \in SUBSET T /\ T \ {Some(T)} \in SUBSET T
  OBVIOUS
<1>2. g[T] = Value(f, g, T)
  BY <1>1, <1>a, SumsUpAt
<1>3. \A U \in SUBSET T : g[U] = Sum(f, U)
  BY <1>1, SumsUpIsSum
<1>4. g[T] = Sum(f, T) /\ g[T \ {Some(T)}] = Sum(f, T \ {Some(T)})
  BY <1>a, <1>3
<1> QED
  BY <1>2, <1>4 DEF Value

LEMMA SumOfNone ==
  ASSUME NEW f
  PROVE  Sum(f, {}) = 0
BY SumEquation, FS_EmptySet

LEMMA SumTyped ==
  ASSUME NEW f, NEW T, IsFiniteSet(T), \A x \in T : f[x] \in Int
  PROVE  Sum(f, T) \in Int
<1> DEFINE bad == {U \in SUBSET T : Sum(f, U) \notin Int}
<1>1. ASSUME bad # {} PROVE FALSE
  <2>1. PICK U \in bad : IsFiniteSet(U) /\ \A x \in U : U \ {x} \notin bad
    BY <1>1, SmallestSet
  <2>2. Sum(f, U) = IF U = {} THEN 0 ELSE f[Some(U)] + Sum(f, U \ {Some(U)})
    BY <2>1, SumEquation
  <2>3. CASE U = {}
    BY <2>2, <2>3
  <2>4. CASE U # {}
    <3>1. Some(U) \in U
      BY <2>4, SomeIsOne
    <3>2. f[Some(U)] \in Int /\ Sum(f, U \ {Some(U)}) \in Int
      BY <2>1, <3>1
    <3> QED
      BY <2>1, <2>2, <2>4, <3>2
  <2> QED
    BY <2>3, <2>4
<1> QED
  BY <1>1

LEMMA SumNatural ==
  ASSUME NEW f, NEW T, IsFiniteSet(T), \A x \in T : f[x] \in Nat
  PROVE  Sum(f, T) \in Nat
<1> DEFINE bad == {U \in SUBSET T : Sum(f, U) \notin Nat}
<1>1. ASSUME bad # {} PROVE FALSE
  <2>1. PICK U \in bad : IsFiniteSet(U) /\ \A x \in U : U \ {x} \notin bad
    BY <1>1, SmallestSet
  <2>2. Sum(f, U) = IF U = {} THEN 0 ELSE f[Some(U)] + Sum(f, U \ {Some(U)})
    BY <2>1, SumEquation
  <2>3. CASE U = {}
    BY <2>1, <2>2, <2>3
  <2>4. CASE U # {}
    <3>1. Some(U) \in U
      BY <2>4, SomeIsOne
    <3>2. f[Some(U)] \in Nat /\ Sum(f, U \ {Some(U)}) \in Nat
      BY <2>1, <3>1
    <3> QED
      BY <2>1, <2>2, <2>4, <3>2
  <2> QED
    BY <2>3, <2>4
<1> QED
  BY <1>1

(* A sum may be counted starting from any of its elements.                 *)
LEMMA SumOut ==
  ASSUME NEW f, NEW T, IsFiniteSet(T), \A x \in T : f[x] \in Int, NEW x \in T
  PROVE  Sum(f, T) = f[x] + Sum(f, T \ {x})
<1> DEFINE bad == {U \in SUBSET T : \E y \in U : Sum(f, U) # f[y] + Sum(f, U \ {y})}
<1>1. ASSUME bad # {} PROVE FALSE
  <2>1. PICK U \in bad : IsFiniteSet(U) /\ \A y \in U : U \ {y} \notin bad
    BY <1>1, SmallestSet
  <2>2. PICK y \in U : Sum(f, U) # f[y] + Sum(f, U \ {y})
    BY <2>1
  <2> DEFINE s == Some(U)
  <2>3. s \in U
    BY <2>2, SomeIsOne
  <2>4. Sum(f, U) = f[s] + Sum(f, U \ {s})
    BY <2>1, <2>2, SumEquation
  <2> HIDE DEF s
  <2>5. s # y
    BY <2>2, <2>4
  <2>6. U \ {s} \in SUBSET T /\ U \ {y} \in SUBSET T /\ y \in U \ {s} /\ s \in U \ {y}
    BY <2>1, <2>2, <2>3, <2>5
  <2>7. /\ Sum(f, U \ {s}) = f[y] + Sum(f, (U \ {s}) \ {y})
        /\ Sum(f, U \ {y}) = f[s] + Sum(f, (U \ {y}) \ {s})
    BY <2>1, <2>2, <2>3, <2>6
  <2>8. (U \ {s}) \ {y} = (U \ {y}) \ {s}
    OBVIOUS
  <2>9. f[s] \in Int /\ f[y] \in Int /\ Sum(f, (U \ {y}) \ {s}) \in Int
    <3>1. (U \ {y}) \ {s} \in SUBSET T /\ IsFiniteSet((U \ {y}) \ {s})
      BY <2>6, FS_Subset
    <3> QED
      BY <2>1, <2>2, <2>3, <3>1, SumTyped
  <2> DEFINE rest == Sum(f, (U \ {y}) \ {s})
  <2>10. Sum(f, U) = f[s] + (f[y] + rest) /\ Sum(f, U \ {y}) = f[s] + rest
    BY <2>4, <2>7, <2>8, Zenon
  <2>11. Sum(f, U) # f[y] + Sum(f, U \ {y}) /\ rest \in Int
    BY <2>2, <2>9
  <2> HIDE DEF rest
  <2> QED
    BY <2>9, <2>10, <2>11
<1>2. T \notin bad
  BY <1>1
<1> QED
  BY <1>2

LEMMA SumSame ==
  ASSUME NEW f, NEW e, NEW T, IsFiniteSet(T), \A x \in T : f[x] = e[x]
  PROVE  Sum(f, T) = Sum(e, T)
<1>1. PICK g : SumsUp(f, T, g)
  BY SumsUpExist
<1>2. PICK h : SumsUp(e, T, h)
  BY SumsUpExist
<1>3. T \in SUBSET T /\ T \subseteq T
  OBVIOUS
<1>4. g[T] = Sum(f, T)
  BY <1>1, <1>3, SumsUpIsSum
<1>b. h[T] = Sum(e, T)
  BY <1>2, <1>3, SumsUpIsSum
<1>5. g[T] = h[T]
  BY <1>1, <1>2, <1>3, SumsAgree
<1> QED
  BY <1>4, <1>b, <1>5

LEMMA SumUnion ==
  ASSUME NEW f, NEW R, NEW T, IsFiniteSet(R), IsFiniteSet(T), R \cap T = {},
         \A x \in R \cup T : f[x] \in Int
  PROVE  Sum(f, R \cup T) = Sum(f, R) + Sum(f, T)
<1> DEFINE bad == {U \in SUBSET R : Sum(f, U \cup T) # Sum(f, U) + Sum(f, T)}
<1>a. Sum(f, T) \in Int
  BY SumTyped
<1>1. ASSUME bad # {} PROVE FALSE
  <2>1. PICK U \in bad : IsFiniteSet(U) /\ \A x \in U : U \ {x} \notin bad
    BY <1>1, SmallestSet
  <2>2. CASE U = {}
    <3>1. U \cup T = T
      BY <2>2
    <3> QED
      BY <1>a, <2>1, <2>2, <3>1, SumOfNone
  <2>3. CASE U # {}
    <3>1. PICK x \in U : TRUE
      BY <2>3
    <3>2. Sum(f, (U \ {x}) \cup T) = Sum(f, U \ {x}) + Sum(f, T)
      BY <2>1, <3>1
    <3>3. (U \cup T) \ {x} = (U \ {x}) \cup T
      BY <3>1
    <3>4. IsFiniteSet(U \cup T) /\ IsFiniteSet(U \ {x})
      BY <2>1, FS_Union, FS_Subset
    <3>5. Sum(f, U \cup T) = f[x] + Sum(f, (U \cup T) \ {x})
      BY <3>1, <3>4, SumOut
    <3>6. Sum(f, U) = f[x] + Sum(f, U \ {x})
      BY <2>1, <3>1, SumOut
    <3>7. f[x] \in Int /\ Sum(f, U \ {x}) \in Int
      BY <3>1, <3>4, SumTyped
    <3> QED
      BY <1>a, <2>1, <3>2, <3>3, <3>5, <3>6, <3>7
  <2> QED
    BY <2>2, <2>3
<1>2. R \notin bad
  BY <1>1
<1> QED
  BY <1>2

(* One share changes.                                                      *)
LEMMA SumChange ==
  ASSUME NEW f, NEW h, NEW T, IsFiniteSet(T), NEW x \in T,
         \A y \in T : f[y] \in Int /\ h[y] \in Int, \A y \in T : y # x => h[y] = f[y]
  PROVE  Sum(h, T) = Sum(f, T) - f[x] + h[x]
<1>1. Sum(h, T) = h[x] + Sum(h, T \ {x}) /\ Sum(f, T) = f[x] + Sum(f, T \ {x})
  BY SumOut
<1>2. IsFiniteSet(T \ {x})
  BY FS_Subset
<1>3. Sum(h, T \ {x}) = Sum(f, T \ {x})
  BY <1>2, SumSame
<1>4. Sum(f, T \ {x}) \in Int /\ f[x] \in Int /\ h[x] \in Int
  BY <1>2, SumTyped
<1> QED
  BY <1>1, <1>3, <1>4

LEMMA SumOfZeroes ==
  ASSUME NEW f, NEW T, IsFiniteSet(T), \A x \in T : f[x] = 0
  PROVE  Sum(f, T) = 0
<1> DEFINE bad == {U \in SUBSET T : Sum(f, U) # 0}
<1>1. ASSUME bad # {} PROVE FALSE
  <2>1. PICK U \in bad : IsFiniteSet(U) /\ \A x \in U : U \ {x} \notin bad
    BY <1>1, SmallestSet
  <2>2. Sum(f, U) = IF U = {} THEN 0 ELSE f[Some(U)] + Sum(f, U \ {Some(U)})
    BY <2>1, SumEquation
  <2>3. U # {}
    BY <2>1, <2>2
  <2>4. Some(U) \in U /\ f[Some(U)] = 0 /\ Sum(f, U \ {Some(U)}) = 0
    BY <2>1, <2>3, SomeIsOne
  <2> QED
    BY <2>1, <2>2, <2>3, <2>4
<1>2. T \notin bad
  BY <1>1
<1> QED
  BY <1>2

-----------------------------------------------------------------------------
(* Sums of the community modules, and what else is done with sums.         *)
LEMMA SumOfFunction ==
  ASSUME NEW f, NEW T
  PROVE  SumFunctionOnSet(f, T) = Sum(f, T)
BY DEF SumFunctionOnSet, FoldFunctionOnSet, MapThenFoldSet, Sum, SumsUp, Value, Some

LEMMA SumOfMinus ==
  ASSUME NEW f, NEW e, NEW T, IsFiniteSet(T), \A x \in T : f[x] \in Int /\ e[x] = -f[x]
  PROVE  Sum(e, T) = -Sum(f, T)
<1> DEFINE bad == {U \in SUBSET T : Sum(e, U) # -Sum(f, U)}
<1>1. ASSUME bad # {} PROVE FALSE
  <2>1. PICK U \in bad : IsFiniteSet(U) /\ \A x \in U : U \ {x} \notin bad
    BY <1>1, SmallestSet
  <2>2. CASE U = {}
    BY <2>1, <2>2, SumOfNone
  <2>3. CASE U # {}
    <3>1. PICK x \in U : TRUE
      BY <2>3
    <3>2. Sum(e, U \ {x}) = -Sum(f, U \ {x})
      BY <2>1, <3>1
    <3>3. IsFiniteSet(U \ {x})
      BY <2>1, FS_Subset
    <3>4. \A y \in U : f[y] \in Int /\ e[y] \in Int /\ e[y] = -f[y]
      BY <2>1
    <3>5. Sum(f, U) = f[x] + Sum(f, U \ {x}) /\ Sum(e, U) = e[x] + Sum(e, U \ {x})
      BY <2>1, <3>1, <3>4, SumOut
    <3>6. Sum(f, U \ {x}) \in Int
      BY <3>3, <3>4, SumTyped
    <3>7. Sum(e, U) # -Sum(f, U)
      BY <2>1
    <3> QED
      BY <3>1, <3>2, <3>4, <3>5, <3>6, <3>7
  <2> QED
    BY <2>2, <2>3
<1>2. T \notin bad
  BY <1>1
<1> QED
  BY <1>2

(* No share exceeds a sum of shares that are not negative.                 *)
LEMMA SumCoversShare ==
  ASSUME NEW f, NEW T, IsFiniteSet(T), \A x \in T : f[x] \in Nat, NEW x \in T
  PROVE  f[x] <= Sum(f, T)
<1>1. Sum(f, T) = f[x] + Sum(f, T \ {x})
  BY SumOut
<1>2. IsFiniteSet(T \ {x})
  BY FS_Subset
<1>3. Sum(f, T \ {x}) \in Nat /\ f[x] \in Nat
  BY <1>2, SumNatural
<1> QED
  BY <1>1, <1>3

LEMMA SumOfPart ==
  ASSUME NEW f, NEW T, IsFiniteSet(T), \A x \in T : f[x] \in Int, NEW R \in SUBSET T
  PROVE  Sum(f, T) = Sum(f, R) + Sum(f, T \ R)
<1>1. IsFiniteSet(R) /\ IsFiniteSet(T \ R) /\ R \cap (T \ R) = {} /\ R \cup (T \ R) = T
  BY FS_Subset
<1> QED
  BY <1>1, SumUnion

(* A sum may be taken label by label.                                      *)
LEMMA SumByLabel ==
  ASSUME NEW f, NEW T, IsFiniteSet(T), \A x \in T : f[x] \in Int,
         NEW h, NEW L, IsFiniteSet(L), \A x \in T : h[x] \in L,
         NEW part, \A l \in L : \A x : x \in part[l] <=> x \in T /\ h[x] = l,
         NEW by, \A l \in L : by[l] = Sum(f, part[l])
  PROVE  Sum(f, T) = Sum(by, L)
<1> DEFINE In(U) == {x \in T : h[x] \in U}
           bad == {U \in SUBSET L : Sum(f, In(U)) # Sum(by, U)}
<1>a. \A U : In(U) \in SUBSET T /\ IsFiniteSet(In(U))
  BY FS_Subset
<1>b. \A l \in L : IsFiniteSet({x \in T : h[x] = l}) /\ by[l] \in Int
  <2> SUFFICES ASSUME NEW l \in L
               PROVE  IsFiniteSet({x \in T : h[x] = l}) /\ by[l] \in Int
    OBVIOUS
  <2> DEFINE R == {x \in T : h[x] = l}
  <2>1. R \in SUBSET T
    OBVIOUS
  <2>2. by[l] = Sum(f, R)
    <3>1. part[l] = R
      OBVIOUS
    <3> QED
      BY <3>1
  <2> HIDE DEF R
  <2>3. IsFiniteSet(R) /\ Sum(f, R) \in Int
    BY <2>1, FS_Subset, SumTyped
  <2> QED
    BY <2>2, <2>3 DEF R
<1>1. ASSUME bad # {} PROVE FALSE
  <2>1. PICK U \in bad : IsFiniteSet(U) /\ \A l \in U : U \ {l} \notin bad
    BY <1>1, SmallestSet
  <2>2. CASE U = {}
    <3>1. In(U) = {}
      BY <2>2
    <3>2. Sum(f, In(U)) = 0 /\ Sum(by, U) = 0
      BY <2>2, <3>1, SumOfNone
    <3> QED
      BY <2>1, <3>2
  <2>3. CASE U # {}
    <3>1. PICK l \in U : TRUE
      BY <2>3
    <3> DEFINE R == {x \in T : h[x] = l}
               rest == In(U \ {l})
    <3>2. Sum(f, rest) = Sum(by, U \ {l})
      BY <2>1, <3>1
    <3>3. In(U) = R \cup rest /\ R \cap rest = {} /\ R \in SUBSET T /\ rest \in SUBSET T
      BY <3>1
    <3>4. by[l] = Sum(f, R) /\ IsFiniteSet(R) /\ IsFiniteSet(rest)
      <4>1. part[l] = R /\ l \in L
        BY <2>1, <3>1
      <4>a. IsFiniteSet(R)
        BY <1>b, <4>1
      <4>b. IsFiniteSet(rest)
        BY <1>a
      <4>2. IsFiniteSet(R) /\ IsFiniteSet(rest)
        BY <4>a, <4>b
      <4>3. by[l] = Sum(f, part[l])
        BY <4>1
      <4> QED
        BY <4>1, <4>2, <4>3
    <3>5. Sum(f, In(U)) # Sum(by, U) /\ U \in SUBSET L
      BY <2>1
    <3> HIDE DEF In, R, rest, bad
    <3>6. \A x \in R \cup rest : f[x] \in Int
      BY <3>3
    <3>7. Sum(f, R \cup rest) = Sum(f, R) + Sum(f, rest)
      BY <3>3, <3>4, <3>6, SumUnion
    <3>8. Sum(by, U) = by[l] + Sum(by, U \ {l})
      <4>1. \A k \in U : by[k] \in Int
        BY <1>b, <3>5
      <4> QED
        BY <2>1, <3>1, <4>1, SumOut
    <3> QED
      BY <3>2, <3>3, <3>4, <3>5, <3>7, <3>8
  <2> QED
    BY <2>2, <2>3
<1>2. L \notin bad
  BY <1>1
<1>3. In(L) = T
  OBVIOUS
<1> QED
  BY <1>2, <1>3

(* A sum over places is the sum over what stands there.                    *)
LEMMA SumOverPlaces ==
  ASSUME NEW f, NEW P, IsFiniteSet(P), NEW s, \A i \in P : f[s[i]] \in Int,
         \A i, j \in P : s[i] = s[j] => i = j,
         NEW e, \A i \in P : e[i] = f[s[i]]
  PROVE  Sum(e, P) = Sum(f, {s[i] : i \in P})
<1> DEFINE At(U) == {s[i] : i \in U}
           bad == {U \in SUBSET P : Sum(e, U) # Sum(f, At(U))}
<1>1. ASSUME bad # {} PROVE FALSE
  <2>1. PICK U \in bad : IsFiniteSet(U) /\ \A i \in U : U \ {i} \notin bad
    BY <1>1, SmallestSet
  <2>2. CASE U = {}
    <3>1. At(U) = {}
      BY <2>2
    <3>2. Sum(e, U) = 0 /\ Sum(f, At(U)) = 0
      BY <2>2, <3>1, SumOfNone
    <3> QED
      BY <2>1, <3>2
  <2>3. CASE U # {}
    <3>1. PICK i \in U : TRUE
      BY <2>3
    <3>2. Sum(e, U \ {i}) = Sum(f, At(U \ {i}))
      BY <2>1, <3>1
    <3>3. At(U \ {i}) = At(U) \ {s[i]} /\ s[i] \in At(U)
      BY <2>1, <3>1
    <3>4. \A x \in At(U) : f[x] \in Int
      BY <2>1
    <3>5. IsFiniteSet(At(U))
      <4>1. [k \in U |-> s[k]] \in Surjection(U, At(U))
        BY DEF Surjection
      <4> HIDE DEF At
      <4> QED
        BY <2>1, <4>1, FS_Surjection
    <3>6. Sum(e, U) # Sum(f, At(U)) /\ U \in SUBSET P
      BY <2>1
    <3> HIDE DEF At, bad
    <3>7. Sum(e, U) = e[i] + Sum(e, U \ {i})
      BY <2>1, <3>1, <3>6, SumOut
    <3>8. Sum(f, At(U)) = f[s[i]] + Sum(f, At(U) \ {s[i]})
      BY <3>3, <3>4, <3>5, SumOut
    <3> QED
      BY <3>1, <3>2, <3>3, <3>6, <3>7, <3>8
  <2> QED
    BY <2>2, <2>3
<1>2. P \notin bad
  BY <1>1
<1> QED
  BY <1>2

(* One more for each of some.                                              *)
LEMMA SumOneMore ==
  ASSUME NEW f, NEW e, NEW T, IsFiniteSet(T), NEW P,
         \A x \in T : f[x] \in Int /\ e[x] = IF x \in P THEN f[x] + 1 ELSE f[x]
  PROVE  Sum(e, T) = Sum(f, T) + Cardinality(T \cap P)
<1> DEFINE bad == {U \in SUBSET T : Sum(e, U) # Sum(f, U) + Cardinality(U \cap P)}
<1>1. ASSUME bad # {} PROVE FALSE
  <2>1. PICK U \in bad : IsFiniteSet(U) /\ \A x \in U : U \ {x} \notin bad
    BY <1>1, SmallestSet
  <2>2. CASE U = {}
    <3>1. U \cap P = {} /\ Cardinality({}) = 0
      BY <2>2, FS_EmptySet
    <3> QED
      BY <2>1, <2>2, <3>1, SumOfNone
  <2>3. CASE U # {}
    <3>1. PICK x \in U : TRUE
      BY <2>3
    <3>2. Sum(e, U \ {x}) = Sum(f, U \ {x}) + Cardinality((U \ {x}) \cap P)
      BY <2>1, <3>1
    <3>3. IsFiniteSet(U \ {x}) /\ IsFiniteSet(U \cap P) /\ (U \ {x}) \cap P = (U \cap P) \ {x}
      BY <2>1, FS_Subset
    <3>4. \A y \in U : f[y] \in Int /\ e[y] \in Int
      BY <2>1
    <3>5. Sum(f, U) = f[x] + Sum(f, U \ {x}) /\ Sum(e, U) = e[x] + Sum(e, U \ {x})
      BY <2>1, <3>1, <3>4, SumOut
    <3>6. Sum(f, U \ {x}) \in Int
      BY <3>3, <3>4, SumTyped
    <3>7. /\ Cardinality((U \cap P) \ {x}) =
                IF x \in U \cap P THEN Cardinality(U \cap P) - 1 ELSE Cardinality(U \cap P)
          /\ Cardinality(U \cap P) \in Int
      <4> DEFINE V == U \cap P
      <4>1. IsFiniteSet(V)
        BY <3>3
      <4> HIDE DEF V
      <4>2. /\ Cardinality(V \ {x}) = IF x \in V THEN Cardinality(V) - 1 ELSE Cardinality(V)
            /\ Cardinality(V) \in Nat
        BY <4>1, FS_RemoveElement, FS_CardinalityType
      <4> QED
        BY <4>2 DEF V
    <3>8. Sum(e, U) # Sum(f, U) + Cardinality(U \cap P)
      BY <2>1
    <3>9. e[x] = IF x \in U \cap P THEN f[x] + 1 ELSE f[x]
      BY <2>1, <3>1
    <3> DEFINE n == Cardinality(U \cap P)
               m == Cardinality((U \cap P) \ {x})
               a == Sum(f, U \ {x})
    <3>10. /\ Sum(e, U) = e[x] + (a + m) /\ Sum(f, U) = f[x] + a /\ a \in Int /\ n \in Int
           /\ m = (IF x \in U \cap P THEN n - 1 ELSE n) /\ Sum(e, U) # Sum(f, U) + n
           /\ f[x] \in Int
      BY <3>1, <3>2, <3>3, <3>4, <3>5, <3>6, <3>7, <3>8
    <3> HIDE DEF n, m, a
    <3> QED
      BY <3>9, <3>10
  <2> QED
    BY <2>2, <2>3
<1>2. T \notin bad
  BY <1>1
<1> QED
  BY <1>2
=============================================================================
