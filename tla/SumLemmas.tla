----------------------------- MODULE SumLemmas -----------------------------
(***************************************************************************)
(* What Sum and Stored compute.  Sum is defined by a recursive function    *)
(* that takes the elements of the set in the order in which CHOOSE picks   *)
(* them; what the proofs about balances need is that the order does not    *)
(* matter: an element can be taken out, or its summand changed, wherever   *)
(* it comes, and a sum can be taken class by class.  Of Stored they need   *)
(* that it errs by half a step of the column at most.                      *)
(***************************************************************************)
EXTENDS Integers, Summation, Decimals, FiniteSetTheorems, WellFoundedInduction, TLAPS

Pick(s) == CHOOSE x \in s : TRUE

\* it is the recursive function that sums h over the subsets of S.
Sums(h, S, it) ==
    it = [s \in SUBSET S |-> IF s = {} THEN 0 ELSE h[Pick(s)] + it[s \ {Pick(s)}]]

\* The element picked first is one of the set.
LEMMA PickIn == ASSUME NEW s, s # {} PROVE Pick(s) \in s
BY DEF Pick

\* Induction over the finite subsets of S: if some subset of S is in Bad, one is whose
\* strict subsets are not.
LEMMA Smallest ==
    ASSUME NEW S, IsFiniteSet(S), NEW Bad, Bad \subseteq SUBSET S, Bad # {}
    PROVE  \E T \in Bad : IsFiniteSet(T) /\ \A U \in SUBSET T : U # T => U \notin Bad
<1>1. Bad \subseteq FiniteSubsetsOf(S)
  BY FS_FiniteSubsetsOfFinite
<1>2. PICK T \in Bad : \A U \in Bad : ~(<<U, T>> \in StrictSubsetOrdering(S))
  BY <1>1, FS_StrictSubsetOrderingWellFounded, WFMin
<1>3. ASSUME NEW U \in SUBSET T, U # T, U \in Bad PROVE FALSE
  BY <1>2, <1>3 DEF StrictSubsetOrdering
<1>4. IsFiniteSet(T)
  BY FS_Subset
<1>5. QED
  BY <1>3, <1>4

\* If some number is in Bad, a least one is.
LEMMA Least ==
    ASSUME NEW Bad, Bad \subseteq Nat, Bad # {}
    PROVE  \E n \in Bad : \A m \in Bad : ~(m < n)
<1>1. PICK n \in Bad : \A m \in Bad : ~(<<m, n>> \in OpToRel(<, Nat))
  BY NatLessThanWellFounded, WFMin
<1>2. ASSUME NEW m \in Bad, m < n PROVE FALSE
  <2>1. <<m, n>> \in OpToRel(<, Nat)
    BY <1>2 DEF OpToRel
  <2>2. QED
    BY <1>1, <2>1
<1>3. QED
  BY <1>2

\* The recursive function exists: for the subsets of at most n elements, whatever n is,
\* the function for n + 1 being made from the one for n.
LEMMA SumsExist ==
    ASSUME NEW S, IsFiniteSet(S), NEW h
    PROVE  \E it : Sums(h, S, it)
<1> DEFINE Sub(n) == {s \in SUBSET S : Cardinality(s) <= n}
           body(f, s) == IF s = {} THEN 0 ELSE h[Pick(s)] + f[s \ {Pick(s)}]
           Good(n) == \E f : f = [s \in Sub(n) |-> body(f, s)]
           Bad == {n \in Nat : ~Good(n)}
<1>1. \A s \in SUBSET S : IsFiniteSet(s) /\ Cardinality(s) \in Nat
  BY FS_Subset, FS_CardinalityType
<1>2. ASSUME NEW s \in SUBSET S, s # {}
      PROVE  s \ {Pick(s)} \in SUBSET S /\ Cardinality(s \ {Pick(s)}) = Cardinality(s) - 1
  BY <1>1, <1>2, PickIn, FS_RemoveElement
<1>3. Good(0)
  <2> DEFINE f == [s \in Sub(0) |-> 0]
  <2>1. \A s \in Sub(0) : s = {}
    BY <1>1, FS_EmptySet
  <2>2. f = [s \in Sub(0) |-> body(f, s)]
    BY <2>1
  <2>3. QED
    BY <2>2
<1>4. ASSUME NEW n \in Nat, Good(n) PROVE Good(n + 1)
  <2>1. PICK f : f = [s \in Sub(n) |-> body(f, s)]
    BY <1>4
  <2> DEFINE g == [s \in Sub(n + 1) |-> body(f, s)]
  <2>2. ASSUME NEW s \in Sub(n + 1) PROVE body(f, s) = body(g, s)
    <3>1. CASE s = {}
      BY <3>1
    <3>2. CASE s # {}
      <4> DEFINE t == s \ {Pick(s)}
      <4>1. /\ s \in SUBSET S /\ Cardinality(s) \in Nat /\ Cardinality(s) <= n + 1
            /\ t \in SUBSET S /\ Cardinality(t) = Cardinality(s) - 1
        BY <1>1, <1>2, <3>2
      <4>2. t \in Sub(n) /\ t \in Sub(n + 1)
        BY <4>1
      <4> HIDE DEF t
      <4>3. g[t] = body(f, t) /\ f[t] = body(f, t)
        BY <2>1, <4>2
      <4>4. QED
        BY <3>2, <4>3 DEF t
    <3>3. QED
      BY <3>1, <3>2
  <2>3. g = [s \in Sub(n + 1) |-> body(g, s)]
    BY <2>2
  <2> HIDE DEF g
  <2>4. QED
    BY <2>3
<1> HIDE DEF Good
<1>5. Bad = {}
  <2>1. SUFFICES ASSUME Bad # {} PROVE FALSE
    OBVIOUS
  <2>2. PICK n \in Bad : \A m \in Bad : ~(m < n)
    BY <2>1, Least
  <2>3. n # 0 /\ n - 1 \in Nat
    BY <1>3
  <2>4. Good(n - 1)
    BY <2>2, <2>3
  <2>5. Good((n - 1) + 1)
    BY <1>4, <2>3, <2>4
  <2>6. QED
    BY <2>2, <2>5
<1>6. Good(Cardinality(S))
  BY <1>1, <1>5
<1>7. Sub(Cardinality(S)) = SUBSET S
  BY <1>1, FS_Subset
<1>8. QED
  BY <1>6, <1>7 DEF Good, Sums

\* What it says of one subset.
LEMMA SumsOfNone == ASSUME NEW S, NEW h, NEW it, Sums(h, S, it) PROVE it[{}] = 0
BY DEF Sums

\* One step of the recursive function.
LEMMA SumsOf ==
    ASSUME NEW S, NEW h, NEW it, Sums(h, S, it), NEW T \in SUBSET S, T # {}
    PROVE  /\ Pick(T) \in T /\ T \ {Pick(T)} \in SUBSET S
           /\ it[T] = h[Pick(T)] + it[T \ {Pick(T)}]
BY PickIn DEF Sums

\* Sums of integers are integers.
LEMMA SumsInt ==
    ASSUME NEW S, IsFiniteSet(S), NEW h, NEW it, Sums(h, S, it), \A x \in S : h[x] \in Int
    PROVE  \A T \in SUBSET S : it[T] \in Int
<1> DEFINE Bad == {T \in SUBSET S : it[T] \notin Int}
<1>1. SUFFICES ASSUME Bad # {} PROVE FALSE
  OBVIOUS
<1>2. PICK T \in Bad : \A U \in SUBSET T : U # T => U \notin Bad
  <2>1. Bad \subseteq SUBSET S
    OBVIOUS
  <2> HIDE DEF Bad
  <2>2. QED
    BY <1>1, <2>1, Smallest
<1>3. T # {} /\ Pick(T) \in T /\ it[T] = h[Pick(T)] + it[T \ {Pick(T)}]
  <2>1. T \in SUBSET S /\ it[T] # 0
    BY <1>2
  <2>2. T # {}
    BY <2>1, SumsOfNone
  <2>3. QED
    BY <2>1, <2>2, SumsOf
<1>4. T \ {Pick(T)} \in SUBSET T /\ T \ {Pick(T)} # T
  BY <1>3
<1>5. it[T \ {Pick(T)}] \in Int
  BY <1>2, <1>4
<1>6. QED
  BY <1>2, <1>3, <1>5

\* Any element can be taken out first.
LEMMA SumsRemove ==
    ASSUME NEW S, IsFiniteSet(S), NEW h, NEW it, Sums(h, S, it), \A x \in S : h[x] \in Int
    PROVE  \A T \in SUBSET S : \A x \in T : it[T] = h[x] + it[T \ {x}]
<1> DEFINE Bad == {T \in SUBSET S : \E x \in T : it[T] # h[x] + it[T \ {x}]}
<1>1. SUFFICES ASSUME Bad # {} PROVE FALSE
  OBVIOUS
<1>2. PICK T \in Bad : \A U \in SUBSET T : U # T => U \notin Bad
  <2>1. Bad \subseteq SUBSET S
    OBVIOUS
  <2> HIDE DEF Bad
  <2>2. QED
    BY <1>1, <2>1, Smallest
<1>3. PICK x \in T : it[T] # h[x] + it[T \ {x}]
  BY <1>2
<1> DEFINE p == Pick(T)
<1>4. p \in T /\ it[T] = h[p] + it[T \ {p}]
  BY <1>2, <1>3, SumsOf
<1> HIDE DEF p
<1>5. x # p
  BY <1>3, <1>4
<1>6. it[T \ {p}] = h[x] + it[(T \ {p}) \ {x}]
  <2>1. T \ {p} \notin Bad /\ x \in T \ {p}
    BY <1>2, <1>4, <1>5
  <2>2. QED
    BY <1>2, <2>1
<1>7. it[T \ {x}] = h[p] + it[(T \ {x}) \ {p}]
  <2>1. T \ {x} \notin Bad /\ p \in T \ {x}
    BY <1>2, <1>4, <1>5
  <2>2. QED
    BY <1>2, <2>1
<1>8. (T \ {p}) \ {x} = (T \ {x}) \ {p}
  OBVIOUS
<1>9. /\ h[x] \in Int /\ h[p] \in Int
      /\ it[T \ {p}] \in Int /\ it[T \ {x}] \in Int /\ it[(T \ {x}) \ {p}] \in Int
  BY <1>2, <1>4, SumsInt
<1> DEFINE a == it[T \ {p}]
           b == it[T \ {x}]
           c == it[(T \ {x}) \ {p}]
<1>10. a = h[x] + c /\ b = h[p] + c /\ it[T] = h[p] + a /\ it[T] # h[x] + b
  BY <1>3, <1>4, <1>6, <1>7, <1>8
<1>11. a \in Int /\ b \in Int /\ c \in Int
  BY <1>9
<1> HIDE DEF a, b, c
<1>12. QED
  BY <1>9, <1>10, <1>11

\* Nothing but the summands matters, not the set that the function is made for either.
LEMMA SumsAgree ==
    ASSUME NEW S, IsFiniteSet(S), NEW h, NEW it, Sums(h, S, it),
           NEW V, NEW k, NEW jt, Sums(k, V, jt), S \subseteq V, \A x \in S : h[x] = k[x]
    PROVE  \A T \in SUBSET S : it[T] = jt[T]
<1> DEFINE Bad == {T \in SUBSET S : it[T] # jt[T]}
<1>1. SUFFICES ASSUME Bad # {} PROVE FALSE
  OBVIOUS
<1>2. PICK T \in Bad : \A U \in SUBSET T : U # T => U \notin Bad
  <2>1. Bad \subseteq SUBSET S
    OBVIOUS
  <2> HIDE DEF Bad
  <2>2. QED
    BY <1>1, <2>1, Smallest
<1>3. T \in SUBSET S /\ T \in SUBSET V
  BY <1>2
<1>4. T # {} /\ Pick(T) \in T /\ it[T] = h[Pick(T)] + it[T \ {Pick(T)}]
  <2>1. T # {}
    BY <1>2, <1>3, SumsOfNone
  <2>2. QED
    BY <1>3, <2>1, SumsOf
<1>5. jt[T] = k[Pick(T)] + jt[T \ {Pick(T)}]
  BY <1>3, <1>4, SumsOf
<1>6. it[T \ {Pick(T)}] = jt[T \ {Pick(T)}]
  BY <1>2, <1>3, <1>4
<1>7. QED
  BY <1>2, <1>3, <1>4, <1>5, <1>6

-----------------------------------------------------------------------------
(* The same of Sum, for the proofs to cite. *)

\* The sum is the value at S of a function that Sums describes.
LEMMA SumIs ==
    ASSUME NEW S, IsFiniteSet(S), NEW h
    PROVE  \E it : Sums(h, S, it) /\ Sum(h, S) = it[S]
<1> DEFINE P(j) == Sums(h, S, j)
<1>1. \E j : P(j)
  BY SumsExist
<1>2. Sum(h, S) = (CHOOSE j : P(j))[S]
  BY DEF Sum, MapThenSumSet, MapThenFoldSet, Sums, Pick
<1> HIDE DEF P
<1>3. P(CHOOSE j : P(j))
  BY <1>1
<1>4. QED
  BY <1>2, <1>3 DEF P

\* Nothing adds up to zero.
LEMMA SumEmpty == ASSUME NEW h PROVE Sum(h, {}) = 0
<1>1. PICK it : Sums(h, {}, it) /\ Sum(h, {}) = it[{}]
  BY SumIs, FS_EmptySet
<1>2. QED
  BY <1>1, SumsOfNone

\* The sum of integers over a finite set is an integer.
LEMMA SumInt ==
    ASSUME NEW S, IsFiniteSet(S), NEW h, \A x \in S : h[x] \in Int
    PROVE  Sum(h, S) \in Int
BY SumIs, SumsInt

\* Functions that agree on the set have one sum over it.
LEMMA SumAgree ==
    ASSUME NEW S, IsFiniteSet(S), NEW h, NEW k, \A x \in S : h[x] = k[x]
    PROVE  Sum(h, S) = Sum(k, S)
<1>1. PICK it : Sums(h, S, it) /\ Sum(h, S) = it[S]
  BY SumIs
<1>2. PICK jt : Sums(k, S, jt) /\ Sum(k, S) = jt[S]
  BY SumIs
<1>3. \A T \in SUBSET S : it[T] = jt[T]
  BY <1>1, <1>2, SumsAgree
<1>4. QED
  BY <1>1, <1>2, <1>3

\* Any element can be taken out of the sum, not only the one picked first.
LEMMA SumRemove ==
    ASSUME NEW S, IsFiniteSet(S), NEW h, \A x \in S : h[x] \in Int, NEW a \in S
    PROVE  Sum(h, S) = h[a] + Sum(h, S \ {a})
<1>1. PICK it : Sums(h, S, it) /\ Sum(h, S) = it[S]
  BY SumIs
<1>2. IsFiniteSet(S \ {a})
  BY FS_RemoveElement
<1>3. PICK jt : Sums(h, S \ {a}, jt) /\ Sum(h, S \ {a}) = jt[S \ {a}]
  BY <1>2, SumIs
<1>4. it[S] = h[a] + it[S \ {a}]
  BY <1>1, SumsRemove
<1>5. \A T \in SUBSET (S \ {a}) : jt[T] = it[T]
  BY <1>1, <1>2, <1>3, SumsAgree
<1>6. QED
  BY <1>1, <1>3, <1>4, <1>5

\* A new element adds its summand.
LEMMA SumAdd ==
    ASSUME NEW S, IsFiniteSet(S), NEW h, NEW a, a \notin S,
           \A x \in S \cup {a} : h[x] \in Int
    PROVE  Sum(h, S \cup {a}) = Sum(h, S) + h[a]
<1>1. IsFiniteSet(S \cup {a}) /\ (S \cup {a}) \ {a} = S
  BY FS_AddElement
<1>2. Sum(h, S \cup {a}) = h[a] + Sum(h, S)
  BY <1>1, SumRemove
<1>3. Sum(h, S) \in Int
  BY SumInt
<1>4. QED
  BY <1>2, <1>3

\* One summand changes.
LEMMA SumChange ==
    ASSUME NEW S, IsFiniteSet(S), NEW h, NEW k, NEW a \in S,
           \A x \in S : h[x] \in Int /\ k[x] \in Int, \A x \in S \ {a} : h[x] = k[x]
    PROVE  Sum(k, S) = Sum(h, S) + k[a] - h[a]
<1>1. IsFiniteSet(S \ {a})
  BY FS_RemoveElement
<1>2. Sum(h, S \ {a}) = Sum(k, S \ {a})
  BY <1>1, SumAgree
<1>3. Sum(h, S) = h[a] + Sum(h, S \ {a}) /\ Sum(k, S) = k[a] + Sum(k, S \ {a})
  BY SumRemove
<1>4. Sum(h, S \ {a}) \in Int
  BY <1>1, SumInt
<1>5. QED
  BY <1>2, <1>3, <1>4
\* What is zero of nothing, and grows by its summand with each element, is the sum.
LEMMA SumGrows ==
    ASSUME NEW S, IsFiniteSet(S), NEW h, \A x \in S : h[x] \in Int, NEW f,
           f[{}] = 0,
           \A T \in SUBSET S : \A x \in T : f[T] = h[x] + f[T \ {x}]
    PROVE  f[S] = Sum(h, S)
<1> DEFINE Bad == {T \in SUBSET S : f[T] # Sum(h, T)}
<1>1. SUFFICES Bad = {}
  OBVIOUS
<1>2. SUFFICES ASSUME Bad # {} PROVE FALSE
  OBVIOUS
<1>3. PICK T \in Bad : IsFiniteSet(T) /\ \A U \in SUBSET T : U # T => U \notin Bad
  <2>1. Bad \subseteq SUBSET S
    OBVIOUS
  <2> HIDE DEF Bad
  <2>2. QED
    BY <1>2, <2>1, Smallest
<1>4. T # {}
  BY <1>3, SumEmpty
<1>5. PICK x \in T : TRUE
  BY <1>4
<1>6. f[T] = h[x] + f[T \ {x}]
  BY <1>3
<1>7. Sum(h, T) = h[x] + Sum(h, T \ {x})
  <2>1. \A y \in T : h[y] \in Int
    BY <1>3
  <2>2. QED
    BY <1>3, <2>1, SumRemove
<1>8. f[T \ {x}] = Sum(h, T \ {x})
  BY <1>3
<1>9. QED
  BY <1>3, <1>6, <1>7, <1>8

\* The sum of two summands is the sum of their sums.
LEMMA SumPlus ==
    ASSUME NEW S, IsFiniteSet(S), NEW h, NEW k, NEW m,
           \A x \in S : h[x] \in Int /\ k[x] \in Int /\ m[x] = h[x] + k[x]
    PROVE  Sum(m, S) = Sum(h, S) + Sum(k, S)
<1> DEFINE f == [T \in SUBSET S |-> Sum(h, T) + Sum(k, T)]
<1>1. f[{}] = 0
  BY SumEmpty
<1>2. ASSUME NEW T \in SUBSET S, NEW x \in T PROVE f[T] = m[x] + f[T \ {x}]
  <2>1. IsFiniteSet(T) /\ IsFiniteSet(T \ {x}) /\ T \ {x} \in SUBSET S
    BY FS_Subset
  <2>2. \A y \in T : h[y] \in Int /\ k[y] \in Int
    OBVIOUS
  <2>3. Sum(h, T) = h[x] + Sum(h, T \ {x}) /\ Sum(k, T) = k[x] + Sum(k, T \ {x})
    BY <2>1, <2>2, SumRemove
  <2>4. Sum(h, T \ {x}) \in Int /\ Sum(k, T \ {x}) \in Int
    BY <2>1, <2>2, SumInt
  <2>5. h[x] \in Int /\ k[x] \in Int /\ m[x] = h[x] + k[x]
    OBVIOUS
  <2>6. Sum(h, T) + Sum(k, T) = m[x] + (Sum(h, T \ {x}) + Sum(k, T \ {x}))
    BY <2>3, <2>4, <2>5
  <2>7. QED
    BY <2>1, <2>6
<1>3. f[S] = Sum(h, S) + Sum(k, S)
  OBVIOUS
<1>4. \A x \in S : m[x] \in Int
  OBVIOUS
<1> HIDE DEF f
<1>5. QED
  BY <1>1, <1>2, <1>3, <1>4, SumGrows

\* The elements of S that are not in B add nothing.
LEMMA SumWhere ==
    ASSUME NEW S, IsFiniteSet(S), NEW B, B \subseteq S, NEW h, NEW k,
           \A x \in B : h[x] \in Int /\ k[x] = h[x], \A x \in S \ B : k[x] = 0
    PROVE  Sum(k, S) = Sum(h, B)
<1> DEFINE f == [T \in SUBSET S |-> Sum(h, T \cap B)]
<1>1. f[{}] = 0
  BY SumEmpty
<1>2. ASSUME NEW T \in SUBSET S, NEW x \in T PROVE f[T] = k[x] + f[T \ {x}]
  <2>1. IsFiniteSet(T \cap B)
    BY FS_Subset
  <2>2. CASE x \in B
    <3>1. Sum(h, T \cap B) = h[x] + Sum(h, (T \cap B) \ {x})
      BY <2>1, <2>2, SumRemove
    <3>2. (T \cap B) \ {x} = (T \ {x}) \cap B
      OBVIOUS
    <3>3. QED
      BY <2>2, <3>1, <3>2
  <2>3. CASE x \notin B
    <3>1. (T \ {x}) \cap B = T \cap B
      BY <2>3
    <3>2. Sum(h, T \cap B) \in Int
      BY <2>1, SumInt
    <3>3. k[x] = 0
      BY <2>3
    <3>4. Sum(h, T \cap B) = k[x] + Sum(h, (T \ {x}) \cap B)
      BY <3>1, <3>2, <3>3
    <3>5. QED
      BY <3>4
  <2>4. QED
    BY <2>2, <2>3
<1>3. f[S] = Sum(h, B)
  <2>1. S \cap B = B
    OBVIOUS
  <2>2. QED
    BY <2>1
<1>4. \A x \in S : k[x] \in Int
  OBVIOUS
<1> HIDE DEF f
<1>5. QED
  BY <1>1, <1>2, <1>3, <1>4, SumGrows

\* The members of the class v, when class[x] is the class of x.
Members(class, S, v) == {x \in S : class[x] = v}

\* Summing class by class, of elements that each have one of the classes V.
LEMMA SumByClass ==
    ASSUME NEW S, IsFiniteSet(S), NEW V, IsFiniteSet(V), NEW h, NEW class,
           \A x \in S : h[x] \in Int /\ class[x] \in V
    PROVE  Sum([v \in V |-> Sum(h, Members(class, S, v))], V) = Sum(h, S)
<1> DEFINE Part(T) == [v \in V |-> Sum(h, Members(class, T, v))]
           f == [T \in SUBSET S |-> Sum(Part(T), V)]
<1>1. ASSUME NEW T \in SUBSET S, NEW v \in V
      PROVE  IsFiniteSet(Members(class, T, v)) /\ Part(T)[v] \in Int
  <2>1. IsFiniteSet(Members(class, T, v)) /\ \A x \in Members(class, T, v) : h[x] \in Int
    BY FS_Subset DEF Members
  <2>2. QED
    BY <2>1, SumInt
<1>2. f[{}] = 0
  <2>1. \A v \in V : Part({})[v] = 0
    BY SumEmpty DEF Members
  <2>2. Sum(Part({}), V) = Sum([v \in {} |-> 0], {})
    <3>1. \A v \in V \ {} : Part({})[v] = 0
      BY <2>1
    <3> HIDE DEF Part
    <3>2. QED
      BY <3>1, SumWhere
  <2>3. QED
    BY <2>2, SumEmpty
<1>3. ASSUME NEW T \in SUBSET S, NEW x \in T PROVE f[T] = h[x] + f[T \ {x}]
  <2> DEFINE w == class[x]
             U == T \ {x}
  <2>1. w \in V /\ U \in SUBSET S
    OBVIOUS
  <2>2. \A v \in V : v # w => Members(class, T, v) = Members(class, U, v)
    BY DEF Members
  <2>3. Members(class, T, w) \ {x} = Members(class, U, w) /\ x \in Members(class, T, w)
    BY DEF Members
  <2>4. Part(T)[w] = h[x] + Part(U)[w]
    <3>1. \A y \in Members(class, T, w) : h[y] \in Int
      BY DEF Members
    <3>2. Sum(h, Members(class, T, w)) = h[x] + Sum(h, Members(class, T, w) \ {x})
      BY <1>1, <2>1, <2>3, <3>1, SumRemove
    <3>3. QED
      BY <2>1, <2>3, <3>2
  <2>5. \A v \in V \ {w} : Part(T)[v] = Part(U)[v]
    BY <2>2
  <2>6. \A v \in V : Part(T)[v] \in Int /\ Part(U)[v] \in Int
    BY <1>1, <2>1
  <2> HIDE DEF Part, w, U
  <2>7. Sum(Part(T), V) = Sum(Part(U), V) + Part(T)[w] - Part(U)[w]
    BY <2>1, <2>5, <2>6, SumChange
  <2>8. Sum(Part(U), V) \in Int /\ h[x] \in Int
    BY <2>6, SumInt
  <2>9. Sum(Part(T), V) = h[x] + Sum(Part(U), V)
    BY <2>1, <2>4, <2>6, <2>7, <2>8
  <2>10. QED
    BY <2>1, <2>9 DEF U
<1>4. f[S] = Sum([v \in V |-> Sum(h, Members(class, S, v))], V)
  OBVIOUS
<1>5. \A x \in S : h[x] \in Int
  OBVIOUS
<1> HIDE DEF f
<1>6. QED
  BY <1>2, <1>3, <1>4, <1>5, SumGrows

\* A sum of amounts from 0 to m is at most m for each.
LEMMA SumAtMost ==
    ASSUME NEW S, IsFiniteSet(S), NEW m \in Nat, NEW h, \A x \in S : h[x] \in 0..m
    PROVE  Sum(h, S) \in Int /\ Sum(h, S) >= 0 /\ Sum(h, S) <= m * Cardinality(S)
<1> DEFINE Good(T) == Sum(h, T) >= 0 /\ Sum(h, T) <= m * Cardinality(T)
           Bad == {T \in SUBSET S : ~Good(T)}
<1>1. Sum(h, S) \in Int
  BY SumInt
<1>2. SUFFICES ASSUME Bad # {} PROVE FALSE
  BY <1>1
<1>3. PICK T \in Bad : IsFiniteSet(T) /\ \A U \in SUBSET T : U # T => U \notin Bad
  <2>1. Bad \subseteq SUBSET S
    OBVIOUS
  <2> HIDE DEF Bad
  <2>2. QED
    BY <1>2, <2>1, Smallest
<1>4. T # {}
  <2>1. Sum(h, {}) = 0 /\ Cardinality({}) = 0
    BY SumEmpty, FS_EmptySet
  <2>2. Good({})
    BY <2>1
  <2>3. QED
    BY <2>2
<1>5. PICK x \in T : TRUE
  BY <1>4
<1>6. T \ {x} \in SUBSET S /\ Good(T \ {x})
  BY <1>3, <1>5
<1>7. Sum(h, T) = h[x] + Sum(h, T \ {x})
  BY <1>3, SumRemove
<1>8. PICK n \in Nat : /\ n = Cardinality(T \ {x}) /\ Cardinality(T) = n + 1
                       /\ IsFiniteSet(T \ {x})
  <2>1. /\ IsFiniteSet(T \ {x})
        /\ Cardinality(T \ {x}) = Cardinality(T) - 1
    BY <1>3, <1>5, FS_RemoveElement
  <2>2. Cardinality(T) \in Nat /\ Cardinality(T \ {x}) \in Nat
    BY <1>3, <2>1, FS_CardinalityType
  <2>3. QED
    BY <2>1, <2>2
<1>9. PICK y \in Int : y = Sum(h, T \ {x})
  BY <1>6, <1>8, SumInt
<1>10. h[x] \in 0..m
  BY <1>3, <1>5
<1>11. m * (n + 1) = m * n + m
  OBVIOUS
<1>12. Good(T)
  BY <1>6, <1>7, <1>8, <1>9, <1>10, <1>11
<1>13. QED
  BY <1>3, <1>12

-----------------------------------------------------------------------------
(* Columns that round. *)

\* A division is by its quotient: b * q + r, with 0 <= r < b, has the quotient q.
LEMMA Quotient ==
    ASSUME NEW b \in Nat \ {0}, NEW q \in Int, NEW r \in 0..(b - 1)
    PROVE  (b * q + r) \div b = q /\ (b * q + r) % b = r
<1> DEFINE d == (b * q + r) \div b
           m == (b * q + r) % b
<1>1. d \in Int /\ m \in 0..(b - 1) /\ b * q + r = b * d + m
  OBVIOUS
<1> HIDE DEF d, m
<1>2. b * (q - d) = m - r
  BY <1>1
<1>3. ASSUME q - d >= 1 PROVE FALSE
  <2>1. b * (q - d) >= b
    BY <1>1, <1>3
  <2>2. QED
    BY <1>1, <1>2, <2>1
<1>4. ASSUME d - q >= 1 PROVE FALSE
  <2>1. b * (d - q) >= b
    BY <1>1, <1>4
  <2>2. b * (d - q) = -(b * (q - d))
    BY <1>1
  <2>3. QED
    BY <1>1, <1>2, <2>1, <2>2
<1>5. d = q
  BY <1>1, <1>3, <1>4
<1>6. m = r
  BY <1>1, <1>5
<1>7. QED
  BY <1>5, <1>6 DEF d, m

\* What a column keeps as it is are the multiples of its step.
LEMMA WholeIs ==
    ASSUME NEW unit \in Nat \ {0}, NEW x \in Int
    PROVE  Whole(x, unit) <=> \E k \in Int : x = unit * k
<1>1. ASSUME Whole(x, unit) PROVE x = unit * (x \div unit) /\ x \div unit \in Int
  BY <1>1 DEF Whole
<1>2. ASSUME NEW k \in Int, x = unit * k PROVE Whole(x, unit)
  <2>1. (unit * k + 0) % unit = 0
    BY Quotient
  <2>2. unit * k + 0 = x
    BY <1>2
  <2>3. QED
    BY <2>1, <2>2 DEF Whole
<1>3. QED
  BY <1>1, <1>2

\* They are closed under addition and change of sign.
LEMMA WholePlus ==
    ASSUME NEW unit \in Nat \ {0}, NEW x \in Int, NEW y \in Int,
           Whole(x, unit), Whole(y, unit)
    PROVE  Whole(x + y, unit) /\ Whole(-x, unit)
<1>1. PICK j \in Int : x = unit * j
  BY WholeIs
<1>2. PICK k \in Int : y = unit * k
  BY WholeIs
<1>3. x + y = unit * (j + k) /\ -x = unit * (-j)
  BY <1>1, <1>2
<1>4. x + y \in Int /\ -x \in Int /\ j + k \in Int /\ -j \in Int
  OBVIOUS
<1>5. QED
  BY <1>3, <1>4, WholeIs

\* Stored is a multiple of the step, the nearest one.
LEMMA StoredNear ==
    ASSUME NEW unit \in Nat \ {0}, NEW x \in Int
    PROVE  /\ Stored(x, unit) \in Int /\ Whole(Stored(x, unit), unit)
           /\ Within(Stored(x, unit), x, 1, unit)
           /\ Whole(x, unit) => Stored(x, unit) = x
<1> DEFINE div(y) == (2 * y + unit) \div (2 * unit)
           mod(y) == (2 * y + unit) % (2 * unit)
<1>1. ASSUME NEW y \in Int
      PROVE  /\ div(y) \in Int /\ mod(y) \in 0..(2 * unit - 1)
             /\ 2 * y + unit = (2 * unit) * div(y) + mod(y)
  OBVIOUS
<1>2. ASSUME NEW y \in Int, Whole(y, unit) PROVE unit * div(y) = y
  <2>1. PICK k \in Int : y = unit * k
    BY <1>2, WholeIs
  <2>2. ((2 * unit) * k + unit) \div (2 * unit) = k
    BY Quotient
  <2>3. (2 * unit) * k + unit = 2 * y + unit
    BY <2>1
  <2>4. QED
    BY <2>1, <2>2, <2>3
<1> HIDE DEF div, mod
<1>3. ASSUME NEW y \in Int
      PROVE  /\ 2 * (unit * div(y) - y) <= unit /\ 2 * (y - unit * div(y)) <= unit
             /\ unit * div(y) \in Int
  <2>1. (2 * unit) * div(y) = 2 * (unit * div(y)) /\ unit * div(y) \in Int
    BY <1>1
  <2>2. QED
    BY <1>1, <2>1
<1>4. ASSUME NEW y \in Int PROVE Whole(unit * div(y), unit) /\ Whole(-(unit * div(y)), unit)
  <2>1. Whole(unit * div(y), unit)
    BY <1>1, <1>3, WholeIs
  <2>2. QED
    BY <1>3, <2>1, WholePlus
<1>5. Stored(x, unit) = IF x >= 0 THEN unit * div(x) ELSE -(unit * div(-x))
  BY DEF Stored, div
<1>6. CASE x >= 0
  BY <1>2, <1>3, <1>4, <1>5, <1>6 DEF Within
<1>7. CASE ~(x >= 0)
  <2>1. -x \in Int /\ (Whole(x, unit) => Whole(-x, unit))
    BY WholePlus
  <2>2. PICK z \in Int : z = unit * div(-x)
    BY <1>3, <2>1
  <2>3. Stored(x, unit) = -z /\ 2 * (z - (-x)) <= unit /\ 2 * ((-x) - z) <= unit
    BY <1>3, <1>5, <1>7, <2>1, <2>2
  <2>4. Within(Stored(x, unit), x, 1, unit)
    BY <2>2, <2>3 DEF Within
  <2>5. Whole(Stored(x, unit), unit)
    BY <1>4, <2>1, <2>2, <2>3
  <2>6. Whole(x, unit) => Stored(x, unit) = x
    BY <1>2, <2>1, <2>2, <2>3
  <2>7. QED
    BY <2>2, <2>3, <2>4, <2>5, <2>6
<1>8. QED
  BY <1>6, <1>7

\* What is near, element by element, is near in the sum.
LEMMA SumWithin ==
    ASSUME NEW S, IsFiniteSet(S), NEW unit \in Nat \ {0}, NEW h, NEW k,
           \A x \in S : h[x] \in Int /\ k[x] \in Int /\ Within(h[x], 0, k[x], unit)
    PROVE  Within(Sum(h, S), 0, Sum(k, S), unit)
<1> DEFINE Bad == {T \in SUBSET S : ~Within(Sum(h, T), 0, Sum(k, T), unit)}
<1>1. SUFFICES ASSUME Bad # {} PROVE FALSE
  OBVIOUS
<1>2. PICK T \in Bad : IsFiniteSet(T) /\ \A U \in SUBSET T : U # T => U \notin Bad
  <2>1. Bad \subseteq SUBSET S
    OBVIOUS
  <2> HIDE DEF Bad
  <2>2. QED
    BY <1>1, <2>1, Smallest
<1>3. T # {}
  <2>1. Sum(h, {}) = 0 /\ Sum(k, {}) = 0
    BY SumEmpty
  <2>2. Within(0, 0, 0, unit)
    BY DEF Within
  <2>3. {} \notin Bad
    BY <2>1, <2>2
  <2>4. QED
    BY <2>3
<1>4. PICK x \in T : TRUE
  BY <1>3
<1>5. T \ {x} \in SUBSET S /\ Within(Sum(h, T \ {x}), 0, Sum(k, T \ {x}), unit)
  BY <1>2, <1>4
<1>6. /\ Sum(h, T) = h[x] + Sum(h, T \ {x}) /\ Sum(k, T) = k[x] + Sum(k, T \ {x})
  BY <1>2, SumRemove
<1>7. Sum(h, T \ {x}) \in Int /\ Sum(k, T \ {x}) \in Int
  <2>1. IsFiniteSet(T \ {x})
    BY <1>2, FS_RemoveElement
  <2>2. QED
    BY <1>5, <2>1, SumInt
<1>8. unit * (k[x] + Sum(k, T \ {x})) = unit * k[x] + unit * Sum(k, T \ {x})
  BY <1>7
<1>9. Within(Sum(h, T), 0, Sum(k, T), unit)
  BY <1>5, <1>6, <1>7, <1>8 DEF Within
<1>10. QED
  BY <1>2, <1>9

\* Between two amounts that the column keeps there is a whole step.
LEMMA WholeSteps ==
    ASSUME NEW unit \in Nat \ {0}, NEW x \in Int, NEW y \in Int,
           Whole(x, unit), Whole(y, unit), x > y - unit
    PROVE  x >= y
<1>1. PICK j \in Int : x = unit * j
  BY WholeIs
<1>2. PICK k \in Int : y = unit * k
  BY WholeIs
<1>3. CASE k - j >= 1
  <2>1. unit * (k - j) >= unit
    BY <1>3
  <2>2. unit * (k - j) = y - x
    BY <1>1, <1>2
  <2>3. QED
    BY <2>1, <2>2
<1>4. CASE k - j <= 0
  <2>1. unit * (j - k) >= 0
    BY <1>4
  <2>2. unit * (j - k) = x - y
    BY <1>1, <1>2
  <2>3. QED
    BY <2>1, <2>2
<1>5. QED
  BY <1>3, <1>4

\* Rounding does not pass an amount that the column keeps.
LEMMA StoredAbove ==
    ASSUME NEW unit \in Nat \ {0}, NEW x \in Int, NEW y \in Int, Whole(y, unit), y <= x
    PROVE  y <= Stored(x, unit)
<1>1. PICK z \in Int : /\ z = Stored(x, unit) /\ Whole(z, unit)
                       /\ 2 * (z - x) <= unit * 1 /\ 2 * (x - z) <= unit * 1
  BY StoredNear DEF Within
<1>2. z > y - unit
  BY <1>1
<1>3. QED
  BY <1>1, <1>2, WholeSteps

\* Halves are rounded away from zero: a sum that is not negative rounds as its parts do,
\* but for a negative part that ends in half a step.
LEMMA StoredSum ==
    ASSUME NEW unit \in Nat \ {0}, NEW b \in Int, NEW d \in Int, Whole(b, unit), b + d >= 0
    PROVE  Stored(b + d, unit)
           = b + (Stored(d, unit) + IF d < 0 /\ (2 * d) % (2 * unit) = unit THEN unit ELSE 0)
<1>0. PICK w \in Nat \ {0} : w = 2 * unit
  OBVIOUS
<1>1. unit \in 0..(w - 1) /\ w = unit + unit
  BY <1>0
<1>2. PICK q \in Int, m \in 0..(w - 1) : 2 * d + unit = w * q + m /\ q = (2 * d + unit) \div w
  <2>1. 2 * d + unit \in Int
    OBVIOUS
  <2>2. QED
    BY <2>1
<1>3. PICK k \in Int : b = unit * k
  BY WholeIs
<1>4. PICK z \in Int : z = unit * q
  OBVIOUS
<1>5. w * q = 2 * z /\ w * (k + q) = 2 * b + 2 * z
  BY <1>0, <1>3, <1>4
<1>6. Stored(b + d, unit) = b + z
  <2>1. 2 * (b + d) + unit = w * (k + q) + m /\ k + q \in Int
    BY <1>2, <1>5
  <2>2. (w * (k + q) + m) \div w = k + q
    <3>1. k + q \in Int
      OBVIOUS
    <3>2. QED
      BY <3>1, Quotient
  <2>3. unit * (k + q) = b + z
    BY <1>3, <1>4
  <2>4. QED
    BY <1>0, <1>2, <2>1, <2>2, <2>3 DEF Stored
<1>7. CASE d >= 0
  <2>1. Stored(d, unit) = unit * ((2 * d + unit) \div w)
    BY <1>0, <1>7 DEF Stored
  <2>2. Stored(d, unit) = z
    BY <1>2, <1>4, <2>1
  <2>3. QED
    BY <1>6, <1>7, <2>2
<1>8. ASSUME d < 0 PROVE Stored(d, unit) = -(unit * ((2 * (-d) + unit) \div w))
  BY <1>0, <1>8 DEF Stored
<1>9. CASE d < 0 /\ m = 0
  <2>1. w * (1 - q) = w - 2 * z /\ w * (q - 1) = 2 * z - w
    BY <1>0, <1>4
  <2>2. 2 * (-d) + unit = w * (1 - q) + 0 /\ 2 * d = w * (q - 1) + unit
    BY <1>1, <1>2, <1>5, <1>9, <2>1
  <2>3. (w * (1 - q) + 0) \div w = 1 - q /\ (w * (q - 1) + unit) % w = unit
    <3>1. 1 - q \in Int /\ q - 1 \in Int /\ 0 \in 0..(w - 1)
      BY <1>1
    <3>2. QED
      BY <1>1, <3>1, Quotient
  <2>4. unit * (1 - q) = unit - z
    BY <1>4
  <2>5. Stored(d, unit) = z - unit
    <3>1. (2 * (-d) + unit) \div w = 1 - q
      BY <2>2, <2>3
    <3>2. Stored(d, unit) = -(unit * (1 - q))
      BY <1>8, <1>9, <3>1
    <3>3. PICK c \in Int : c = unit * (1 - q) /\ c = unit - z
      BY <2>4
    <3>4. QED
      BY <3>2, <3>3
  <2>6. QED
    BY <1>0, <1>6, <1>9, <2>2, <2>3, <2>5
<1>10. CASE d < 0 /\ m # 0
  <2>1. w * (-q) = -(2 * z) /\ w * (q - 1) = 2 * z - w /\ unit * (-q) = -z
    BY <1>0, <1>4
  <2>2. 2 * (-d) + unit = w * (-q) + (w - m)
    <3>1. PICK c \in Int, e \in Int : /\ c = w * q /\ e = w * (-q)
                                    /\ e = -c /\ 2 * d + unit = c + m
      BY <1>2, <1>5, <2>1
    <3>2. QED
      BY <1>1, <3>1
  <2>3. w - m \in 0..(w - 1) /\ -q \in Int
    BY <1>1, <1>2, <1>10
  <2>4. (w * (-q) + (w - m)) \div w = -q
    <3>1. QED
      BY <1>1, <2>3, Quotient
  <2>5. Stored(d, unit) = z
    <3>1. (2 * (-d) + unit) \div w = -q
      BY <2>2, <2>4
    <3>2. Stored(d, unit) = -(unit * (-q))
      BY <1>8, <1>10, <3>1
    <3>3. PICK c \in Int : c = unit * (-q) /\ c = -z
      BY <2>1
    <3>4. QED
      BY <3>2, <3>3
  <2>6. (2 * d) % w # unit
    <3>1. CASE m >= unit
      <4>1. 2 * d = w * q + (m - unit) /\ m - unit \in 0..(w - 1) /\ m - unit # unit
        BY <1>1, <1>2, <3>1
      <4>2. (w * q + (m - unit)) % w = m - unit
        <5>1. QED
          BY <1>1, <4>1, Quotient
      <4>3. QED
        BY <4>1, <4>2
    <3>2. CASE m < unit
      <4>1. 2 * d = w * (q - 1) + (m + unit) /\ m + unit \in 0..(w - 1) /\ m + unit # unit
        BY <1>1, <1>2, <1>5, <1>10, <2>1, <3>2
      <4>2. (w * (q - 1) + (m + unit)) % w = m + unit
        <5>1. q - 1 \in Int
          OBVIOUS
        <5>2. QED
          BY <1>1, <4>1, <5>1, Quotient
      <4>3. QED
        BY <4>1, <4>2
    <3>3. QED
      BY <1>1, <1>2, <3>1, <3>2
  <2>7. QED
    BY <1>0, <1>6, <1>10, <2>5, <2>6
<1>11. QED
  BY <1>2, <1>7, <1>9, <1>10

\* The least amount, from x on, that the column keeps.
RoundedUp(x, unit) == -(unit * ((-x) \div unit))

LEMMA RoundedUpIs ==
    ASSUME NEW unit \in Nat \ {0}, NEW x \in Int
    PROVE  /\ RoundedUp(x, unit) \in Int /\ Whole(RoundedUp(x, unit), unit)
           /\ x <= RoundedUp(x, unit)
           /\ \A y \in Int : Whole(y, unit) /\ x <= y => RoundedUp(x, unit) <= y
<1>1. PICK d \in Int, r \in 0..(unit - 1) : d = (-x) \div unit /\ -x = unit * d + r
  OBVIOUS
<1>2. unit * d \in Int /\ unit * (-d) = -(unit * d) /\ -d \in Int
  OBVIOUS
<1>3. PICK c \in Int : c = RoundedUp(x, unit) /\ c = unit * (-d) /\ c = x + r
  BY <1>1, <1>2 DEF RoundedUp
<1>4. Whole(c, unit)
  BY <1>2, <1>3, WholeIs
<1>5. ASSUME NEW y \in Int, Whole(y, unit), x <= y PROVE c <= y
  <2>1. y > c - unit
    BY <1>1, <1>3, <1>5
  <2>2. QED
    BY <1>4, <1>5, <2>1, WholeSteps
<1>6. QED
  BY <1>1, <1>3, <1>4, <1>5
=============================================================================
