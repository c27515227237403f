------------------------------ MODULE FoldLemmas ------------------------------
(***************************************************************************)
(* Lemmas about the recursive operators the models are built from: sums of *)
(* functions and the concatenation of sequences.                           *)
(*                                                                         *)
(* The induction theorems of the library take the predicate as an operator *)
(* parameter, which the provers cannot instantiate.  That the finite       *)
(* subsets of a set are well-founded has no such parameter; the two        *)
(* principles below follow from it, with a set in place of the predicate.  *)
(***************************************************************************)
EXTENDS Collections, FiniteSetTheorems, SequenceTheorems, TLAPS

-----------------------------------------------------------------------------
(* Induction. *)

\* A property that a finite set has if it has it without any one of its
\* elements holds of every finite set.
LEMMA FiniteInduction ==
  ASSUME NEW S, IsFiniteSet(S), NEW C,
         \A T \in SUBSET S : (\A x \in T : T \ {x} \in C) => T \in C
  PROVE  \A T \in SUBSET S : T \in C
<1> DEFINE Bad == {T \in SUBSET S : T \notin C}
<1>1. SUFFICES ASSUME Bad # {} PROVE FALSE
  OBVIOUS
<1>2. Bad \subseteq FiniteSubsetsOf(S)
  BY FS_Subset DEF FiniteSubsetsOf
<1>3. PICK T \in Bad : \A U \in Bad : <<U, T>> \notin StrictSubsetOrdering(S)
  <2> HIDE DEF Bad
  <2> QED BY <1>1, <1>2, FS_StrictSubsetOrderingWellFounded, WFMin
<1>4. ASSUME NEW x \in T PROVE T \ {x} \notin Bad
  <2>1. <<T \ {x}, T>> \in StrictSubsetOrdering(S)
    BY DEF StrictSubsetOrdering
  <2> QED BY <1>3, <2>1
<1> QED BY <1>4

\* Induction over the natural numbers.
LEMMA SetNatInduction ==
  ASSUME NEW C, 0 \in C, \A n \in Nat : n \in C => n + 1 \in C
  PROVE  \A n \in Nat : n \in C
<1> SUFFICES ASSUME NEW m \in Nat, m \notin C PROVE FALSE
  OBVIOUS
<1> DEFINE D == {T \in SUBSET (1..m) : \A n \in 0..m : T = 1..n => n \in C}
<1>1. ASSUME NEW T \in SUBSET (1..m), \A x \in T : T \ {x} \in D
      PROVE  T \in D
  <2> SUFFICES ASSUME NEW n \in 0..m, T = 1..n PROVE n \in C
    OBVIOUS
  <2>1. CASE n = 0
    BY <2>1
  <2>2. CASE n # 0
    <3>1. n \in T /\ T \ {n} = 1..(n - 1)
      BY <2>2
    <3>2. n - 1 \in C
      BY <1>1, <2>2, <3>1
    <3> QED BY <2>2, <3>2
  <2> QED BY <2>1, <2>2
<1>2. IsFiniteSet(1..m)
  BY FS_Interval
<1>3. 1..m \in D
  <2> HIDE DEF D
  <2>1. \A T \in SUBSET (1..m) : T \in D
    BY <1>1, <1>2, FiniteInduction
  <2> QED BY <2>1
<1> QED BY <1>3

-----------------------------------------------------------------------------
(* Collections.  SumOf(f) adds up f[x] over the domain of f, one element after     *)
(* another in an order that is left open.                                  *)

\* What g says of a set is the sum of f over it.
Adds(f, g, S) ==
    \A T \in SUBSET S :
        g[T] = IF T = {} THEN 0
               ELSE LET x == CHOOSE y \in T : TRUE IN f[x] + g[T \ {x}]

IsSum(f, g, S) ==
    g = [T \in SUBSET S |-> IF T = {} THEN 0
                            ELSE LET x == CHOOSE y \in T : TRUE IN f[x] + g[T \ {x}]]

\* There are such functions: on the sets of up to n elements for every n.
LEMMA SumExists ==
  ASSUME NEW f, NEW S, IsFiniteSet(S)
  PROVE  \E g : IsSum(f, g, S)
<1> DEFINE E(g, T) == IF T = {} THEN 0
                      ELSE LET x == CHOOSE y \in T : TRUE IN f[x] + g[T \ {x}]
           UpTo(g, n) == /\ g = [T \in SUBSET S |-> g[T]]
                         /\ \A T \in SUBSET S : Cardinality(T) <= n => g[T] = E(g, T)
           C == {n \in Nat : \E g : UpTo(g, n)}
<1>1. \A T \in SUBSET S : IsFiniteSet(T) /\ Cardinality(T) \in Nat /\ Cardinality(T) <= Cardinality(S)
  BY FS_Subset, FS_CardinalityType
<1>2. 0 \in C
  <2> DEFINE g == [T \in SUBSET S |-> 0]
  <2>1. ASSUME NEW T \in SUBSET S, Cardinality(T) <= 0 PROVE T = {}
    BY <1>1, <2>1, FS_EmptySet
  <2>2. UpTo(g, 0)
    BY <2>1
  <2> QED BY <2>2
<1>3. ASSUME NEW n \in Nat, n \in C PROVE n + 1 \in C
  <2>1. PICK g : UpTo(g, n)
    BY <1>3
  <2> DEFINE h == [T \in SUBSET S |-> IF Cardinality(T) <= n THEN g[T] ELSE E(g, T)]
  <2>2. ASSUME NEW T \in SUBSET S, Cardinality(T) <= n + 1, T # {}
        PROVE  h[T] = E(h, T)
    <3> DEFINE x == CHOOSE y \in T : TRUE
    <3>1. x \in T
      BY <2>2
    <3>2. Cardinality(T \ {x}) = Cardinality(T) - 1
      BY <1>1, <3>1, FS_RemoveElement
    <3>3. h[T \ {x}] = g[T \ {x}]
      BY <1>1, <2>2, <3>2
    <3>4. h[T] = E(g, T)
      BY <2>1
    <3> QED BY <2>2, <3>3, <3>4
  <2>3. h[{}] = 0
    BY <2>1
  <2>4. h = [T \in SUBSET S |-> h[T]]
    OBVIOUS
  <2> HIDE DEF h
  <2>5. \A T \in SUBSET S : Cardinality(T) <= n + 1 => h[T] = E(h, T)
    BY <2>2, <2>3
  <2>6. UpTo(h, n + 1)
    BY <2>4, <2>5
  <2> HIDE DEF UpTo
  <2> QED BY <2>6
<1>4. Cardinality(S) \in C
  <2> HIDE DEF C
  <2> QED BY <1>1, <1>2, <1>3, SetNatInduction
<1>5. PICK g : UpTo(g, Cardinality(S))
  BY <1>4
<1>6. IsSum(f, g, S)
  BY <1>1, <1>5 DEF IsSum
<1> QED BY <1>6

\* Two of them agree where both are defined and the functions they sum do.
LEMMA SumUnique ==
  ASSUME NEW f, NEW g, NEW S, Adds(f, g, S),
         NEW e, NEW h, NEW T, Adds(e, h, T),
         NEW U, U \subseteq S, U \subseteq T, IsFiniteSet(U), \A x \in U : e[x] = f[x]
  PROVE  h[U] = g[U]
<1> DEFINE C == {V \in SUBSET U : h[V] = g[V]}
<1>1. ASSUME NEW V \in SUBSET U, \A x \in V : V \ {x} \in C PROVE V \in C
  <2>1. CASE V = {}
    BY <2>1 DEF Adds
  <2>2. CASE V # {}
    <3> DEFINE x == CHOOSE y \in V : TRUE
    <3>1. x \in V
      BY <2>2
    <3>2. g[V] = f[x] + g[V \ {x}] /\ h[V] = e[x] + h[V \ {x}]
      BY <2>2 DEF Adds
    <3>3. h[V \ {x}] = g[V \ {x}] /\ e[x] = f[x]
      BY <1>1, <3>1
    <3> QED BY <3>2, <3>3
  <2> QED BY <2>1, <2>2
<1>2. \A V \in SUBSET U : V \in C
  <2> HIDE DEF C
  <2> QED BY <1>1, FiniteInduction
<1> QED BY <1>2

\* A sum over a part is what any such function says of the part.
LEMMA SumOfPart ==
  ASSUME NEW f, NEW g, NEW S, IsFiniteSet(S), Adds(f, g, S), NEW T \in SUBSET S
  PROVE  SumOf(Restrict(f, T)) = g[T]
<1> DEFINE p == Restrict(f, T)
<1>1. DOMAIN p = T /\ \A x \in T : p[x] = f[x]
  BY DEF Restrict
<1>2. IsFiniteSet(T)
  BY FS_Subset
<1> DEFINE h == CHOOSE h : IsSum(p, h, T)
<1>3. SumOf(p) = h[T]
  <2> HIDE DEF p
  <2> QED BY <1>1 DEF SumOf, FoldFunction, FoldFunctionOnSet, MapThenFoldSet, IsSum
<1>4. IsSum(p, h, T)
  <2> HIDE DEF p
  <2> QED BY <1>2, SumExists
<1>5. Adds(p, h, T)
  BY <1>4 DEF IsSum, Adds
<1>6. h[T] = g[T]
  <2> HIDE DEF p, h
  <2> QED BY <1>1, <1>2, <1>5, SumUnique
<1> QED BY <1>3, <1>6

\* The sum of a function with a finite domain, taken apart as it is defined.
LEMMA SumGraph ==
  ASSUME NEW f, NEW S, IsFiniteSet(S)
  PROVE  \E g : Adds(f, g, S) /\ \A T \in SUBSET S : SumOf(Restrict(f, T)) = g[T]
<1>1. PICK g : IsSum(f, g, S)
  BY SumExists
<1>2. Adds(f, g, S)
  BY <1>1 DEF IsSum, Adds
<1> QED BY <1>2, SumOfPart

LEMMA EmptySum == ASSUME NEW f PROVE SumOf(Restrict(f, {})) = 0
<1>1. PICK g : Adds(f, g, {}) /\ \A T \in SUBSET {} : SumOf(Restrict(f, T)) = g[T]
  BY FS_EmptySet, SumGraph
<1> QED BY <1>1 DEF Adds

\* A sum of integers is an integer, and one of natural numbers a natural number.
LEMMA SumType ==
  ASSUME NEW N, N = Nat \/ N = Int, NEW S, IsFiniteSet(S), NEW f, \A x \in S : f[x] \in N
  PROVE  SumOf(Restrict(f, S)) \in N
<1>1. PICK g : Adds(f, g, S) /\ \A T \in SUBSET S : SumOf(Restrict(f, T)) = g[T]
  BY SumGraph
<1> DEFINE C == {T \in SUBSET S : g[T] \in N}
<1>2. ASSUME NEW T \in SUBSET S, \A x \in T : T \ {x} \in C PROVE T \in C
  <2>1. CASE T = {}
    <3>1. g[T] = 0
      BY <1>1, <2>1 DEF Adds
    <3>2. 0 \in N
      OBVIOUS
    <3> QED BY <3>1, <3>2
  <2>2. CASE T # {}
    <3> DEFINE x == CHOOSE y \in T : TRUE
    <3>1. x \in T /\ g[T] = f[x] + g[T \ {x}]
      BY <1>1, <2>2 DEF Adds
    <3>2. f[x] \in N /\ g[T \ {x}] \in N
      BY <1>2, <3>1
    <3> HIDE DEF x
    <3>3. CASE N = Nat
      BY <3>1, <3>2, <3>3
    <3>4. CASE N = Int
      BY <3>1, <3>2, <3>4
    <3> QED BY <3>1, <3>2, <3>3, <3>4
  <2> QED BY <2>1, <2>2
<1>3. \A T \in SUBSET S : T \in C
  <2> HIDE DEF C
  <2> QED BY <1>2, FiniteInduction
<1> QED BY <1>1, <1>3

\* Any element may be taken out first.
LEMMA SumApart ==
  ASSUME NEW S, IsFiniteSet(S), NEW f, \A x \in S : f[x] \in Int,
         NEW T \in SUBSET S, NEW x \in T
  PROVE  SumOf(Restrict(f, T)) = f[x] + SumOf(Restrict(f, T \ {x}))
<1>1. PICK g : Adds(f, g, S) /\ \A U \in SUBSET S : SumOf(Restrict(f, U)) = g[U]
  BY SumGraph
<1>2. \A U \in SUBSET S : g[U] \in Int
  <2> TAKE U \in SUBSET S
  <2>1. IsFiniteSet(U) /\ \A y \in U : f[y] \in Int
    BY FS_Subset
  <2>2. SumOf(Restrict(f, U)) \in Int
    BY <2>1, SumType
  <2> QED BY <1>1, <2>2
<1> DEFINE C == {U \in SUBSET S : \A y \in U : g[U] = f[y] + g[U \ {y}]}
<1>3. ASSUME NEW U \in SUBSET S, \A y \in U : U \ {y} \in C PROVE U \in C
  <2> SUFFICES ASSUME NEW y \in U PROVE g[U] = f[y] + g[U \ {y}]
    OBVIOUS
  <2> DEFINE z == CHOOSE w \in U : TRUE
  <2>1. z \in U /\ g[U] = f[z] + g[U \ {z}]
    BY <1>1 DEF Adds
  <2> HIDE DEF z
  <2>2. CASE y = z
    BY <2>1, <2>2
  <2>3. CASE y # z
    <3> DEFINE r == g[(U \ {y}) \ {z}]
    <3>1. (U \ {z}) \ {y} = (U \ {y}) \ {z}
      OBVIOUS
    <3>2. g[U \ {z}] = f[y] + r
      BY <1>3, <2>1, <2>3, <3>1
    <3>3. g[U \ {y}] = f[z] + r
      BY <1>3, <2>1, <2>3
    <3>4. r \in Int /\ f[y] \in Int /\ f[z] \in Int
      BY <1>2, <2>1
    <3> HIDE DEF r
    <3> QED BY <2>1, <3>2, <3>3, <3>4
  <2> QED BY <2>2, <2>3
<1>4. \A U \in SUBSET S : U \in C
  <2> HIDE DEF C
  <2> QED BY <1>3, FiniteInduction
<1> QED BY <1>1, <1>4

\* A sum is the sum over a part and the rest.
LEMMA SumSplit ==
  ASSUME NEW S, IsFiniteSet(S), NEW f, \A x \in S : f[x] \in Int, NEW T \in SUBSET S
  PROVE  SumOf(Restrict(f, S)) = SumOf(Restrict(f, T)) + SumOf(Restrict(f, S \ T))
<1> DEFINE sum(U) == SumOf(Restrict(f, U))
           C == {U \in SUBSET T : sum((S \ T) \cup U) = sum(U) + sum(S \ T)}
<1>1. ASSUME NEW U \in SUBSET S PROVE sum(U) \in Int
  BY FS_Subset, SumType
<1>2. ASSUME NEW U \in SUBSET T, \A x \in U : U \ {x} \in C PROVE U \in C
  <2>1. CASE U = {}
    <3>1. sum(U) = 0
      BY <2>1, EmptySum
    <3>2. (S \ T) \cup U = S \ T
      BY <2>1
    <3>3. sum((S \ T) \cup U) = sum(S \ T)
      BY <3>2
    <3>4. sum(S \ T) \in Int
      BY <1>1
    <3>5. sum((S \ T) \cup U) = sum(U) + sum(S \ T)
      <4> HIDE DEF sum
      <4> QED BY <3>1, <3>3, <3>4
    <3> QED BY <3>5
  <2>2. CASE U # {}
    <3> PICK x \in U : TRUE
      BY <2>2
    <3> DEFINE V == U \ {x}
    <3> DEFINE all == sum((S \ T) \cup U)
               rest == sum(S \ T)
               less == sum(V)
    <3>1. ((S \ T) \cup U) \ {x} = (S \ T) \cup V
      OBVIOUS
    <3>2. all = f[x] + sum((S \ T) \cup V)
      BY <3>1, SumApart
    <3>3. sum(U) = f[x] + less
      BY SumApart
    <3>4. sum((S \ T) \cup V) = less + rest
      BY <1>2
    <3>5. less \in Int /\ rest \in Int /\ f[x] \in Int
      BY <1>1
    <3>6. all = sum(U) + rest
      <4> HIDE DEF all, less, rest, sum, V
      <4> QED BY <3>2, <3>3, <3>4, <3>5
    <3> QED BY <3>6
  <2> QED BY <2>1, <2>2
<1>3. T \in C
  <2>1. IsFiniteSet(T)
    BY FS_Subset
  <2> HIDE DEF C
  <2>2. \A U \in SUBSET T : U \in C
    BY <1>2, <2>1, FiniteInduction
  <2> QED BY <2>2
<1>4. (S \ T) \cup T = S
  OBVIOUS
<1> QED BY <1>3, <1>4

\* Summing part by part gives the sum.
LEMMA SumByParts ==
  ASSUME NEW S, IsFiniteSet(S), NEW f, \A x \in S : f[x] \in Int,
         NEW K, IsFiniteSet(K), NEW part, \A k \in K : part[k] \subseteq S,
         \A x \in S : \E k \in K : x \in part[k],
         \A k, l \in K : k # l => part[k] \cap part[l] = {},
         NEW q, \A k \in K : q[k] = SumOf(Restrict(f, part[k]))
  PROVE  SumOf(Restrict(q, K)) = SumOf(Restrict(f, S))
<1> DEFINE In(L) == {x \in S : \E k \in L : x \in part[k]}
           C == {L \in SUBSET K : SumOf(Restrict(q, L)) = SumOf(Restrict(f, In(L)))}
<1>1. \A k \in K : q[k] \in Int
  <2> TAKE k \in K
  <2>1. IsFiniteSet(part[k]) /\ \A x \in part[k] : f[x] \in Int
    BY FS_Subset
  <2> QED BY <2>1, SumType
<1>2. ASSUME NEW L \in SUBSET K, \A k \in L : L \ {k} \in C PROVE L \in C
  <2>1. CASE L = {}
    <3>1. In(L) = {}
      BY <2>1
    <3> QED BY <2>1, <3>1, EmptySum
  <2>2. CASE L # {}
    <3> PICK k \in L : TRUE
      BY <2>2
    <3>1. SumOf(Restrict(q, L)) = q[k] + SumOf(Restrict(q, L \ {k}))
      BY <1>1, SumApart
    <3>2. SumOf(Restrict(q, L \ {k})) = SumOf(Restrict(f, In(L \ {k})))
      BY <1>2
    <3>3. part[k] \in SUBSET In(L) /\ In(L) \ part[k] = In(L \ {k})
      OBVIOUS
    <3>4. IsFiniteSet(In(L)) /\ \A x \in In(L) : f[x] \in Int
      BY FS_Subset
    <3>5. SumOf(Restrict(f, In(L))) =
              SumOf(Restrict(f, part[k])) + SumOf(Restrict(f, In(L \ {k})))
      <4> DEFINE R == In(L)
      <4>1. part[k] \in SUBSET R /\ IsFiniteSet(R) /\ \A x \in R : f[x] \in Int
        BY <3>3, <3>4
      <4> HIDE DEF R
      <4>2. SumOf(Restrict(f, R)) = SumOf(Restrict(f, part[k])) + SumOf(Restrict(f, R \ part[k]))
        BY <4>1, SumSplit
      <4> QED BY <4>2, <3>3 DEF R
    <3> QED BY <3>1, <3>2, <3>5
  <2> QED BY <2>1, <2>2
<1>3. K \in C
  <2> HIDE DEF C
  <2>1. \A L \in SUBSET K : L \in C
    BY <1>2, FiniteInduction
  <2> QED BY <2>1
<1>4. In(K) = S
  OBVIOUS
<1> QED BY <1>3, <1>4

\* A sum of natural numbers is at least each of them, and 0 if they all are.
LEMMA SumBounds ==
  ASSUME NEW S, IsFiniteSet(S), NEW f, \A x \in S : f[x] \in Nat
  PROVE  /\ \A x \in S : f[x] <= SumOf(Restrict(f, S))
         /\ (\A x \in S : f[x] = 0) => SumOf(Restrict(f, S)) = 0
<1>1. \A x \in S : f[x] <= SumOf(Restrict(f, S))
  <2> TAKE x \in S
  <2>1. SumOf(Restrict(f, S)) = f[x] + SumOf(Restrict(f, S \ {x}))
    BY SumApart
  <2>2. SumOf(Restrict(f, S \ {x})) \in Nat
    BY FS_Subset, SumType
  <2> QED BY <2>1, <2>2
<1>2. ASSUME \A x \in S : f[x] = 0 PROVE SumOf(Restrict(f, S)) = 0
  <2> DEFINE C == {T \in SUBSET S : SumOf(Restrict(f, T)) = 0}
  <2>1. ASSUME NEW T \in SUBSET S, \A x \in T : T \ {x} \in C PROVE T \in C
    <3>1. CASE T = {}
      BY <3>1, EmptySum
    <3>2. CASE T # {}
      <4> PICK x \in T : TRUE
        BY <3>2
      <4>1. SumOf(Restrict(f, T)) = f[x] + SumOf(Restrict(f, T \ {x}))
        BY SumApart
      <4>2. f[x] = 0 /\ SumOf(Restrict(f, T \ {x})) = 0
        BY <1>2, <2>1
      <4> QED BY <4>1, <4>2
    <3> QED BY <3>1, <3>2
  <2>2. \A T \in SUBSET S : T \in C
    <3> HIDE DEF C
    <3> QED BY <2>1, FiniteInduction
  <2> QED BY <2>2
<1> QED BY <1>1, <1>2

-----------------------------------------------------------------------------
(* The concatenation of a sequence of sequences. *)

\* The concatenation has what the first sequence has if each further one
\* keeps it: C[n] are the sequences with the property of the first n.
LEMMA FlattenInduction ==
  ASSUME NEW s, NEW n \in Nat \ {0}, Len(s) = n,
         NEW C, s[1] \in C[1], \A i \in 2..n : \A y \in C[i - 1] : y \o s[i] \in C[i]
  PROVE  FlattenSeq(s) \in C[n]
<1> DEFINE E(g, i) == IF i = 1 THEN s[i] ELSE g[i - 1] \o s[i]
           UpTo(g, m) == /\ g = [i \in 1..n |-> g[i]]
                         /\ \A i \in 1..n : i <= m => g[i] = E(g, i)
           D == {m \in Nat : \E g : UpTo(g, m)}
<1>1. 0 \in D
  <2>1. UpTo([i \in 1..n |-> 0], 0)
    OBVIOUS
  <2> QED BY <2>1
<1>2. ASSUME NEW m \in Nat, m \in D PROVE m + 1 \in D
  <2>1. PICK g : UpTo(g, m)
    BY <1>2
  <2> DEFINE h == [i \in 1..n |-> IF i <= m THEN g[i] ELSE E(g, i)]
  <2>2. h = [i \in 1..n |-> h[i]]
    OBVIOUS
  <2>3. ASSUME NEW i \in 1..n, i <= m + 1 PROVE h[i] = E(h, i)
    <3>1. h[i] = E(g, i)
      BY <2>1
    <3>2. i # 1 => h[i - 1] = g[i - 1]
      BY <2>3
    <3> HIDE DEF h
    <3> QED BY <3>1, <3>2
  <2> HIDE DEF h
  <2>4. UpTo(h, m + 1)
    BY <2>2, <2>3
  <2> HIDE DEF UpTo
  <2> QED BY <2>4
<1>3. n \in D
  <2> HIDE DEF D
  <2> QED BY <1>1, <1>2, SetNatInduction
<1> DEFINE Flattens(g) == g = [i \in 1..n |-> IF i = 1 THEN s[i] ELSE g[i - 1] \o s[i]]
<1>4. \E g : Flattens(g)
  <2>1. PICK g : UpTo(g, n)
    BY <1>3
  <2>2. /\ g = [i \in 1..n |-> g[i]]
        /\ \A i \in 1..n : i <= n => g[i] = E(g, i)
    BY <2>1
  <2>3. \A i \in 1..n : g[i] = E(g, i)
    <3> HIDE DEF E
    <3> QED BY <2>2
  <2>4. Flattens(g)
    BY <2>2, <2>3
  <2> HIDE DEF Flattens
  <2> QED BY <2>4
<1> DEFINE g == CHOOSE g : Flattens(g)
<1>5. FlattenSeq(s) = g[n]
  BY DEF FlattenSeq
<1>6. Flattens(g)
  <2> HIDE DEF Flattens
  <2> QED BY <1>4
<1>7. g[1] = s[1] /\ \A i \in 2..n : g[i] = g[i - 1] \o s[i]
  <2> HIDE DEF g
  <2>1. \A i \in 1..n : g[i] = IF i = 1 THEN s[i] ELSE g[i - 1] \o s[i]
    BY <1>6
  <2>2. g[1] = s[1]
    BY <2>1
  <2>3. ASSUME NEW i \in 2..n PROVE g[i] = g[i - 1] \o s[i]
    <3>1. i \in 1..n /\ i # 1
      OBVIOUS
    <3> QED BY <2>1, <3>1
  <2> QED BY <2>2, <2>3
<1> HIDE DEF g
<1> DEFINE F == {m \in Nat : m + 1 <= n => g[m + 1] \in C[m + 1]}
<1>8. 0 \in F
  BY <1>7
<1>9. ASSUME NEW m \in Nat, m \in F PROVE m + 1 \in F
  <2> SUFFICES ASSUME m + 2 <= n PROVE g[m + 2] \in C[m + 2]
    OBVIOUS
  <2>1. g[m + 1] \in C[m + 1] /\ m + 2 \in 2..n /\ (m + 2) - 1 = m + 1
    BY <1>9
  <2>2. g[m + 2] = g[m + 1] \o s[m + 2]
    BY <1>7, <2>1
  <2> QED BY <2>1, <2>2
<1>10. n - 1 \in F
  <2> HIDE DEF F
  <2> QED BY <1>8, <1>9, SetNatInduction
<1> QED BY <1>5, <1>10

\* The concatenation of sequences over X is a sequence over X.
LEMMA FlattenType ==
  ASSUME NEW X, NEW s, NEW n \in Nat, Len(s) = n, n = 0 => s = << >>,
         \A i \in 1..n : s[i] \in Seq(X)
  PROVE  FlattenSeq(s) \in Seq(X)
<1>1. CASE n = 0
  BY <1>1 DEF FlattenSeq
<1>2. CASE n # 0
  <2> DEFINE C == [i \in 1..n |-> Seq(X)]
  <2>1. s[1] \in C[1] /\ C[n] = Seq(X)
    BY <1>2
  <2>2. ASSUME NEW i \in 2..n, NEW y \in C[i - 1] PROVE y \o s[i] \in C[i]
    <3>1. y \in Seq(X) /\ s[i] \in Seq(X) /\ C[i] = Seq(X)
      OBVIOUS
    <3>2. y \o s[i] \in Seq(X)
      BY <3>1, ConcatProperties
    <3> QED BY <3>1, <3>2
  <2> HIDE DEF C
  <2>3. FlattenSeq(s) \in C[n]
    BY <1>2, <2>1, <2>2, FlattenInduction
  <2> QED BY <2>1, <2>3
<1> QED BY <1>1, <1>2

-----------------------------------------------------------------------------
(* How many elements of a sequence are in a set. *)

Places(s, T) == {k \in DOMAIN s : s[k] \in T}
CountIn(s, T) == Cardinality(Places(s, T))

LEMMA CountType ==
  ASSUME NEW X, NEW s \in Seq(X), NEW T
  PROVE  /\ IsFiniteSet(Places(s, T))
         /\ CountIn(s, T) \in Nat /\ CountIn(s, T) <= Len(s)
         /\ X \subseteq T => CountIn(s, T) = Len(s)
<1>1. DOMAIN s = 1..Len(s) /\ Len(s) \in Nat
  BY LenProperties
<1>2. IsFiniteSet(1..Len(s)) /\ Cardinality(1..Len(s)) = Len(s)
  <2>1. Cardinality(1..Len(s)) = IF 1 > Len(s) THEN 0 ELSE Len(s) - 1 + 1
    BY <1>1, FS_Interval
  <2> QED BY <1>1, <2>1, FS_Interval
<1>3. Places(s, T) \subseteq 1..Len(s)
  BY <1>1 DEF Places
<1>4. IsFiniteSet(Places(s, T)) /\ Cardinality(Places(s, T)) <= Len(s)
  BY <1>2, <1>3, FS_Subset
<1>5. X \subseteq T => Places(s, T) = 1..Len(s)
  BY <1>1 DEF Places
<1>6. Cardinality(Places(s, T)) \in Nat
  BY <1>4, FS_CardinalityType
<1> QED BY <1>2, <1>4, <1>5, <1>6 DEF CountIn

\* More is counted in a larger set.
LEMMA CountMore ==
  ASSUME NEW X, NEW s \in Seq(X), NEW T, NEW U, T \cap X \subseteq U
  PROVE  CountIn(s, T) <= CountIn(s, U)
<1>1. Places(s, T) \subseteq Places(s, U)
  <2>1. \A k \in DOMAIN s : s[k] \in X
    OBVIOUS
  <2> QED BY <2>1 DEF Places
<1>2. IsFiniteSet(Places(s, U))
  BY CountType
<1> QED BY <1>1, <1>2, FS_Subset DEF CountIn

LEMMA CountNone ==
  ASSUME NEW X, NEW s \in Seq(X), NEW T, T \cap X = {}
  PROVE  CountIn(s, T) = 0
<1>1. Places(s, T) = {}
  BY DEF Places
<1> QED BY <1>1, FS_EmptySet DEF CountIn

\* What is counted in a concatenation is counted in its parts.
LEMMA CountConcat ==
  ASSUME NEW X, NEW r \in Seq(X), NEW s \in Seq(X), NEW T
  PROVE  CountIn(r \o s, T) = CountIn(r, T) + CountIn(s, T)
<1> DEFINE m == Len(r)
           A == Places(r, T)
           B == Places(s, T)
           C == {k \in (m + 1)..(m + Len(s)) : k - m \in B}
<1>1. /\ m \in Nat /\ Len(s) \in Nat /\ DOMAIN r = 1..m /\ DOMAIN s = 1..Len(s)
      /\ r \o s \in Seq(X) /\ Len(r \o s) = m + Len(s) /\ DOMAIN (r \o s) = 1..(m + Len(s))
  BY ConcatProperties, LenProperties
<1>2. \A k \in 1..(m + Len(s)) : (r \o s)[k] = IF k <= m THEN r[k] ELSE s[k - m]
  BY ConcatProperties
<1>3. Places(r \o s, T) = A \cup C
  BY <1>1, <1>2 DEF Places
<1>4. A \cap C = {}
  BY <1>1 DEF Places
<1>5. IsFiniteSet(A) /\ IsFiniteSet(B)
  BY CountType
<1>6. IsFiniteSet(C) /\ Cardinality(C) = Cardinality(B)
  <2> DEFINE f == [k \in B |-> k + m]
  <2>1. B \subseteq 1..Len(s)
    BY <1>1 DEF Places
  <2> HIDE DEF A, B, m
  <2>2. f \in [B -> C]
    BY <1>1, <2>1
  <2>3. \A k, l \in B : f[k] = f[l] => k = l
    BY <1>1, <2>1
  <2>4. \A c \in C : \E k \in B : f[k] = c
    <3> TAKE c \in C
    <3>1. c - m \in B /\ f[c - m] = c
      BY <1>1
    <3> QED BY <3>1
  <2>5. f \in Bijection(B, C)
    <3> HIDE DEF f, C
    <3> QED BY <2>2, <2>3, <2>4 DEF Bijection, Injection, Surjection, IsInjective
  <2>6. ExistsBijection(B, C)
    BY <2>5 DEF ExistsBijection
  <2> HIDE DEF C
  <2> QED BY <1>5, <2>6, FS_Bijection
<1>7. Cardinality(A) \in Nat /\ Cardinality(B) \in Nat /\ Cardinality(A \cap C) = 0
  BY <1>4, <1>5, FS_EmptySet, FS_CardinalityType
<1>8. Cardinality(A \cup C) = Cardinality(A) + Cardinality(B)
  <2> HIDE DEF A, B, C
  <2>1. Cardinality(A \cup C) = Cardinality(A) + Cardinality(C) - Cardinality(A \cap C)
    BY <1>5, <1>6, FS_Union
  <2> QED BY <1>6, <1>7, <2>1
<1> QED BY <1>3, <1>8 DEF CountIn

LEMMA CountEmpty == ASSUME NEW T PROVE CountIn(<< >>, T) = 0
<1>1. Places(<< >>, T) = {}
  BY DEF Places
<1> QED BY <1>1, FS_EmptySet DEF CountIn

LEMMA CountSingle ==
  ASSUME NEW a, NEW T
  PROVE  CountIn(<<a>>, T) = IF a \in T THEN 1 ELSE 0
<1>1. Places(<<a>>, T) = IF a \in T THEN {1} ELSE {}
  BY DEF Places
<1> QED BY <1>1, FS_EmptySet, FS_Singleton DEF CountIn

\* What a filter may return: of the elements in T as many as s has in U.
Filterings(s, Y, T, U) == {y \in Seq(Y) : CountIn(y, T) = CountIn(s, U)}

\* What a filter keeps, and how much of it.
LEMMA FilteredKeeps ==
  ASSUME NEW X, NEW s \in Seq(X), NEW keep,
         NEW Y, \A x : x \in Y <=> x \in X /\ x \in keep,
         NEW T, NEW U, \A x : x \in U <=> x \in T /\ x \in keep
  PROVE  Filtered(s, keep) \in Filterings(s, Y, T, U)
<1> DEFINE n == Len(s)
           p == [k \in DOMAIN s |-> IF s[k] \in keep THEN <<s[k]>> ELSE << >>]
           Upto(i) == {k \in 1..i : s[k] \in U}
           C == [i \in 1..n |-> {y \in Seq(Y) : CountIn(y, T) = Cardinality(Upto(i))}]
<1>1. n \in Nat /\ DOMAIN s = 1..n /\ \A k \in 1..n : s[k] \in X
  BY LenProperties
<1>2. Len(p) = n /\ DOMAIN p = 1..n
  BY <1>1
<1>3. CASE n = 0
  <2>1. p = << >> /\ Filtered(s, keep) = << >>
    BY <1>1, <1>2, <1>3 DEF Filtered, FlattenSeq
  <2>2. s = << >>
    BY <1>3
  <2>3. << >> \in Seq(Y)
    OBVIOUS
  <2> QED BY <2>1, <2>2, <2>3, CountEmpty DEF Filterings
<1>4. CASE n # 0
  <2>1. ASSUME NEW k \in 1..n
        PROVE  /\ p[k] \in Seq(Y)
               /\ CountIn(p[k], T) = IF s[k] \in U THEN 1 ELSE 0
    <3>1. CASE s[k] \in keep
      <4>1. p[k] = <<s[k]>> /\ s[k] \in Y
        BY <1>1, <3>1
      <4>2. CountIn(<<s[k]>>, T) = IF s[k] \in T THEN 1 ELSE 0
        BY CountSingle
      <4> HIDE DEF p
      <4> QED BY <3>1, <4>1, <4>2
    <3>2. CASE s[k] \notin keep
      <4>1. p[k] = << >>
        BY <1>1, <3>2
      <4>2. CountIn(<< >>, T) = 0
        BY CountEmpty
      <4> HIDE DEF p
      <4> QED BY <3>2, <4>1, <4>2
    <3> QED BY <3>1, <3>2
  <2>2. p[1] \in C[1]
    <3>1. 1 \in 1..n
      BY <1>1, <1>4
    <3>2. Upto(1) = IF s[1] \in U THEN {1} ELSE {}
      OBVIOUS
    <3>3. Cardinality(Upto(1)) = IF s[1] \in U THEN 1 ELSE 0
      <4> HIDE DEF Upto
      <4> QED BY <3>2, FS_EmptySet, FS_Singleton
    <3>4. C[1] = {y \in Seq(Y) : CountIn(y, T) = Cardinality(Upto(1))}
      BY <3>1
    <3> HIDE DEF C, p, Upto
    <3> QED BY <2>1, <3>1, <3>3, <3>4
  <2>3. ASSUME NEW i \in 2..n, NEW y \in C[i - 1] PROVE y \o p[i] \in C[i]
    <3>1. i \in 1..n /\ i - 1 \in 1..n /\ i \in Int
      BY <1>1
    <3>2. y \in Seq(Y) /\ CountIn(y, T) = Cardinality(Upto(i - 1))
      BY <3>1
    <3>3. IsFiniteSet(Upto(i - 1)) /\ i \notin Upto(i - 1)
      <4>1. IsFiniteSet(1..(i - 1)) /\ Upto(i - 1) \subseteq 1..(i - 1)
        BY <3>1, FS_Interval
      <4>2. i \notin Upto(i - 1)
        BY <3>1
      <4> HIDE DEF Upto
      <4> QED BY <4>1, <4>2, FS_Subset
    <3>4. Upto(i) = IF s[i] \in U THEN Upto(i - 1) \cup {i} ELSE Upto(i - 1)
      BY <3>1
    <3>5. y \o p[i] \in Seq(Y) /\ CountIn(y \o p[i], T) = CountIn(y, T) + CountIn(p[i], T)
      <4> HIDE DEF C, p, Upto
      <4>1. p[i] \in Seq(Y)
        BY <2>1, <3>1
      <4> QED BY <3>2, <4>1, ConcatProperties, CountConcat
    <3>6. CountIn(p[i], T) = IF s[i] \in U THEN 1 ELSE 0
      BY <2>1, <3>1
    <3>7. C[i] = {z \in Seq(Y) : CountIn(z, T) = Cardinality(Upto(i))}
      BY <3>1
    <3> HIDE DEF C, p, Upto
    <3>8. Cardinality(Upto(i - 1)) \in Nat
      BY <3>3, FS_CardinalityType
    <3>9. Cardinality(Upto(i)) = Cardinality(Upto(i - 1)) + IF s[i] \in U THEN 1 ELSE 0
      <4>1. CASE s[i] \in U
        <5>1. Cardinality(Upto(i - 1) \cup {i}) = Cardinality(Upto(i - 1)) + 1
          BY <3>3, FS_AddElement
        <5> QED BY <3>4, <4>1, <5>1
      <4>2. CASE s[i] \notin U
        BY <3>4, <3>8, <4>2
      <4> QED BY <4>1, <4>2
    <3> QED BY <3>2, <3>5, <3>6, <3>7, <3>9
  <2>4. FlattenSeq(p) \in C[n]
    <3> HIDE DEF C, p
    <3> QED BY <1>1, <1>2, <1>4, <2>2, <2>3, FlattenInduction
  <2>5. C[n] = {y \in Seq(Y) : CountIn(y, T) = Cardinality(Upto(n))}
    BY <1>1, <1>4
  <2>6. Upto(n) = Places(s, U)
    BY <1>1 DEF Places
  <2> HIDE DEF C, Upto
  <2> QED BY <2>4, <2>5, <2>6 DEF Filtered, Filterings, CountIn
<1> QED BY <1>3, <1>4

LEMMA FilteredType ==
  ASSUME NEW X, NEW s \in Seq(X), NEW keep, NEW Y, \A x : x \in Y <=> x \in X /\ x \in keep
  PROVE  Filtered(s, keep) \in Seq(Y)
<1>1. \A x : x \in {} <=> x \in {} /\ x \in keep
  OBVIOUS
<1>2. Filtered(s, keep) \in Filterings(s, Y, {}, {})
  BY <1>1, FilteredKeeps
<1> QED BY <1>2 DEF Filterings

LEMMA FilteredCount ==
  ASSUME NEW X, NEW s \in Seq(X), NEW keep, NEW T, NEW U, \A x : x \in U <=> x \in T /\ x \in keep
  PROVE  CountIn(Filtered(s, keep), T) = CountIn(s, U)
<1>1. PICK Y : \A x : x \in Y <=> x \in X /\ x \in keep
  <2>1. \A x : x \in X \cap keep <=> x \in X /\ x \in keep
    OBVIOUS
  <2> QED BY <2>1
<1>2. Filtered(s, keep) \in Filterings(s, Y, T, U)
  BY <1>1, FilteredKeeps
<1> QED BY <1>2 DEF Filterings

LEMMA FilteredShorter ==
  ASSUME NEW X, NEW s \in Seq(X), NEW keep
  PROVE  Len(Filtered(s, keep)) <= Len(s)
<1>1. PICK Y : \A x : x \in Y <=> x \in X /\ x \in keep
  <2>1. \A x : x \in X \cap keep <=> x \in X /\ x \in keep
    OBVIOUS
  <2> QED BY <2>1
<1>2. PICK T : T = keep
  OBVIOUS
<1>3. \A x : x \in T <=> x \in T /\ x \in keep
  BY <1>2
<1>4. Filtered(s, keep) \in Seq(Y)
  BY <1>1, FilteredType
<1>5. CountIn(Filtered(s, keep), T) = CountIn(s, T)
  BY <1>3, FilteredCount
<1>6. Y \subseteq T
  BY <1>1, <1>2
<1>7. CountIn(Filtered(s, keep), T) = Len(Filtered(s, keep))
  BY <1>4, <1>6, CountType
<1>8. CountIn(s, T) <= Len(s)
  BY CountType
<1> QED BY <1>5, <1>7, <1>8
=============================================================================
