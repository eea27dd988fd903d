------------------------------ MODULE SetLemmas ------------------------------
(***************************************************************************)
(* Facts about finite sets of any size that the proofs of several modules  *)
(* need: a smallest one among subsets, maxima, and sums, such as the power *)
(* of the validators that signed.  The library's induction takes an        *)
(* operator; what is shown here for every set takes a smallest set for     *)
(* which it fails instead.                                                 *)
(***************************************************************************)
EXTENDS Integers, FiniteSetsExt, Functions, FiniteSetTheorems, WellFoundedInduction, TLAPS

\* among some subsets of a finite set there is a smallest one
LEMMA SmallestSet ==
    ASSUME NEW S, IsFiniteSet(S), NEW Bad, Bad \subseteq SUBSET S, Bad # {}
    PROVE  \E T \in Bad : IsFiniteSet(T) /\ \A U \in SUBSET T : U \in Bad => U = T
<1> DEFINE R == StrictSubsetOrdering(S)
<1>1. Bad \subseteq FiniteSubsetsOf(S)  BY FS_FiniteSubsetsOfFinite
<1>2. IsWellFoundedOn(R, FiniteSubsetsOf(S))  BY FS_StrictSubsetOrderingWellFounded
<1> HIDE DEF R
<1>3. PICK T \in Bad : \A U \in Bad : <<U, T>> \notin R  BY <1>1, <1>2, WFMin
<1>4. ASSUME NEW U \in SUBSET T, U \in Bad PROVE U = T
  <2>1. U \in SUBSET S /\ T \in SUBSET S  OBVIOUS
  <2>2. <<U, T>> \notin R  BY <1>3, <1>4
  <2> QED  BY <2>1, <2>2 DEF R, StrictSubsetOrdering
<1>5. IsFiniteSet(T)  BY <1>1 DEF FiniteSubsetsOf
<1> QED  BY <1>3, <1>4, <1>5

\* A non-empty bounded set of naturals has a maximum: the elements above one of
\* them are the fewest above the largest.
LEMMA BoundedHasMaximum ==
    ASSUME NEW S \in SUBSET Nat, S # {}, NEW n \in Nat, \A s \in S : s <= n
    PROVE  Max(S) \in S /\ \A y \in S : y <= Max(S)
<1> DEFINE Above(x) == {y \in S : y > x}
           All == {Above(x) : x \in S}
<1>1. IsFiniteSet(S)
  BY FS_BoundedSetOfNaturals
<1>2. All \subseteq FiniteSubsetsOf(S) /\ All # {}
  <2>1. \A x \in S : Above(x) \in SUBSET S /\ IsFiniteSet(Above(x))
    BY <1>1, FS_Subset
  <2> QED BY <2>1 DEF FiniteSubsetsOf
<1>3. PICK A \in All : \A B \in All : <<B, A>> \notin StrictSubsetOrdering(S)
  <2>1. IsWellFoundedOn(StrictSubsetOrdering(S), FiniteSubsetsOf(S))
    BY FS_StrictSubsetOrderingWellFounded
  <2> HIDE DEF All
  <2> QED BY <1>2, <2>1, WFMin
<1>4. PICK x \in S : A = Above(x)
  BY <1>3
<1>5. \A y \in S : y <= x
  <2> SUFFICES ASSUME NEW y \in S, y > x PROVE FALSE
    OBVIOUS
  <2>0. Above(y) \in All
    OBVIOUS
  <2>1. Above(y) \subseteq Above(x) /\ y \in Above(x) /\ y \notin Above(y)
    <3>1. x \in Nat /\ y \in Nat /\ S \subseteq Nat
      OBVIOUS
    <3>2. \A z \in Nat : z > y => z > x
      BY <3>1
    <3>3. y \in Above(x) /\ ~(y > y)
      BY <3>1
    <3> QED BY <3>1, <3>2, <3>3
  <2>2. Above(y) # Above(x) /\ Above(y) \in SUBSET S /\ Above(x) \in SUBSET S
    BY <2>1
  <2>3. <<Above(y), Above(x)>> \in StrictSubsetOrdering(S)
    BY <2>1, <2>2 DEF StrictSubsetOrdering
  <2> QED BY <1>3, <1>4, <2>0, <2>3
<1>6. \E m \in S : \A y \in S : m >= y
  BY <1>5
<1> QED BY <1>6 DEF Max

-----------------------------------------------------------------------------
(* The recursion of a sum.                                                 *)

First(s) == CHOOSE x \in s : TRUE
Adds(f, g, s) == IF s = {} THEN 0 ELSE f[First(s)] + g[s \ {First(s)}]
\* g has the sums of f over all subsets of S
SumsUp(f, S, g) == g = [s \in SUBSET S |-> Adds(f, g, s)]
TheSums(f, S) == CHOOSE g : SumsUp(f, S, g)

LEMMA SumIsRecursive == ASSUME NEW f, NEW S PROVE SumFunctionOnSet(f, S) = TheSums(f, S)[S]
BY DEF SumFunctionOnSet, FoldFunctionOnSet, MapThenFoldSet, TheSums, SumsUp, Adds, First

LEMMA FirstIsIn == ASSUME NEW s, s # {} PROVE First(s) \in s
BY DEF First

LEMMA SumsAgree ==
    ASSUME NEW f, NEW S, NEW T, NEW U, IsFiniteSet(U), U \subseteq S, U \subseteq T,
           NEW g, SumsUp(f, S, g), NEW h, SumsUp(f, T, h)
    PROVE  g[U] = h[U]
<1> DEFINE Bad == {V \in SUBSET U : g[V] # h[V]}
<1> SUFFICES ASSUME Bad # {} PROVE FALSE  OBVIOUS
<1>1. PICK V \in Bad : \A W \in SUBSET V : W \in Bad => W = V
  <2> HIDE DEF Bad
  <2>1. Bad \subseteq SUBSET U  BY DEF Bad
  <2> QED  BY <2>1, SmallestSet
<1>2. V \in SUBSET S /\ V \in SUBSET T  OBVIOUS
<1>3. g[V] = Adds(f, g, V) /\ h[V] = Adds(f, h, V)  BY <1>2 DEF SumsUp
<1>4. CASE V = {}  BY <1>3, <1>4 DEF Adds
<1>5. CASE V # {}
  <2>1. V \ {First(V)} # V /\ V \ {First(V)} \in SUBSET V  BY <1>5, FirstIsIn
  <2>2. V \ {First(V)} \notin Bad  BY <1>1, <2>1
  <2>3. g[V \ {First(V)}] = h[V \ {First(V)}]  BY <2>1, <2>2
  <2> QED  BY <1>3, <1>5, <2>3 DEF Adds
<1> QED  BY <1>4, <1>5

LEMMA SumsExist ==
    ASSUME NEW f, NEW S, IsFiniteSet(S)
    PROVE  SumsUp(f, S, TheSums(f, S))
<1> DEFINE Bad == {T \in SUBSET S : ~SumsUp(f, T, TheSums(f, T))}
<1> SUFFICES ASSUME Bad # {} PROVE FALSE  OBVIOUS
<1>1. PICK T \in Bad : IsFiniteSet(T) /\ \A U \in SUBSET T : U \in Bad => U = T
  <2> HIDE DEF Bad
  <2>1. Bad \subseteq SUBSET S  BY DEF Bad
  <2> QED  BY <2>1, SmallestSet
<1> DEFINE part(U) == TheSums(f, U)[U]
           h == [s \in SUBSET T |->
                    IF s = {} THEN 0 ELSE f[First(s)] + part(s \ {First(s)})]
<1>2. ASSUME NEW U \in SUBSET T, U # T PROVE SumsUp(f, U, TheSums(f, U))
  BY <1>1, <1>2
<1>3. ASSUME NEW U \in SUBSET T, U # T PROVE h[U] = part(U)
  <2>1. U \in SUBSET U  OBVIOUS
  <2>2. part(U) = Adds(f, TheSums(f, U), U)  BY <1>2, <1>3, <2>1 DEF SumsUp
  <2>3. CASE U = {}  BY <2>2, <2>3 DEF Adds
  <2>4. CASE U # {}
    <3> DEFINE V == U \ {First(U)}
    <3>1. V \in SUBSET T /\ V # T /\ V \subseteq U  BY <1>3
    <3>2. SumsUp(f, V, TheSums(f, V)) /\ SumsUp(f, U, TheSums(f, U))  BY <1>2, <1>3, <3>1
    <3>3. IsFiniteSet(V)  BY <1>1, <3>1, FS_Subset
    <3>4. TheSums(f, U)[V] = TheSums(f, V)[V]
      <4> HIDE DEF V
      <4> QED  BY <3>1, <3>2, <3>3, SumsAgree
    <3> QED  BY <2>2, <2>4, <3>4 DEF Adds
  <2> QED  BY <2>3, <2>4
<1>4. ASSUME NEW U \in SUBSET T PROVE h[U] = Adds(f, h, U)
  <2>1. CASE U = {}  BY <2>1 DEF Adds
  <2>2. CASE U # {}
    <3>1. U \ {First(U)} \in SUBSET T /\ U \ {First(U)} # T  BY <2>2, FirstIsIn
    <3>2. h[U \ {First(U)}] = part(U \ {First(U)})  BY <1>3, <3>1
    <3> QED  BY <2>2, <3>2 DEF Adds
  <2> QED  BY <2>1, <2>2
<1>5. SumsUp(f, T, h)
  <2>1. h = [s \in SUBSET T |-> h[s]]  OBVIOUS
  <2> HIDE DEF h
  <2>2. [s \in SUBSET T |-> h[s]] = [s \in SUBSET T |-> Adds(f, h, s)]  BY <1>4
  <2> QED  BY <2>1, <2>2 DEF SumsUp
<1>6. SumsUp(f, T, TheSums(f, T))  BY <1>5 DEF TheSums
<1> QED  BY <1>1, <1>6

-----------------------------------------------------------------------------
(* A sum over a set and the sums over its parts.                           *)

LEMMA SumOfNone == ASSUME NEW f PROVE SumFunctionOnSet(f, {}) = 0
<1>1. IsFiniteSet({})  BY FS_EmptySet
<1>2. SumsUp(f, {}, TheSums(f, {}))  BY <1>1, SumsExist
<1>3. TheSums(f, {})[{}] = Adds(f, TheSums(f, {}), {})  BY <1>2 DEF SumsUp
<1> QED  BY <1>3, SumIsRecursive DEF Adds

LEMMA SumFromFirst ==
    ASSUME NEW f, NEW S, IsFiniteSet(S), S # {}
    PROVE  SumFunctionOnSet(f, S) = f[First(S)] + SumFunctionOnSet(f, S \ {First(S)})
<1> DEFINE T == S \ {First(S)}
<1>1. T \subseteq S /\ IsFiniteSet(T)  BY FS_Subset
<1> HIDE DEF T
<1>2. SumsUp(f, S, TheSums(f, S)) /\ SumsUp(f, T, TheSums(f, T))  BY <1>1, SumsExist
<1>3. TheSums(f, S)[T] = TheSums(f, T)[T]  BY <1>1, <1>2, SumsAgree
<1>4. S \in SUBSET S  OBVIOUS
<1>5. TheSums(f, S)[S] = Adds(f, TheSums(f, S), S)  BY <1>2, <1>4 DEF SumsUp
<1>6. TheSums(f, S)[S] = f[First(S)] + TheSums(f, S)[T]  BY <1>5 DEF Adds, T
<1> QED  BY <1>3, <1>6, SumIsRecursive DEF T

LEMMA SumIsNatural ==
    ASSUME NEW f, NEW S, IsFiniteSet(S), \A x \in S : f[x] \in Nat
    PROVE  SumFunctionOnSet(f, S) \in Nat
<1> DEFINE Bad == {T \in SUBSET S : SumFunctionOnSet(f, T) \notin Nat}
<1> SUFFICES ASSUME Bad # {} PROVE FALSE  OBVIOUS
<1>1. PICK T \in Bad : IsFiniteSet(T) /\ \A U \in SUBSET T : U \in Bad => U = T
  <2> HIDE DEF Bad
  <2>1. Bad \subseteq SUBSET S  BY DEF Bad
  <2> QED  BY <2>1, SmallestSet
<1>2. T # {}  BY SumOfNone
<1>3. First(T) \in T  BY <1>2, FirstIsIn
<1>4. SumFunctionOnSet(f, T) = f[First(T)] + SumFunctionOnSet(f, T \ {First(T)})
  BY <1>1, <1>2, SumFromFirst
<1>5. T \ {First(T)} \in SUBSET T /\ T \ {First(T)} # T  BY <1>3
<1>6. SumFunctionOnSet(f, T \ {First(T)}) \in Nat  BY <1>1, <1>5
<1> QED  BY <1>3, <1>4, <1>6

\* any element may be taken out, not only the one that the recursion chooses
LEMMA SumWithout ==
    ASSUME NEW f, NEW S, IsFiniteSet(S), \A x \in S : f[x] \in Nat
    PROVE  \A x \in S : SumFunctionOnSet(f, S) = f[x] + SumFunctionOnSet(f, S \ {x})
<1> DEFINE Sum(T) == SumFunctionOnSet(f, T)
           Splits(T, x) == Sum(T) = f[x] + Sum(T \ {x})
           Bad == {T \in SUBSET S : \E x \in T : ~Splits(T, x)}
<1> SUFFICES ASSUME Bad # {} PROVE FALSE  OBVIOUS
<1>1. PICK T \in Bad : IsFiniteSet(T) /\ \A U \in SUBSET T : U \in Bad => U = T
  <2> HIDE DEF Bad
  <2>1. Bad \subseteq SUBSET S  BY DEF Bad
  <2> QED  BY <2>1, SmallestSet
<1>2. \A U \in SUBSET T : U # T => \A z \in U : Splits(U, z)  BY <1>1
<1>3. PICK x \in T : ~Splits(T, x)  OBVIOUS
<1> DEFINE y == First(T)
<1>4. y \in T /\ T \subseteq S  BY FirstIsIn
<1>5. Splits(T, y)  BY <1>1, <1>3, SumFromFirst
<1>6. x # y  BY <1>3, <1>5
<1> HIDE DEF y, Bad
<1>7. Splits(T \ {y}, x)
  <2>1. T \ {y} \in SUBSET T /\ T \ {y} # T /\ x \in T \ {y}  BY <1>4, <1>6
  <2> QED  BY <1>2, <2>1
<1>8. Splits(T \ {x}, y)
  <2>1. T \ {x} \in SUBSET T /\ T \ {x} # T /\ y \in T \ {x}  BY <1>4, <1>6
  <2> QED  BY <1>2, <2>1
<1>9. PICK rest \in Nat : rest = Sum((T \ {x}) \ {y}) /\ rest = Sum((T \ {y}) \ {x})
  <2>1. IsFiniteSet((T \ {x}) \ {y}) /\ (T \ {x}) \ {y} \subseteq S  BY <1>1, <1>4, FS_RemoveElement
  <2>2. (T \ {x}) \ {y} = (T \ {y}) \ {x}  OBVIOUS
  <2> QED  BY <2>1, <2>2, SumIsNatural
<1>10. f[x] \in Nat /\ f[y] \in Nat  BY <1>4
<1> HIDE DEF Sum
<1>11. Sum(T) = f[y] + (f[x] + rest) /\ Sum(T \ {x}) = f[y] + rest  BY <1>5, <1>7, <1>8, <1>9
<1> QED  BY <1>3, <1>10, <1>11

LEMMA SumWith ==
    ASSUME NEW f, NEW S, IsFiniteSet(S), NEW x, x \notin S, \A y \in S \union {x} : f[y] \in Nat
    PROVE  SumFunctionOnSet(f, S \union {x}) = f[x] + SumFunctionOnSet(f, S)
<1>1. IsFiniteSet(S \union {x})  BY FS_AddElement
<1>2. (S \union {x}) \ {x} = S  OBVIOUS
<1> QED  BY <1>1, <1>2, SumWithout

\* more summands, and larger ones, make no smaller a sum
LEMMA SumGrows ==
    ASSUME NEW T, IsFiniteSet(T), NEW S \in SUBSET T, NEW f, NEW g,
           \A x \in S : f[x] \in Nat /\ f[x] <= g[x],
           \A x \in T : g[x] \in Nat
    PROVE  SumFunctionOnSet(f, S) <= SumFunctionOnSet(g, T)
<1> DEFINE Bad == {U \in SUBSET T :
                       ~(SumFunctionOnSet(f, U \intersect S) <= SumFunctionOnSet(g, U))}
<1>1. SUFFICES ASSUME Bad # {} PROVE FALSE
  <2>1. T \in SUBSET T /\ T \intersect S = S  OBVIOUS
  <2> QED  BY <2>1
<1>2. PICK U \in Bad : IsFiniteSet(U) /\ \A V \in SUBSET U : V \in Bad => V = U
  <2> HIDE DEF Bad
  <2>1. Bad \subseteq SUBSET T  BY DEF Bad
  <2> QED  BY <1>1, <2>1, SmallestSet
<1>3. U # {}
  <2>1. {} \intersect S = {}  OBVIOUS
  <2> QED  BY <2>1, SumOfNone
<1>4. PICK x \in U : TRUE  BY <1>3
<1> DEFINE V == U \ {x}
<1>5. V \in SUBSET U /\ V # U /\ IsFiniteSet(V)  BY <1>2, <1>4, FS_RemoveElement
<1>6. SumFunctionOnSet(f, V \intersect S) <= SumFunctionOnSet(g, V)  BY <1>2, <1>5
<1>7. SumFunctionOnSet(g, U) = g[x] + SumFunctionOnSet(g, V)  BY <1>2, <1>4, SumWithout
<1>8. SumFunctionOnSet(g, V) \in Nat /\ g[x] \in Nat  BY <1>4, <1>5, SumIsNatural
<1>9. IsFiniteSet(V \intersect S) /\ V \intersect S \in SUBSET S  BY <1>5, FS_Intersection
<1>10. SumFunctionOnSet(f, V \intersect S) \in Nat  BY <1>9, SumIsNatural
<1>11. CASE x \in S
  <2>1. U \intersect S = (V \intersect S) \union {x} /\ x \notin V \intersect S  BY <1>4, <1>11
  <2> HIDE DEF V
  <2>2. SumFunctionOnSet(f, U \intersect S) = f[x] + SumFunctionOnSet(f, V \intersect S)
    BY <1>9, <1>11, <2>1, SumWith
  <2> QED  BY <1>6, <1>7, <1>8, <1>10, <1>11, <2>2
<1>12. CASE x \notin S
  <2>1. U \intersect S = V \intersect S  BY <1>12
  <2>2. SumFunctionOnSet(f, U \intersect S) <= SumFunctionOnSet(g, U)
    BY <1>6, <1>7, <1>8, <1>10, <2>1
  <2> QED  BY <2>2
<1> QED  BY <1>11, <1>12

\* the sum depends on the values over the set only
LEMMA SumsOfEquals ==
    ASSUME NEW S, IsFiniteSet(S), NEW f, NEW g, \A x \in S : f[x] \in Nat /\ f[x] = g[x]
    PROVE  SumFunctionOnSet(f, S) = SumFunctionOnSet(g, S)
<1>1. S \in SUBSET S  OBVIOUS
<1>2. /\ SumFunctionOnSet(f, S) <= SumFunctionOnSet(g, S)
      /\ SumFunctionOnSet(g, S) <= SumFunctionOnSet(f, S)
  BY <1>1, SumGrows
<1>3. SumFunctionOnSet(f, S) \in Nat /\ SumFunctionOnSet(g, S) \in Nat  BY SumIsNatural
<1> QED  BY <1>2, <1>3

\* the summands may be listed under other names
LEMMA SumRenamed ==
    ASSUME NEW S, IsFiniteSet(S), NEW f, NEW g, NEW h,
           \A x \in S : f[x] \in Nat /\ f[x] = g[h[x]],
           \A x, y \in S : h[x] = h[y] => x = y
    PROVE  SumFunctionOnSet(f, S) = SumFunctionOnSet(g, {h[x] : x \in S})
<1> DEFINE Names(T) == {h[x] : x \in T}
           Bad == {T \in SUBSET S : SumFunctionOnSet(f, T) # SumFunctionOnSet(g, Names(T))}
<1>1. SUFFICES ASSUME Bad # {} PROVE FALSE
  <2>1. S \in SUBSET S  OBVIOUS
  <2> QED  BY <2>1
<1>2. PICK T \in Bad : IsFiniteSet(T) /\ \A U \in SUBSET T : U \in Bad => U = T
  <2> HIDE DEF Bad
  <2>1. Bad \subseteq SUBSET S  BY DEF Bad
  <2> QED  BY <1>1, <2>1, SmallestSet
<1>3. T # {}
  <2>1. Names({}) = {}  OBVIOUS
  <2> QED  BY <2>1, SumOfNone
<1>4. PICK x \in T : TRUE  BY <1>3
<1> DEFINE V == T \ {x}
<1>5. V \in SUBSET T /\ V # T /\ V \subseteq S /\ x \in S /\ IsFiniteSet(V)
  BY <1>2, <1>4, FS_RemoveElement
<1>6. SumFunctionOnSet(f, V) = SumFunctionOnSet(g, Names(V))  BY <1>2, <1>5
<1>7. SumFunctionOnSet(f, T) = f[x] + SumFunctionOnSet(f, V)  BY <1>2, <1>4, SumWithout
<1>8. SumFunctionOnSet(g, Names(T)) = g[h[x]] + SumFunctionOnSet(g, Names(V))
  <2>1. Names(T) = Names(V) \union {h[x]} /\ h[x] \notin Names(V)  BY <1>4, <1>5
  <2>2. IsFiniteSet(Names(V))
    <3> DEFINE named == [y \in V |-> h[y]]
    <3>1. named \in Surjection(V, Names(V))  BY DEF Surjection
    <3> HIDE DEF V, named, Names
    <3> QED  BY <1>5, <3>1, FS_Surjection
  <2>3. \A n \in Names(V) \union {h[x]} : g[n] \in Nat  BY <1>5
  <2> HIDE DEF Names
  <2> QED  BY <2>1, <2>2, <2>3, SumWith
<1> QED  BY <1>2, <1>5, <1>6, <1>7, <1>8

\* the sum over two sets without a common element
LEMMA SumOfBoth ==
    ASSUME NEW S, IsFiniteSet(S), NEW T, IsFiniteSet(T), S \intersect T = {},
           NEW f, \A x \in S \union T : f[x] \in Nat
    PROVE  SumFunctionOnSet(f, S \union T) = SumFunctionOnSet(f, S) + SumFunctionOnSet(f, T)
<1> DEFINE Sum(U) == SumFunctionOnSet(f, U)
           Bad == {U \in SUBSET T : Sum(S \union U) # Sum(S) + Sum(U)}
<1>0. Sum(S) \in Nat  BY SumIsNatural
<1>1. SUFFICES ASSUME Bad # {} PROVE FALSE
  <2>1. T \in SUBSET T  OBVIOUS
  <2> QED  BY <2>1
<1>2. PICK U \in Bad : IsFiniteSet(U) /\ \A W \in SUBSET U : W \in Bad => W = U
  <2> HIDE DEF Bad
  <2>1. Bad \subseteq SUBSET T  BY DEF Bad
  <2> QED  BY <1>1, <2>1, SmallestSet
<1>3. U # {}
  <2>1. S \union {} = S  OBVIOUS
  <2> QED  BY <1>0, <2>1, SumOfNone
<1>4. PICK x \in U : TRUE  BY <1>3
<1> DEFINE W == U \ {x}
<1>5. /\ W \in SUBSET U /\ W # U /\ W \subseteq T /\ x \in T /\ x \notin S /\ U \subseteq T
      /\ IsFiniteSet(W) /\ IsFiniteSet(S \union W)
  <2>1. IsFiniteSet(W)  BY <1>2, FS_RemoveElement
  <2>2. IsFiniteSet(S \union W)  BY <2>1, FS_Union
  <2> QED  BY <1>4, <2>1, <2>2
<1>6. Sum(S \union W) = Sum(S) + Sum(W)  BY <1>2, <1>5
<1>7. Sum(U) = f[x] + Sum(W)  BY <1>2, <1>4, <1>5, SumWithout
<1>8. Sum(S \union U) = f[x] + Sum(S \union W)
  <2>1. S \union U = (S \union W) \union {x} /\ x \notin S \union W  BY <1>4, <1>5
  <2>2. \A y \in (S \union W) \union {x} : f[y] \in Nat  BY <1>5
  <2> HIDE DEF W
  <2> QED  BY <1>5, <2>1, <2>2, SumWith
<1>9. Sum(W) \in Nat /\ f[x] \in Nat  BY <1>5, SumIsNatural
<1> HIDE DEF Sum, W
<1> QED  BY <1>0, <1>2, <1>6, <1>7, <1>8, <1>9
=============================================================================
