----------------------------- MODULE SumsProofs -----------------------------
(***************************************************************************)
(* What a sum over a finite set is: nothing for no rows, one row more for  *)
(* one element more, whatever the order.                                   *)
(***************************************************************************)
EXTENDS Sums, FiniteSetTheorems, WellFoundedInduction, TLAPS

\* A set of subsets of a finite set has a smallest one: the induction the
\* lemmas below rest on.
LEMMA SmallestSubset ==
  ASSUME NEW S, IsFiniteSet(S), NEW B \in SUBSET (SUBSET S), B # {}
  PROVE  \E T \in B : \A U \in B : U \subseteq T => U = T
<1>1. IsWellFoundedOn(StrictSubsetOrdering(S), SUBSET S)
  BY FS_StrictSubsetOrderingWellFounded, FS_FiniteSubsetsOfFinite
<1>2. PICK T \in B : \A U \in B : ~(<<U, T>> \in StrictSubsetOrdering(S))
  BY <1>1, WFMin
<1>3. QED
  BY <1>2 DEF StrictSubsetOrdering

-----------------------------------------------------------------------------
(* The fold is the sum its equation describes.                             *)

Chosen(T) == CHOOSE x \in T : TRUE
Term(f, g, T) == IF T = {} THEN 0 ELSE f[Chosen(T)] + g[T \ {Chosen(T)}]
IsSum(f, S, g) == g = [T \in SUBSET S |-> Term(f, g, T)]

LEMMA ChosenIn == \A T : T # {} => Chosen(T) \in T
BY DEF Chosen

LEMMA SumChosen ==
  ASSUME NEW f, NEW S
  PROVE  SumOf(f, S) = (CHOOSE g : IsSum(f, S, g))[S]
BY DEF SumOf, IsSum, Term, Chosen, MapThenSumSet, MapThenFoldSet

LEMMA SumUnique ==
  ASSUME NEW f, NEW S, IsFiniteSet(S), NEW g, NEW h, NEW R, R \in SUBSET S,
         IsSum(f, S, g), IsSum(f, R, h)
  PROVE  \A T \in SUBSET R : g[T] = h[T]
<1> DEFINE B == {T \in SUBSET R : g[T] # h[T]}
<1>1. SUFFICES ASSUME B # {} PROVE FALSE
  OBVIOUS
<1>2. IsFiniteSet(R)
  BY FS_Subset
<1>3. PICK T \in B : \A U \in B : U \subseteq T => U = T
  <2>1. B \in SUBSET (SUBSET R)
    OBVIOUS
  <2> HIDE DEF B
  <2>2. QED
    BY <1>1, <1>2, <2>1, SmallestSubset
<1>4. T \in SUBSET R /\ T \in SUBSET S /\ g[T] # h[T]
  OBVIOUS
<1>5. g[T] = Term(f, g, T) /\ h[T] = Term(f, h, T)
  BY <1>4 DEF IsSum
<1>6. T # {}
  BY <1>4, <1>5 DEF Term
<1>7. Chosen(T) \in T
  BY <1>6, ChosenIn
<1>8. T \ {Chosen(T)} \in SUBSET R /\ T \ {Chosen(T)} \notin B
  BY <1>3, <1>4, <1>7
<1>9. g[T \ {Chosen(T)}] = h[T \ {Chosen(T)}]
  BY <1>8
<1>10. QED
  BY <1>4, <1>5, <1>9 DEF Term

LEMMA SumExists ==
  ASSUME NEW f, NEW S, IsFiniteSet(S)
  PROVE  \E g : IsSum(f, S, g)
<1> DEFINE B == {T \in SUBSET S : ~ \E g : IsSum(f, T, g)}
<1>1. SUFFICES ASSUME B # {} PROVE FALSE
  OBVIOUS
<1>2. PICK T \in B : \A U \in B : U \subseteq T => U = T
  <2>1. B \in SUBSET (SUBSET S)
    OBVIOUS
  <2> HIDE DEF B
  <2>2. QED
    BY <1>1, <2>1, SmallestSubset
<1> DEFINE of(U) == CHOOSE g : IsSum(f, U, g)
           value[U \in SUBSET T] == of(U)[U]
           sum == [U \in SUBSET T |-> Term(f, value, U)]
<1>3. T \in SUBSET S /\ ~ \E g : IsSum(f, T, g)
  OBVIOUS
<1>4. \A U \in SUBSET T : U # T => IsSum(f, U, of(U))
  BY <1>2
<1> HIDE DEF B, of
<1>5. ASSUME NEW U \in SUBSET T, U # T PROVE value[U] = Term(f, value, U)
  <2>1. IsSum(f, U, of(U)) /\ IsFiniteSet(U)
    BY <1>3, <1>4, <1>5, FS_Subset
  <2>2. of(U)[U] = Term(f, of(U), U)
    BY <2>1 DEF IsSum
  <2>3. CASE U = {}
    BY <2>2, <2>3 DEF Term
  <2>4. CASE U # {}
    <3> DEFINE V == U \ {Chosen(U)}
    <3>1. V \in SUBSET T /\ V \in SUBSET U /\ V # T /\ V # U
      BY <1>5, <2>4, ChosenIn
    <3>2. IsSum(f, V, of(V))
      BY <1>4, <3>1
    <3>3. of(U)[V] = of(V)[V]
      <4> HIDE DEF V
      <4>1. QED
        BY <2>1, <3>1, <3>2, SumUnique
    <3>4. value[V] = of(V)[V] /\ value[U] = of(U)[U]
      BY <3>1
    <3>5. QED
      BY <2>2, <2>4, <3>3, <3>4 DEF Term
  <2>5. QED
    BY <2>3, <2>4
<1>6. \A U \in SUBSET T : U # T => sum[U] = value[U]
  BY <1>5
<1>7. ASSUME NEW U \in SUBSET T PROVE Term(f, value, U) = Term(f, sum, U)
  <2>1. CASE U = {}
    BY <2>1 DEF Term
  <2>2. CASE U # {}
    <3>1. U \ {Chosen(U)} \in SUBSET T /\ U \ {Chosen(U)} # T
      BY <2>2, ChosenIn
    <3>2. sum[U \ {Chosen(U)}] = value[U \ {Chosen(U)}]
      BY <1>6, <3>1
    <3> HIDE DEF sum, value
    <3>3. QED
      BY <2>2, <3>2 DEF Term
  <2>3. QED
    BY <2>1, <2>2
<1>8. IsSum(f, T, sum)
  <2>1. sum = [U \in SUBSET T |-> Term(f, value, U)]
    OBVIOUS
  <2> HIDE DEF sum, value
  <2>2. QED
    BY <1>7, <2>1 DEF IsSum
<1>9. QED
  BY <1>3, <1>8

-----------------------------------------------------------------------------
(* What a sum is, without the order the fold takes.                        *)

LEMMA SumEquation ==
  ASSUME NEW f, NEW S, IsFiniteSet(S)
  PROVE  SumOf(f, S) = IF S = {} THEN 0
                       ELSE f[Chosen(S)] + SumOf(f, S \ {Chosen(S)})
<1> DEFINE g == CHOOSE g : IsSum(f, S, g)
           R == S \ {Chosen(S)}
           h == CHOOSE h : IsSum(f, R, h)
<1>1. IsSum(f, S, g)
  BY SumExists
<1>2. R \in SUBSET S /\ IsFiniteSet(R)
  BY FS_Subset
<1>3. IsSum(f, R, h)
  BY <1>2, SumExists
<1>4. SumOf(f, S) = g[S] /\ SumOf(f, R) = h[R]
  BY SumChosen
<1> HIDE DEF g, h, R
<1>5. g[R] = h[R]
  BY <1>1, <1>2, <1>3, SumUnique
<1>6. g[S] = Term(f, g, S)
  BY <1>1 DEF IsSum
<1>7. QED
  BY <1>4, <1>5, <1>6 DEF Term, R

\* Nothing adds up to zero.
LEMMA SumEmpty ==
  ASSUME NEW f
  PROVE  SumOf(f, {}) = 0
BY SumEquation, FS_EmptySet

\* Two columns that agree on the rows add up to the same.
LEMMA SumSame ==
  ASSUME NEW S, IsFiniteSet(S), NEW f, NEW g, \A x \in S : f[x] = g[x]
  PROVE  SumOf(f, S) = SumOf(g, S)
<1> DEFINE B == {T \in SUBSET S : SumOf(f, T) # SumOf(g, T)}
<1>1. SUFFICES ASSUME B # {} PROVE FALSE
  OBVIOUS
<1>2. PICK T \in B : \A U \in B : U \subseteq T => U = T
  <2>1. B \in SUBSET (SUBSET S)
    OBVIOUS
  <2> HIDE DEF B
  <2>2. QED
    BY <1>1, <2>1, SmallestSubset
<1>3. T \in SUBSET S /\ IsFiniteSet(T)
  BY FS_Subset
<1>4. /\ SumOf(f, T) = IF T = {} THEN 0
                       ELSE f[Chosen(T)] + SumOf(f, T \ {Chosen(T)})
      /\ SumOf(g, T) = IF T = {} THEN 0
                       ELSE g[Chosen(T)] + SumOf(g, T \ {Chosen(T)})
  BY <1>3, SumEquation
<1>5. T # {}
  BY <1>4
<1>6. Chosen(T) \in T
  BY <1>5, ChosenIn
<1>7. SumOf(f, T \ {Chosen(T)}) = SumOf(g, T \ {Chosen(T)})
  BY <1>2, <1>6
<1>8. QED
  BY <1>3, <1>4, <1>6, <1>7

\* Integers add up to an integer.
LEMMA SumInt ==
  ASSUME NEW S, IsFiniteSet(S), NEW f, \A x \in S : f[x] \in Int
  PROVE  SumOf(f, S) \in Int
<1> DEFINE B == {T \in SUBSET S : SumOf(f, T) \notin Int}
<1>1. SUFFICES ASSUME B # {} PROVE FALSE
  OBVIOUS
<1>2. PICK T \in B : \A U \in B : U \subseteq T => U = T
  <2>1. B \in SUBSET (SUBSET S)
    OBVIOUS
  <2> HIDE DEF B
  <2>2. QED
    BY <1>1, <2>1, SmallestSubset
<1>3. T \in SUBSET S /\ IsFiniteSet(T)
  BY FS_Subset
<1>4. SumOf(f, T) = IF T = {} THEN 0
                    ELSE f[Chosen(T)] + SumOf(f, T \ {Chosen(T)})
  BY <1>3, SumEquation
<1>5. T # {}
  BY <1>4
<1>6. Chosen(T) \in T
  BY <1>5, ChosenIn
<1>7. SumOf(f, T \ {Chosen(T)}) \in Int
  BY <1>2, <1>6
<1>8. QED
  BY <1>3, <1>4, <1>6, <1>7

\* Any row can be taken out first.
LEMMA SumRemove ==
  ASSUME NEW S, IsFiniteSet(S), NEW f, \A x \in S : f[x] \in Int, NEW x \in S
  PROVE  SumOf(f, S) = f[x] + SumOf(f, S \ {x})
<1> DEFINE B == {T \in SUBSET S : \E y \in T : SumOf(f, T) # f[y] + SumOf(f, T \ {y})}
<1>1. SUFFICES ASSUME B # {} PROVE FALSE
  OBVIOUS
<1>2. PICK T \in B : \A U \in B : U \subseteq T => U = T
  <2>1. B \in SUBSET (SUBSET S)
    OBVIOUS
  <2> HIDE DEF B
  <2>2. QED
    BY <1>1, <2>1, SmallestSubset
<1>3. PICK y \in T : SumOf(f, T) # f[y] + SumOf(f, T \ {y})
  OBVIOUS
<1> DEFINE c == Chosen(T)
<1>4. T \in SUBSET S /\ c \in T
  BY <1>3, ChosenIn
<1>5. IsFiniteSet(T)
  BY <1>4, FS_Subset
<1>6. SumOf(f, T) = f[c] + SumOf(f, T \ {c})
  BY <1>3, <1>5, SumEquation
<1>7. c # y
  BY <1>3, <1>6
<1> HIDE DEF c
<1>8. SumOf(f, T \ {c}) = f[y] + SumOf(f, (T \ {c}) \ {y})
  <2>1. T \ {c} \in SUBSET S /\ y \in T \ {c}
    BY <1>3, <1>4, <1>7
  <2>2. T \ {c} \notin B
    <3> HIDE DEF B
    <3>1. QED
      BY <1>2, <1>4
  <2>3. QED
    BY <2>1, <2>2
<1>9. SumOf(f, T \ {y}) = f[c] + SumOf(f, (T \ {y}) \ {c})
  <2>1. T \ {y} \in SUBSET S /\ c \in T \ {y}
    BY <1>3, <1>4, <1>7
  <2>2. T \ {y} \notin B
    <3> HIDE DEF B
    <3>1. QED
      BY <1>2, <1>3
  <2>3. QED
    BY <2>1, <2>2
<1>10. (T \ {c}) \ {y} = (T \ {y}) \ {c}
  OBVIOUS
<1>11. SumOf(f, (T \ {y}) \ {c}) \in Int /\ f[c] \in Int /\ f[y] \in Int
  <2>1. (T \ {y}) \ {c} \in SUBSET S
    BY <1>4
  <2>2. IsFiniteSet((T \ {y}) \ {c})
    BY <2>1, FS_Subset
  <2>3. QED
    BY <1>4, <1>3, <2>1, <2>2, SumInt
<1>12. SumOf(f, (T \ {c}) \ {y}) = SumOf(f, (T \ {y}) \ {c})
  BY <1>10
<1> HIDE DEF B
<1>13. QED
  BY <1>3, <1>6, <1>8, <1>9, <1>11, <1>12

\* One entry changed: the sum changes by as much.
LEMMA SumChange ==
  ASSUME NEW S, IsFiniteSet(S), NEW x \in S, NEW f, NEW g,
         \A y \in S : f[y] \in Int /\ g[y] \in Int,
         \A y \in S \ {x} : g[y] = f[y]
  PROVE  SumOf(g, S) = SumOf(f, S) - f[x] + g[x]
<1>1. IsFiniteSet(S \ {x})
  BY FS_RemoveElement
<1>2. SumOf(f, S \ {x}) = SumOf(g, S \ {x}) /\ SumOf(f, S \ {x}) \in Int
  BY <1>1, SumSame, SumInt
<1>3. SumOf(f, S) = f[x] + SumOf(f, S \ {x}) /\ SumOf(g, S) = g[x] + SumOf(g, S \ {x})
  BY SumRemove
<1>4. QED
  BY <1>2, <1>3

\* Two columns added row by row.
LEMMA SumPlus ==
  ASSUME NEW S, IsFiniteSet(S), NEW f, NEW g, NEW h,
         \A x \in S : f[x] \in Int /\ g[x] \in Int /\ h[x] = f[x] + g[x]
  PROVE  SumOf(h, S) = SumOf(f, S) + SumOf(g, S)
<1> DEFINE B == {T \in SUBSET S : SumOf(h, T) # SumOf(f, T) + SumOf(g, T)}
<1>1. SUFFICES ASSUME B # {} PROVE FALSE
  OBVIOUS
<1>2. PICK T \in B : \A U \in B : U \subseteq T => U = T
  <2>1. B \in SUBSET (SUBSET S)
    OBVIOUS
  <2> HIDE DEF B
  <2>2. QED
    BY <1>1, <2>1, SmallestSubset
<1> DEFINE c == Chosen(T)
           R == T \ {c}
<1>3. /\ T \in SUBSET S /\ IsFiniteSet(T)
      /\ SumOf(h, T) # SumOf(f, T) + SumOf(g, T)
  BY FS_Subset
<1>4. T # {}
  BY <1>3, SumEmpty
<1>5. c \in T /\ R \in SUBSET S /\ R \notin B /\ R \in SUBSET T
  BY <1>2, <1>3, <1>4, ChosenIn
<1>6. SumOf(h, R) = SumOf(f, R) + SumOf(g, R)
  BY <1>5
<1>7. /\ SumOf(f, T) = f[c] + SumOf(f, R) /\ SumOf(g, T) = g[c] + SumOf(g, R)
      /\ SumOf(h, T) = h[c] + SumOf(h, R)
  BY <1>3, <1>4, SumEquation
<1>8. SumOf(f, R) \in Int /\ SumOf(g, R) \in Int
  <2> HIDE DEF R, B
  <2>1. IsFiniteSet(R)
    BY <1>3, <1>5, FS_Subset
  <2>2. QED
    BY <1>5, <2>1, SumInt
<1>9. QED
  BY <1>3, <1>5, <1>6, <1>7, <1>8

\* Rows of zeros add up to zero.
LEMMA SumZero ==
  ASSUME NEW S, IsFiniteSet(S), NEW f, \A x \in S : f[x] = 0
  PROVE  SumOf(f, S) = 0
<1>1. SumOf(f, S) = SumOf(f, S) + SumOf(f, S)
  BY SumPlus
<1>2. SumOf(f, S) \in Int
  BY SumInt
<1>3. \A n \in Int : n = n + n => n = 0
  OBVIOUS
<1>4. QED
  BY <1>1, <1>2, <1>3, Zenon

\* Rows that hold zero may be left out.
LEMMA SumSubset ==
  ASSUME NEW S, IsFiniteSet(S), NEW R \in SUBSET S, NEW f,
         \A x \in S : f[x] \in Int, \A x \in S \ R : f[x] = 0
  PROVE  SumOf(f, S) = SumOf(f, R)
<1> DEFINE B == {T \in SUBSET S : SumOf(f, T) # SumOf(f, T \cap R)}
<1>1. SUFFICES ASSUME B # {} PROVE FALSE
  <2>1. S \in SUBSET S /\ S \cap R = R
    OBVIOUS
  <2>2. QED
    BY <2>1
<1>2. PICK T \in B : \A U \in B : U \subseteq T => U = T
  <2>1. B \in SUBSET (SUBSET S)
    OBVIOUS
  <2> HIDE DEF B
  <2>2. QED
    BY <1>1, <2>1, SmallestSubset
<1>3. T \in SUBSET S /\ SumOf(f, T) # SumOf(f, T \cap R)
  OBVIOUS
<1>4. PICK x \in T : x \notin R
  <2>1. T \cap R # T
    BY <1>3
  <2>2. QED
    BY <2>1
<1>5. IsFiniteSet(T) /\ IsFiniteSet(T \ {x})
  BY <1>3, FS_Subset, FS_RemoveElement
<1>6. SumOf(f, T \ {x}) = SumOf(f, (T \ {x}) \cap R)
  <2>1. T \ {x} \in SUBSET S /\ T \ {x} # T /\ T \ {x} \subseteq T
    BY <1>3
  <2> HIDE DEF B
  <2>2. T \ {x} \notin B
    BY <1>2, <2>1
  <2> USE DEF B
  <2>3. QED
    BY <2>1, <2>2
<1>7. (T \ {x}) \cap R = T \cap R
  BY <1>4
<1>8. SumOf(f, T) = f[x] + SumOf(f, T \ {x}) /\ f[x] = 0
  <2>1. \A y \in T : f[y] \in Int
    BY <1>3
  <2>2. f[x] = 0
    BY <1>3, <1>4
  <2>3. QED
    BY <1>5, <2>1, <2>2, SumRemove
<1>9. SumOf(f, T \ {x}) \in Int
  <2>1. \A y \in T \ {x} : f[y] \in Int
    BY <1>3
  <2>2. QED
    BY <1>5, <2>1, SumInt
<1>10. SumOf(f, T) = SumOf(f, T \ {x})
  BY <1>8, <1>9
<1>11. SumOf(f, T \ {x}) = SumOf(f, T \cap R)
  BY <1>6, <1>7, Zenon
<1>12. QED
  BY <1>3, <1>10, <1>11, Zenon

\* What is taken out adds up to what is missing.
LEMMA SumNegated ==
  ASSUME NEW S, IsFiniteSet(S), NEW f, NEW g,
         \A x \in S : f[x] \in Int /\ g[x] = -f[x]
  PROVE  SumOf(g, S) = -SumOf(f, S)
<1> DEFINE zero == [x \in S |-> 0]
<1>1. \A x \in S : /\ f[x] \in Int /\ g[x] \in Int
                   /\ zero[x] = 0 /\ zero[x] = f[x] + g[x]
  OBVIOUS
<1> HIDE DEF zero
<1>2. SumOf(zero, S) = SumOf(f, S) + SumOf(g, S)
  BY <1>1, SumPlus
<1>3. SumOf(zero, S) = 0
  BY <1>1, SumZero
<1>4. SumOf(f, S) \in Int /\ SumOf(g, S) \in Int
  BY <1>1, SumInt
<1>5. QED
  BY <1>2, <1>3, <1>4

LEMMA SumSingle ==
  ASSUME NEW x, NEW f, f[x] \in Int
  PROVE  SumOf(f, {x}) = f[x]
<1>1. IsFiniteSet({x}) /\ {x} \ {x} = {}
  BY FS_Singleton
<1>2. \A y \in {x} : f[y] \in Int
  OBVIOUS
<1>3. SumOf(f, {x}) = f[x] + SumOf(f, {x} \ {x})
  BY <1>1, <1>2, SumRemove
<1>4. QED
  BY <1>1, <1>3, SumEmpty
=============================================================================
