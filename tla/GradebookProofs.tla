--------------------------- MODULE GradebookProofs ---------------------------
(***************************************************************************)
(* What Gradebook keeps for any students, classes, items and marks.  The   *)
(* grades are sums over sets, so the module begins with what such a sum    *)
(* does: SumFunctionOnSet takes the elements in an order of its own, and   *)
(* the lemmas show that the order does not matter.  They argue by the      *)
(* smallest subset that a claim fails for.                                 *)
(***************************************************************************)
EXTENDS Gradebook, FiniteSetTheorems, TLAPS

-----------------------------------------------------------------------------
\* Sums over finite sets.

\* g is a sum of f over each subset of S.
Adds(f, S, g) ==
  g = [s \in SUBSET S |-> IF s = {} THEN 0
                          ELSE LET x == CHOOSE x \in s : TRUE IN f[x] + g[s \ {x}]]

\* Of the subsets that something holds for, one has no smaller one.
LEMMA SmallestSet ==
  ASSUME NEW S, IsFiniteSet(S), NEW B \in SUBSET SUBSET S, B # {}
  PROVE  \E T \in B : \A U \in B : U \subseteq T => U = T
<1> DEFINE R == StrictSubsetOrdering(S)
<1>1. FiniteSubsetsOf(S) = SUBSET S
  BY FS_FiniteSubsetsOfFinite
<1>2. IsWellFoundedOn(R, SUBSET S)
  BY <1>1, FS_StrictSubsetOrderingWellFounded
<1> HIDE DEF R
<1>3. PICK T \in B : \A U \in B : ~ (<<U, T>> \in R)
  BY <1>2, WFMin
<1>4. ASSUME NEW U \in B, U \subseteq T, U # T PROVE FALSE
  BY <1>3, <1>4 DEF R, StrictSubsetOrdering
<1> QED
  BY <1>4

\* There is one such g, and it is there.
LEMMA AddsOnce ==
  ASSUME NEW S, IsFiniteSet(S), NEW f, NEW g, NEW h, Adds(f, S, g), Adds(f, S, h)
  PROVE  \A s \in SUBSET S : g[s] = h[s]
<1> DEFINE B == {s \in SUBSET S : g[s] # h[s]}
<1> SUFFICES ASSUME B # {} PROVE FALSE
  OBVIOUS
<1>1. PICK T \in B : \A U \in B : U \subseteq T => U = T
  <2> HIDE DEF B
  <2>1. B \in SUBSET SUBSET S
    BY DEF B
  <2> QED
    BY <2>1, SmallestSet
<1>2. CASE T = {}
  BY <1>1, <1>2 DEF Adds
<1>3. CASE T # {}
  <2> DEFINE x == CHOOSE x \in T : TRUE
  <2>1. x \in T
    BY <1>3
  <2>2. g[T] = f[x] + g[T \ {x}] /\ h[T] = f[x] + h[T \ {x}]
    BY <1>1, <1>3 DEF Adds
  <2>3. g[T \ {x}] = h[T \ {x}]
    <3> HIDE DEF x
    <3> QED
      BY <1>1, <2>1
  <2> HIDE DEF x
  <2> QED
    BY <1>1, <2>2, <2>3
<1> QED
  BY <1>2, <1>3

LEMMA AddsLess ==
  ASSUME NEW S, NEW f, NEW g, Adds(f, S, g), NEW T \in SUBSET S
  PROVE  Adds(f, T, [s \in SUBSET T |-> g[s]])
BY DEF Adds

LEMMA AddsThere ==
  ASSUME NEW S, IsFiniteSet(S), NEW f
  PROVE  \E g : Adds(f, S, g)
<1> DEFINE B == {s \in SUBSET S : ~ \E g : Adds(f, s, g)}
<1> SUFFICES ASSUME B # {} PROVE FALSE
  BY S \in SUBSET S
<1>1. PICK T \in B : \A U \in B : U \subseteq T => U = T
  <2> HIDE DEF B
  <2>1. B \in SUBSET SUBSET S
    BY DEF B
  <2> QED
    BY <2>1, SmallestSet
<1> DEFINE below(s) == CHOOSE g : Adds(f, s, g)
           first(s) == CHOOSE x \in s : TRUE
           g == [s \in SUBSET T |-> IF s = {} THEN 0 ELSE f[first(s)] + below(s \ {first(s)})[s \ {first(s)}]]
<1>2. \A s \in SUBSET T : s # {} => first(s) \in s
  OBVIOUS
<1> HIDE DEF first
<1>3. \A s \in SUBSET T : s # T => Adds(f, s, below(s))
  BY <1>1
<1> HIDE DEF below
<1>4. \A s \in SUBSET T : s # T => g[s] = below(s)[s]
  <2> TAKE s \in SUBSET T
  <2> HAVE s # T
  <2>1. Adds(f, s, below(s))
    BY <1>3
  <2>2. CASE s = {}
    BY <2>1, <2>2 DEF Adds
  <2>3. CASE s # {}
    <3>1. s \ {first(s)} \in SUBSET s /\ s \ {first(s)} # T /\ s \ {first(s)} \in SUBSET T
      BY <1>2, <2>3
    <3>2. below(s)[s] = f[first(s)] + below(s)[s \ {first(s)}]
      BY <2>1, <2>3 DEF Adds, first
    <3>3. Adds(f, s \ {first(s)}, [t \in SUBSET (s \ {first(s)}) |-> below(s)[t]])
      BY <2>1, <3>1, AddsLess
    <3>4. Adds(f, s \ {first(s)}, below(s \ {first(s)}))
      BY <1>3, <3>1
    <3>5. IsFiniteSet(s \ {first(s)})
      BY <3>1, <1>1, FS_Subset
    <3>6. below(s)[s \ {first(s)}] = below(s \ {first(s)})[s \ {first(s)}]
      BY <3>3, <3>4, <3>5, AddsOnce
    <3> QED
      BY <2>3, <3>2, <3>6
  <2> QED
    BY <2>2, <2>3
<1>5. g = [s \in SUBSET T |-> IF s = {} THEN 0 ELSE f[first(s)] + g[s \ {first(s)}]]
  <2> SUFFICES ASSUME NEW s \in SUBSET T, s # {}
               PROVE  below(s \ {first(s)})[s \ {first(s)}] = g[s \ {first(s)}]
    OBVIOUS
  <2>1. s \ {first(s)} \in SUBSET T /\ s \ {first(s)} # T
    BY <1>2
  <2> QED
    BY <1>4, <2>1
<1> HIDE DEF g
<1>6. Adds(f, T, g)
  BY <1>5 DEF Adds, first
<1> QED
  BY <1>1, <1>6

LEMMA SumIsLast ==
  ASSUME NEW S, IsFiniteSet(S), NEW f, NEW g, Adds(f, S, g)
  PROVE  SumFunctionOnSet(f, S) = g[S]
<1> DEFINE h == CHOOSE g0 : Adds(f, S, g0)
<1>1. Adds(f, S, h)
  OBVIOUS
<1>2. SumFunctionOnSet(f, S) = h[S]
  BY DEF SumFunctionOnSet, FoldFunctionOnSet, MapThenFoldSet, Adds
<1> QED
  BY <1>1, <1>2, AddsOnce

LEMMA SumChosen ==
  ASSUME NEW S, IsFiniteSet(S), NEW f, S # {}
  PROVE  LET x == CHOOSE x \in S : TRUE
         IN SumFunctionOnSet(f, S) = f[x] + SumFunctionOnSet(f, S \ {x})
<1> DEFINE x == CHOOSE x \in S : TRUE
<1>1. PICK g : Adds(f, S, g)
  BY AddsThere
<1>2. g[S] = f[x] + g[S \ {x}]
  BY <1>1 DEF Adds
<1>3. x \in S
  OBVIOUS
<1> HIDE DEF x
<1>4. Adds(f, S \ {x}, [t \in SUBSET (S \ {x}) |-> g[t]])
  BY <1>1, AddsLess
<1>5. SumFunctionOnSet(f, S \ {x}) = g[S \ {x}]
  <2>1. IsFiniteSet(S \ {x})
    BY FS_RemoveElement
  <2>2. SumFunctionOnSet(f, S \ {x}) = [t \in SUBSET (S \ {x}) |-> g[t]][S \ {x}]
    BY <1>4, <2>1, SumIsLast
  <2> QED
    BY <2>2
<1>6. SumFunctionOnSet(f, S) = f[x] + SumFunctionOnSet(f, S \ {x})
  BY <1>1, <1>2, <1>5, SumIsLast
<1> QED
  BY <1>6 DEF x

LEMMA SumOfNothing == ASSUME NEW f PROVE SumFunctionOnSet(f, {}) = 0
<1>1. PICK g : Adds(f, {}, g)
  BY AddsThere, FS_EmptySet
<1>2. g[{}] = 0
  BY <1>1 DEF Adds
<1>3. SumFunctionOnSet(f, {}) = g[{}]
  BY <1>1, SumIsLast, FS_EmptySet
<1> QED
  BY <1>2, <1>3

LEMMA SumIsInt ==
  ASSUME NEW S, IsFiniteSet(S), NEW f, \A s \in S : f[s] \in Int
  PROVE  SumFunctionOnSet(f, S) \in Int
<1> DEFINE B == {s \in SUBSET S : SumFunctionOnSet(f, s) \notin Int}
<1> SUFFICES ASSUME B # {} PROVE FALSE
  BY S \in SUBSET S
<1>1. PICK T \in B : \A U \in B : U \subseteq T => U = T
  <2> HIDE DEF B
  <2>1. B \in SUBSET SUBSET S
    BY DEF B
  <2> QED
    BY <2>1, SmallestSet
<1>2. T # {}
  <2>1. SumFunctionOnSet(f, {}) \in Int
    BY SumOfNothing
  <2> QED
    BY <1>1, <2>1
<1>3. IsFiniteSet(T)
  BY <1>1, FS_Subset
<1>4. PICK x \in T : SumFunctionOnSet(f, T) = f[x] + SumFunctionOnSet(f, T \ {x})
  <2> DEFINE x == CHOOSE x \in T : TRUE
  <2>1. SumFunctionOnSet(f, T) = f[x] + SumFunctionOnSet(f, T \ {x})
    BY <1>2, <1>3, SumChosen
  <2>2. x \in T
    BY <1>2
  <2> QED
    BY <2>1, <2>2
<1>5. T \ {x} \notin B
  BY <1>1
<1>6. SumFunctionOnSet(f, T \ {x}) \in Int
  BY <1>1, <1>5
<1>7. f[x] \in Int /\ SumFunctionOnSet(f, T) \notin Int
  BY <1>1
<1> QED
  BY <1>4, <1>6, <1>7

\* In whatever order.
LEMMA SumSomeFirst ==
  ASSUME NEW S, IsFiniteSet(S), NEW f, S # {}
  PROVE  \E x \in S : SumFunctionOnSet(f, S) = f[x] + SumFunctionOnSet(f, S \ {x})
<1> DEFINE x == CHOOSE x \in S : TRUE
<1>1. SumFunctionOnSet(f, S) = f[x] + SumFunctionOnSet(f, S \ {x})
  BY SumChosen
<1>2. x \in S
  OBVIOUS
<1> QED
  BY <1>1, <1>2

LEMMA SumAnyFirst ==
  ASSUME NEW S, IsFiniteSet(S), NEW f, \A s \in S : f[s] \in Int, NEW y \in S
  PROVE  SumFunctionOnSet(f, S) = f[y] + SumFunctionOnSet(f, S \ {y})
<1> DEFINE Wrong(s, z) == SumFunctionOnSet(f, s) # f[z] + SumFunctionOnSet(f, s \ {z})
           B == {s \in SUBSET S : \E z \in s : Wrong(s, z)}
<1> SUFFICES ASSUME B # {} PROVE FALSE
  BY S \in SUBSET S
<1> HIDE DEF Wrong
<1>1. PICK T \in B : \A U \in B : U \subseteq T => U = T
  <2> HIDE DEF B
  <2>1. B \in SUBSET SUBSET S
    BY DEF B
  <2> QED
    BY <2>1, SmallestSet
<1>2. PICK z \in T : Wrong(T, z)
  BY <1>1
<1>3. IsFiniteSet(T) /\ T # {} /\ T \in SUBSET S
  BY <1>1, <1>2, FS_Subset
<1>4. PICK x \in T : SumFunctionOnSet(f, T) = f[x] + SumFunctionOnSet(f, T \ {x})
  BY <1>3, SumSomeFirst
<1>5. x # z
  BY <1>2, <1>4 DEF Wrong
<1>6. ~ Wrong(T \ {x}, z) /\ ~ Wrong(T \ {z}, x)
  BY <1>1, <1>5
<1>7. (T \ {z}) \ {x} = (T \ {x}) \ {z}
  OBVIOUS
<1>8. SumFunctionOnSet(f, (T \ {x}) \ {z}) \in Int
  <2>1. IsFiniteSet((T \ {x}) \ {z})
    BY <1>3, (T \ {x}) \ {z} \in SUBSET T, FS_Subset
  <2> QED
    BY <2>1, <1>3, SumIsInt
<1>9. f[x] \in Int /\ f[z] \in Int
  BY <1>3
<1> DEFINE rest == SumFunctionOnSet(f, (T \ {x}) \ {z})
<1>10. SumFunctionOnSet(f, T \ {x}) = f[z] + rest
  BY <1>6 DEF Wrong
<1>11. SumFunctionOnSet(f, T \ {z}) = f[x] + rest
  BY <1>6, <1>7 DEF Wrong
<1>12. rest \in Int
  BY <1>8
<1> HIDE DEF rest, B
<1>13. f[x] + (f[z] + rest) = f[z] + (f[x] + rest)
  BY <1>9, <1>12
<1>14. SumFunctionOnSet(f, T) = f[z] + SumFunctionOnSet(f, T \ {z})
  BY <1>4, <1>10, <1>11, <1>13
<1> QED
  BY <1>2, <1>14 DEF Wrong

\* The smallest set on which a claim about sums fails is not empty.
LEMMA SumOfCombination ==
  ASSUME NEW S, IsFiniteSet(S), NEW a \in Int, NEW b \in Int, NEW f, NEW g, NEW e,
         \A s \in S : f[s] \in Int /\ g[s] \in Int /\ e[s] = a * f[s] + b * g[s]
  PROVE  SumFunctionOnSet(e, S) = a * SumFunctionOnSet(f, S) + b * SumFunctionOnSet(g, S)
<1> DEFINE Wrong(s) ==
             SumFunctionOnSet(e, s) # a * SumFunctionOnSet(f, s) + b * SumFunctionOnSet(g, s)
           B == {s \in SUBSET S : Wrong(s)}
<1> SUFFICES ASSUME B # {} PROVE FALSE
  BY S \in SUBSET S
<1> HIDE DEF Wrong
<1>1. PICK T \in B : \A U \in B : U \subseteq T => U = T
  <2> HIDE DEF B
  <2>1. B \in SUBSET SUBSET S
    BY DEF B
  <2> QED
    BY <2>1, SmallestSet
<1>2. T # {}
  <2>1. ~ Wrong({})
    BY SumOfNothing DEF Wrong
  <2> QED
    BY <1>1, <2>1
<1>3. PICK z \in T : TRUE
  BY <1>2
<1>4. IsFiniteSet(T) /\ T \in SUBSET S /\ IsFiniteSet(T \ {z}) /\ T \ {z} \in SUBSET S
  BY <1>1, FS_Subset
<1>5. \A s \in S : e[s] \in Int
  <2>1. \A x \in Int, y \in Int : a * x + b * y \in Int
    OBVIOUS
  <2> QED
    BY <2>1
<1>6. /\ SumFunctionOnSet(f, T) = f[z] + SumFunctionOnSet(f, T \ {z})
      /\ SumFunctionOnSet(g, T) = g[z] + SumFunctionOnSet(g, T \ {z})
      /\ SumFunctionOnSet(e, T) = e[z] + SumFunctionOnSet(e, T \ {z})
  BY <1>4, <1>5, SumAnyFirst
<1>7. /\ SumFunctionOnSet(f, T \ {z}) \in Int
      /\ SumFunctionOnSet(g, T \ {z}) \in Int
  BY <1>4, SumIsInt
<1>8. ~ Wrong(T \ {z})
  BY <1>1, <1>3
<1>9. \A x, y, v, w \in Int :
        (a * x + b * y) + (a * v + b * w) = a * (x + v) + b * (y + w)
  OBVIOUS
<1>10. f[z] \in Int /\ g[z] \in Int /\ e[z] = a * f[z] + b * g[z]
  BY <1>4
<1>11. ~ Wrong(T)
  BY <1>6, <1>7, <1>8, <1>9, <1>10 DEF Wrong
<1> QED
  BY <1>1, <1>11

LEMMA SumNotNegative ==
  ASSUME NEW S, IsFiniteSet(S), NEW f, \A s \in S : f[s] \in Int /\ f[s] >= 0
  PROVE  SumFunctionOnSet(f, S) >= 0
<1> DEFINE B == {s \in SUBSET S : ~ (SumFunctionOnSet(f, s) >= 0)}
<1> SUFFICES ASSUME B # {} PROVE FALSE
  BY S \in SUBSET S
<1>1. PICK T \in B : \A U \in B : U \subseteq T => U = T
  <2> HIDE DEF B
  <2>1. B \in SUBSET SUBSET S
    BY DEF B
  <2> QED
    BY <2>1, SmallestSet
<1>2. T # {}
  <2>1. SumFunctionOnSet(f, {}) >= 0
    BY SumOfNothing
  <2> QED
    BY <1>1, <2>1
<1>3. IsFiniteSet(T) /\ T \in SUBSET S
  BY <1>1, FS_Subset
<1>4. PICK z \in T : SumFunctionOnSet(f, T) = f[z] + SumFunctionOnSet(f, T \ {z})
  BY <1>2, <1>3, SumSomeFirst
<1>5. T \ {z} \notin B
  BY <1>1
<1>6. SumFunctionOnSet(f, T \ {z}) >= 0
  BY <1>3, <1>5
<1>7. SumFunctionOnSet(f, T \ {z}) \in Int
  BY <1>3, FS_RemoveElement, SumIsInt
<1>8. f[z] \in Int /\ f[z] >= 0 /\ ~ (SumFunctionOnSet(f, T) >= 0)
  BY <1>1, <1>3
<1> QED
  BY <1>4, <1>6, <1>7, <1>8

\* Of terms none of which is negative, none is more than the sum.
LEMMA SumNotLess ==
  ASSUME NEW S, IsFiniteSet(S), NEW f, \A s \in S : f[s] \in Int /\ f[s] >= 0, NEW y \in S
  PROVE  SumFunctionOnSet(f, S) >= f[y]
<1>1. SumFunctionOnSet(f, S) = f[y] + SumFunctionOnSet(f, S \ {y})
  BY SumAnyFirst
<1>2. IsFiniteSet(S \ {y})
  BY FS_RemoveElement
<1>3. SumFunctionOnSet(f, S \ {y}) >= 0 /\ SumFunctionOnSet(f, S \ {y}) \in Int
  BY <1>2, SumNotNegative, SumIsInt
<1>4. f[y] \in Int
  OBVIOUS
<1> QED
  BY <1>1, <1>3, <1>4

LEMMA SumRises ==
  ASSUME NEW S, IsFiniteSet(S), NEW f, NEW g,
         \A s \in S : f[s] \in Int /\ g[s] \in Int /\ f[s] <= g[s]
  PROVE  SumFunctionOnSet(f, S) <= SumFunctionOnSet(g, S)
<1> DEFINE e == [s \in S |-> 1 * g[s] + (-1) * f[s]]
<1>1. \A s \in S : e[s] = 1 * g[s] + (-1) * f[s]
  OBVIOUS
<1>2. \A s \in S : e[s] \in Int /\ e[s] >= 0
  OBVIOUS
<1> HIDE DEF e
<1>3. SumFunctionOnSet(e, S) = 1 * SumFunctionOnSet(g, S) + (-1) * SumFunctionOnSet(f, S)
  BY <1>1, SumOfCombination
<1>4. SumFunctionOnSet(e, S) >= 0
  BY <1>2, SumNotNegative
<1>5. SumFunctionOnSet(f, S) \in Int /\ SumFunctionOnSet(g, S) \in Int
  BY SumIsInt
<1> QED
  BY <1>3, <1>4, <1>5

LEMMA SumOfParts ==
  ASSUME NEW S, IsFiniteSet(S), NEW T, IsFiniteSet(T), S \cap T = {},
         NEW f, \A s \in S \cup T : f[s] \in Int
  PROVE  SumFunctionOnSet(f, S \cup T) = SumFunctionOnSet(f, S) + SumFunctionOnSet(f, T)
<1> DEFINE Wrong(s) == SumFunctionOnSet(f, S \cup s) # SumFunctionOnSet(f, S) + SumFunctionOnSet(f, s)
           B == {s \in SUBSET T : Wrong(s)}
<1> SUFFICES ASSUME B # {} PROVE FALSE
  BY T \in SUBSET T
<1> HIDE DEF Wrong
<1>1. PICK U \in B : \A V \in B : V \subseteq U => V = U
  <2> HIDE DEF B
  <2>1. B \in SUBSET SUBSET T
    BY DEF B
  <2> QED
    BY <2>1, SmallestSet
<1>2. SumFunctionOnSet(f, S) \in Int
  BY SumIsInt
<1>3. U # {}
  <2>1. S \cup {} = S
    OBVIOUS
  <2>2. ~ Wrong({})
    BY <1>2, <2>1, SumOfNothing DEF Wrong
  <2> QED
    BY <1>1, <2>2
<1>4. PICK z \in U : TRUE
  BY <1>3
<1>5. /\ U \in SUBSET T /\ IsFiniteSet(U) /\ IsFiniteSet(U \ {z}) /\ IsFiniteSet(S \cup U)
      /\ z \in S \cup U /\ (S \cup U) \ {z} = S \cup (U \ {z})
  BY <1>1, <1>4, FS_Subset, FS_Union
<1>6. /\ SumFunctionOnSet(f, U) = f[z] + SumFunctionOnSet(f, U \ {z})
      /\ SumFunctionOnSet(f, S \cup U) = f[z] + SumFunctionOnSet(f, S \cup (U \ {z}))
  <2>1. SumFunctionOnSet(f, U) = f[z] + SumFunctionOnSet(f, U \ {z})
    BY <1>4, <1>5, SumAnyFirst
  <2>2. SumFunctionOnSet(f, S \cup U) = f[z] + SumFunctionOnSet(f, (S \cup U) \ {z})
    BY <1>5, SumAnyFirst
  <2> QED
    BY <1>5, <2>1, <2>2
<1>7. SumFunctionOnSet(f, U \ {z}) \in Int /\ f[z] \in Int
  BY <1>4, <1>5, SumIsInt
<1>8. ~ Wrong(U \ {z})
  BY <1>1, <1>4
<1>9. ~ Wrong(U)
  BY <1>2, <1>6, <1>7, <1>8 DEF Wrong
<1> QED
  BY <1>1, <1>9

-----------------------------------------------------------------------------
\* Rounding, to the nearest and a tie to the even neighbour.
LEMMA Halves ==
  ASSUME NEW n \in Int, NEW d \in Nat \ {0}
  PROVE  /\ n \div d \in Int /\ n % d \in Int /\ 0 <= n % d /\ n % d < d
         /\ n % d = n - d * (n \div d)
         /\ Round(n, d) \in Int
<1>1. d \in Int /\ d > 0
  OBVIOUS
<1>2. n \div d \in Int
  OBVIOUS
<1>3. n % d \in Int /\ 0 <= n % d /\ n % d < d
  OBVIOUS
<1>4. n % d = n - d * (n \div d)
  BY <1>1
<1> QED
  BY <1>2, <1>3, <1>4 DEF Round

LEMMA AtLeastTimes ==
  ASSUME NEW d \in Nat \ {0}, NEW x \in Int, NEW y \in Int, x <= y
  PROVE  d * x <= d * y
OBVIOUS

\* What rounds to h at most, and what rounds to h at least.
LEMMA RoundAtMost ==
  ASSUME NEW n \in Int, NEW d \in Nat \ {0}, NEW h \in Int
  PROVE  Round(n, d) <= h <=> 2 * n < (2 * h + 1) * d \/ (2 * n = (2 * h + 1) * d /\ h % 2 = 0)
<1> DEFINE q == n \div d
           r == n % d
<1>0. q \in Int /\ r \in Int /\ 0 <= r /\ r < d /\ r = n - d * q
  BY Halves
<1>2. Round(n, d) = IF 2 * r < d \/ (2 * r = d /\ q % 2 = 0) THEN q ELSE q + 1
  BY DEF Round
<1>3. (2 * h + 1) * d = 2 * (d * h) + d
  OBVIOUS
<1> HIDE DEF q, r
<1>1. /\ q \in Int /\ r \in Int /\ 0 <= r /\ r < d
      /\ n = d * q + r /\ d * q \in Int /\ d * h \in Int
  BY <1>0
<1>4. CASE q < h
  <2>1. d * (q + 1) <= d * h
    BY <1>1, <1>4, AtLeastTimes
  <2>2. d * (q + 1) = d * q + d
    BY <1>1
  <2>3. Round(n, d) <= h
    BY <1>1, <1>2, <1>4
  <2>4. 2 * n < (2 * h + 1) * d
    BY <1>1, <1>3, <2>1, <2>2
  <2> QED
    BY <2>3, <2>4
<1>5. CASE q = h
  BY <1>1, <1>2, <1>3, <1>5
<1>6. CASE q > h
  <2>1. d * (h + 1) <= d * q
    BY <1>1, <1>6, AtLeastTimes
  <2>2. d * (h + 1) = d * h + d
    OBVIOUS
  <2>3. ~ (Round(n, d) <= h)
    BY <1>1, <1>2, <1>6
  <2>4. 2 * n > (2 * h + 1) * d
    BY <1>1, <1>3, <2>1, <2>2
  <2> QED
    BY <1>1, <1>3, <2>3, <2>4
<1> QED
  BY <1>1, <1>4, <1>5, <1>6

LEMMA RoundAtLeast ==
  ASSUME NEW n \in Int, NEW d \in Nat \ {0}, NEW l \in Int
  PROVE  Round(n, d) >= l <=> 2 * n > (2 * l - 1) * d \/ (2 * n = (2 * l - 1) * d /\ l % 2 = 0)
<1>1. l - 1 \in Int /\ (l - 1) % 2 = 0 <=> l % 2 # 0
  OBVIOUS
<1>2. Round(n, d) <= l - 1 <=>
        2 * n < (2 * (l - 1) + 1) * d \/ (2 * n = (2 * (l - 1) + 1) * d /\ (l - 1) % 2 = 0)
  BY <1>1, RoundAtMost
<1>3. (2 * (l - 1) + 1) * d = (2 * l - 1) * d /\ (2 * l - 1) * d \in Int
  OBVIOUS
<1>4. Round(n, d) >= l <=> ~ (Round(n, d) <= l - 1)
  <2> DEFINE x == Round(n, d)
  <2>1. x \in Int
    BY Halves
  <2> HIDE DEF x
  <2>2. x >= l <=> ~ (x <= l - 1)
    BY <2>1
  <2> QED
    BY <2>2 DEF x
<1>5. 2 * n \in Int
  OBVIOUS
<1> QED
  BY <1>1, <1>2, <1>3, <1>4, <1>5

LEMMA RoundRises ==
  ASSUME NEW n \in Int, NEW m \in Int, n <= m, NEW d \in Nat \ {0}
  PROVE  Round(n, d) <= Round(m, d)
<1> DEFINE h == Round(m, d)
<1>1. h \in Int
  BY Halves
<1> HIDE DEF h
<1>2. Round(m, d) <= h
  BY <1>1 DEF h
<1>3. 2 * m < (2 * h + 1) * d \/ (2 * m = (2 * h + 1) * d /\ h % 2 = 0)
  BY <1>1, <1>2, RoundAtMost
<1>4. (2 * h + 1) * d \in Int
  BY <1>1
<1>5. 2 * n < (2 * h + 1) * d \/ (2 * n = (2 * h + 1) * d /\ h % 2 = 0)
  BY <1>3, <1>4
<1>6. Round(n, d) <= h
  BY <1>1, <1>5, RoundAtMost
<1> QED
  BY <1>6 DEF h

-----------------------------------------------------------------------------
\* The gradebook has its types.
IInv == TypeOK /\ Len(items) <= MaxItems

LEMMA RowAdded ==
  ASSUME NEW S, NEW t \in Seq(S), NEW x \in S
  PROVE  /\ Append(t, x) \in Seq(S)
         /\ Len(Append(t, x)) = Len(t) + 1 /\ Len(t) \in Nat
         /\ DOMAIN Append(t, x) = DOMAIN t \cup {Len(t) + 1}
OBVIOUS

LEMMA MoreRows ==
  ASSUME NEW S, NEW T, S \subseteq T, NEW t \in Seq(S)
  PROVE  t \in Seq(T)
OBVIOUS

LEMMA InitInvariant == Init => IInv
<1> SUFFICES ASSUME Init PROVE IInv
  OBVIOUS
<1>1. Len(items) = 0 /\ MaxItems \in Nat
  BY GradebookAssumption DEF Init
<1> QED
  BY <1>1 DEF Init, IInv, TypeOK

LEMMA CreateCategoryKeeps == ASSUME IInv, CreateCategory PROVE IInv'
<1>1. PICK class \in Classes, w \in Weights :
        categories' = Append(categories, [class |-> class, weight |-> w])
  BY DEF CreateCategory
<1> DEFINE R == [class : Classes, weight : Weights]
           x == [class |-> class, weight |-> w]
           I(D) == [category : D, max : Maxima]
<1>2. x \in R /\ categories \in Seq(R)
  BY DEF IInv, TypeOK
<1>3. categories' = Append(categories, x)
  BY <1>1
<1> HIDE DEF R, x
<1>4. categories' \in Seq(R) /\ DOMAIN categories \subseteq DOMAIN categories'
  BY <1>2, <1>3, RowAdded
<1>5. I(DOMAIN categories) \subseteq I(DOMAIN categories')
  BY <1>4
<1>6. items \in Seq(I(DOMAIN categories))
  BY DEF IInv, TypeOK
<1> HIDE DEF I
<1>7. items \in Seq(I(DOMAIN categories'))
  BY <1>5, <1>6, MoreRows
<1>8. UNCHANGED <<items, entries>>
  BY DEF CreateCategory
<1>9. categories' \in Seq([class : Classes, weight : Weights])
  BY <1>4 DEF R
<1>10. items' \in Seq([category : DOMAIN categories', max : Maxima])
  BY <1>7, <1>8 DEF I
<1> QED
  BY <1>8, <1>9, <1>10 DEF IInv, TypeOK

LEMMA CreateItemKeeps == ASSUME IInv, CreateItem PROVE IInv'
<1>1. PICK c \in DOMAIN categories, m \in Maxima :
        items' = Append(items, [category |-> c, max |-> m])
  BY DEF CreateItem
<1> DEFINE R == [category : DOMAIN categories, max : Maxima]
           x == [category |-> c, max |-> m]
<1>2. x \in R /\ items \in Seq(R)
  BY DEF IInv, TypeOK
<1>3. items' = Append(items, x) /\ Len(items) < MaxItems /\ UNCHANGED <<categories, entries>>
  BY <1>1 DEF CreateItem
<1>4. MaxItems \in Nat
  BY GradebookAssumption
<1> HIDE DEF x
<1>5. /\ items' \in Seq(R) /\ Len(items') = Len(items) + 1 /\ Len(items) \in Nat
      /\ DOMAIN items \subseteq DOMAIN items'
  BY <1>2, <1>3, RowAdded
<1>6. Len(items') <= MaxItems
  BY <1>3, <1>4, <1>5
<1>7. items' \in Seq([category : DOMAIN categories', max : Maxima])
  BY <1>3, <1>5
<1> QED
  BY <1>3, <1>5, <1>6, <1>7 DEF IInv, TypeOK

\* Entries of items that are there may be written.
LEMMA WriteKeeps ==
  ASSUME IInv, NEW i \in DOMAIN items, NEW S \in SUBSET Students, NEW marks \in [S -> Marks],
         Write(i, marks)
  PROVE  IInv'
<1>1. i \in 1..MaxItems
  BY GradebookAssumption DEF IInv, TypeOK
<1>2. ASSUME NEW s \in Students
      PROVE  /\ entries'[s] = [entries[s] EXCEPT ![i] = Written(s, i, marks)]
             /\ Written(s, i, marks) \in Marks \cup {Null}
             /\ entries[s] \in [1..MaxItems -> Marks \cup {Null}]
  BY <1>1 DEF Write, Written, IInv, TypeOK
<1>3. \A s \in Students : entries'[s] \in [1..MaxItems -> Marks \cup {Null}]
  BY <1>1, <1>2
<1>4. entries' \in [Students -> [1..MaxItems -> Marks \cup {Null}]]
  BY <1>3 DEF Write
<1>5. \A s \in Students : \A k \in 1..MaxItems : entries'[s][k] # Null => k = i \/ entries[s][k] # Null
  BY <1>2
<1>6. UNCHANGED <<categories, items>>
  BY DEF Write
<1> QED
  BY <1>4, <1>5, <1>6 DEF IInv, TypeOK

LEMMA NextInvariant == IInv /\ [Next]_vars => IInv'
<1> SUFFICES ASSUME IInv, [Next]_vars PROVE IInv'
  OBVIOUS
<1>1. CASE SetGrade
  <2>1. PICK i \in DOMAIN items, s \in Students, m \in Marks : Write(i, [p \in {s} |-> m])
    BY <1>1 DEF SetGrade
  <2>2. {s} \in SUBSET Students /\ [p \in {s} |-> m] \in [{s} -> Marks]
    OBVIOUS
  <2> QED
    BY <2>1, <2>2, WriteKeeps
<1>2. CASE BatchUpdate
  BY <1>2, WriteKeeps DEF BatchUpdate
<1>3. CASE UNCHANGED vars
  BY <1>3 DEF vars, IInv, TypeOK
<1> QED
  BY <1>1, <1>2, <1>3, CreateCategoryKeeps, CreateItemKeeps DEF Next

LEMMA Invariance == Spec => []IInv
BY InitInvariant, NextInvariant, PTL DEF Spec

\* Categories, items and marks have their types, and only items that are there are
\* marked, whatever is written one by one or in batches.
THEOREM TypeCorrect == Spec => []TypeOK
<1>1. IInv => TypeOK
  BY DEF IInv
<1> QED
  BY <1>1, Invariance, PTL

-----------------------------------------------------------------------------
\* The grade of a view: what it is made from, and in what it is monotone.
View == [DOMAIN items -> Marks \cup {Null}]

WeightOf == [c \in DOMAIN categories |-> categories[c].weight]
ScoreOf(view) == [c \in DOMAIN categories |-> Weighted(view, c)]
MaxOf == [i \in DOMAIN items |-> items[i].max]

LEMMA CategoryTyped ==
  ASSUME IInv, NEW c \in DOMAIN categories
  PROVE  categories[c].class \in Classes /\ categories[c].weight \in Weights \cap Nat
<1> DEFINE R == [class : Classes, weight : Weights]
<1>1. categories[c] \in R
  <2>1. categories \in Seq(R)
    BY DEF IInv, TypeOK
  <2> HIDE DEF R
  <2> QED
    BY <2>1
<1>2. categories[c].class \in Classes /\ categories[c].weight \in Weights
  BY <1>1
<1> QED
  BY <1>2, GradebookAssumption

LEMMA ItemTyped ==
  ASSUME IInv, NEW i \in DOMAIN items PROVE items[i].max \in Nat \cup {Null}
<1> DEFINE R == [category : DOMAIN categories, max : Maxima]
<1>1. items[i] \in R
  <2>1. items \in Seq(R)
    BY DEF IInv, TypeOK
  <2> HIDE DEF R
  <2> QED
    BY <2>1
<1> QED
  BY <1>1, GradebookAssumption

LEMMA OwnEntriesAreView == ASSUME IInv, NEW s \in Students PROVE OwnEntries(s) \in View
<1>1. DOMAIN items \subseteq 1..MaxItems
  BY GradebookAssumption DEF IInv, TypeOK
<1> QED
  BY <1>1 DEF OwnEntries, View, IInv, TypeOK

LEMMA CategoriesFinite ==
  ASSUME IInv, NEW C
  PROVE  /\ IsFiniteSet(CategoriesOf(C)) /\ CategoriesOf(C) \subseteq DOMAIN categories
         /\ \A c \in CategoriesOf(C) : WeightOf[c] \in Nat /\ WeightOf[c] = categories[c].weight
<1>1. IsFiniteSet(DOMAIN categories)
  BY FS_Interval DEF IInv, TypeOK
<1>2. CategoriesOf(C) \subseteq DOMAIN categories
  BY DEF CategoriesOf
<1>3. \A c \in DOMAIN categories : categories[c].weight \in Nat
  BY CategoryTyped
<1> QED
  BY <1>1, <1>2, <1>3, FS_Subset DEF WeightOf

LEMMA CountedFinite ==
  ASSUME IInv, NEW view \in View, NEW c
  PROVE  /\ IsFiniteSet(Counted(view, c)) /\ Counted(view, c) \subseteq DOMAIN items
         /\ \A i \in Counted(view, c) : view[i] \in Int /\ MaxOf[i] \in Int /\ MaxOf[i] > 0
<1>1. IsFiniteSet(DOMAIN items)
  BY FS_Interval DEF IInv, TypeOK
<1>2. Counted(view, c) \subseteq DOMAIN items
  BY DEF Counted
<1>3. \A i \in DOMAIN items : items[i].max \in Nat \cup {Null} /\ view[i] \in Int \cup {Null}
  BY ItemTyped, GradebookAssumption DEF View
<1>4. \A i \in Counted(view, c) : view[i] \in Int /\ MaxOf[i] \in Int /\ MaxOf[i] > 0
  BY <1>3 DEF Counted, MaxOf
<1> QED
  BY <1>1, <1>2, <1>4, FS_Subset

LEMMA PercentIsRound ==
  ASSUME IInv, NEW view \in View, NEW c
  PROVE  LET T == SumFunctionOnSet(MaxOf, Counted(view, c))
             E == SumFunctionOnSet(view, Counted(view, c))
         IN /\ T \in Nat /\ E \in Int
            /\ Percent(view, c) = IF T > 0 THEN Round(1000 * E, T) ELSE 0
            /\ Percent(view, c) \in Int
<1> DEFINE T == SumFunctionOnSet(MaxOf, Counted(view, c))
           E == SumFunctionOnSet(view, Counted(view, c))
<1>1. T \in Int /\ T >= 0 /\ E \in Int
  BY CountedFinite, SumIsInt, SumNotNegative
<1>2. Percent(view, c) = IF T > 0 THEN Round(1000 * E, T) ELSE 0
  BY DEF Percent, MaxOf
<1> HIDE DEF T, E
<1>3. Percent(view, c) \in Int
  <2>1. CASE T > 0
    <3>1. T \in Nat \ {0} /\ 1000 * E \in Int
      BY <1>1, <2>1
    <3> QED
      BY <1>2, <2>1, <3>1, Halves
  <2> QED
    BY <1>2, <2>1
<1>4. T \in Nat
  BY <1>1
<1> QED
  BY <1>1, <1>2, <1>3, <1>4 DEF T, E

\* A weighted score is within half a hundredth of its share.
LEMMA WeightedIsRound ==
  ASSUME IInv, NEW view \in View, NEW c \in DOMAIN categories
  PROVE  /\ Weighted(view, c) = Round(Percent(view, c) * categories[c].weight, 10)
         /\ Weighted(view, c) \in Int
         /\ Percent(view, c) * categories[c].weight \in Int
<1>1. categories[c].weight \in Int
  BY CategoryTyped
<1>2. Percent(view, c) * categories[c].weight \in Int
  BY <1>1, PercentIsRound
<1>3. Weighted(view, c) = Round(Percent(view, c) * categories[c].weight, 10)
  BY DEF Weighted
<1>4. 10 \in Nat \ {0}
  OBVIOUS
<1> QED
  BY <1>2, <1>3, <1>4, Halves

LEMMA MeanIsRound ==
  ASSUME IInv, NEW view \in View, NEW C
  PROVE  /\ TotalWeight(C) = SumFunctionOnSet(WeightOf, CategoriesOf(C))
         /\ TotalScore(view, C) = SumFunctionOnSet(ScoreOf(view), CategoriesOf(C))
         /\ TotalWeight(C) \in Nat /\ TotalScore(view, C) \in Int
         /\ \A c \in CategoriesOf(C) : ScoreOf(view)[c] \in Int
         /\ Mean(view, C) = IF TotalWeight(C) = 0 THEN 0
                            ELSE Round(10 * TotalScore(view, C), TotalWeight(C))
         /\ Mean(view, C) \in Int
<1>1. /\ TotalWeight(C) = SumFunctionOnSet(WeightOf, CategoriesOf(C))
      /\ TotalScore(view, C) = SumFunctionOnSet(ScoreOf(view), CategoriesOf(C))
  BY DEF TotalWeight, TotalScore, WeightOf, ScoreOf
<1>2. \A c \in CategoriesOf(C) : ScoreOf(view)[c] \in Int
  BY CategoriesFinite, WeightedIsRound DEF ScoreOf
<1>3. TotalScore(view, C) \in Int
  BY <1>1, <1>2, CategoriesFinite, SumIsInt
<1>4. \A c \in CategoriesOf(C) : WeightOf[c] \in Int /\ WeightOf[c] >= 0
  BY CategoriesFinite
<1>5. TotalWeight(C) \in Int /\ TotalWeight(C) >= 0
  BY <1>1, <1>4, CategoriesFinite, SumIsInt, SumNotNegative
<1>6. Mean(view, C) = IF TotalWeight(C) = 0 THEN 0
                      ELSE Round(10 * TotalScore(view, C), TotalWeight(C))
  BY DEF Mean
<1>7. TotalWeight(C) # 0 => TotalWeight(C) \in Nat \ {0} /\ 10 * TotalScore(view, C) \in Int
  BY <1>3, <1>5
<1>8. Mean(view, C) \in Int
  BY <1>6, <1>7, Halves
<1>9. TotalWeight(C) \in Nat
  BY <1>5
<1> QED
  BY <1>1, <1>2, <1>3, <1>6, <1>8, <1>9

\* A better mark in every entry gives no lower percentage, score and grade.
LEMMA MeanRises ==
  ASSUME IInv, NEW v \in View, NEW w \in View, NEW C,
         \A i \in DOMAIN items : (v[i] = Null) <=> (w[i] = Null),
         \A i \in DOMAIN items : v[i] # Null => w[i] >= v[i]
  PROVE  Mean(v, C) <= Mean(w, C)
<1>1. ASSUME NEW c PROVE Percent(v, c) <= Percent(w, c)
  <2> DEFINE S == Counted(v, c)
             T == SumFunctionOnSet(MaxOf, S)
             E == SumFunctionOnSet(v, S)
             F == SumFunctionOnSet(w, S)
  <2>1. Counted(w, c) = S
    BY DEF Counted
  <2>2. /\ IsFiniteSet(S)
        /\ \A i \in S : v[i] \in Int /\ w[i] \in Int /\ v[i] <= w[i]
    <3>1. IsFiniteSet(S) /\ \A i \in S : i \in DOMAIN items /\ v[i] \in Int /\ w[i] \in Int
      BY <2>1, CountedFinite
    <3>2. \A i \in S : v[i] # Null
      BY DEF Counted
    <3> QED
      BY <3>1, <3>2
  <2>3. /\ T \in Nat /\ E \in Int /\ F \in Int
        /\ Percent(v, c) = IF T > 0 THEN Round(1000 * E, T) ELSE 0
        /\ Percent(w, c) = IF T > 0 THEN Round(1000 * F, T) ELSE 0
    BY <2>1, PercentIsRound
  <2> HIDE DEF S
  <2>4. E <= F
    BY <2>2, SumRises
  <2> HIDE DEF T, E, F
  <2>5. CASE T > 0
    <3>1. T \in Nat \ {0} /\ 1000 * E \in Int /\ 1000 * F \in Int /\ 1000 * E <= 1000 * F
      BY <2>3, <2>4, <2>5
    <3>2. Round(1000 * E, T) <= Round(1000 * F, T)
      BY <3>1, RoundRises
    <3> QED
      BY <2>3, <2>5, <3>2
  <2> QED
    BY <2>3, <2>5
<1>2. ASSUME NEW c \in CategoriesOf(C) PROVE ScoreOf(v)[c] <= ScoreOf(w)[c]
  <2> DEFINE k == categories[c].weight
             x == Percent(v, c)
             y == Percent(w, c)
  <2>1. c \in DOMAIN categories /\ k \in Nat
    BY CategoriesFinite, CategoryTyped
  <2>2. x \in Int /\ y \in Int /\ x <= y
    BY <1>1, PercentIsRound
  <2>3. Weighted(v, c) = Round(x * k, 10) /\ Weighted(w, c) = Round(y * k, 10)
    BY <2>1, WeightedIsRound
  <2> HIDE DEF k, x, y
  <2>4. x * k \in Int /\ y * k \in Int /\ x * k <= y * k /\ 10 \in Nat \ {0}
    <3>1. CASE k = 0
      BY <2>2, <3>1
    <3>2. CASE k # 0
      <4>1. k * x <= k * y
        BY <2>1, <2>2, <3>2, AtLeastTimes
      <4> QED
        BY <2>1, <2>2, <4>1
    <3> QED
      BY <3>1, <3>2
  <2>5. Round(x * k, 10) <= Round(y * k, 10)
    BY <2>4, RoundRises
  <2> QED
    BY <2>1, <2>3, <2>5 DEF ScoreOf
<1>3. TotalScore(v, C) <= TotalScore(w, C)
  BY <1>2, MeanIsRound, CategoriesFinite, SumRises
<1> DEFINE k == TotalWeight(C)
           x == TotalScore(v, C)
           y == TotalScore(w, C)
<1>4. /\ k \in Nat /\ x \in Int /\ y \in Int /\ x <= y
      /\ Mean(v, C) = IF k = 0 THEN 0 ELSE Round(10 * x, k)
      /\ Mean(w, C) = IF k = 0 THEN 0 ELSE Round(10 * y, k)
  BY <1>3, MeanIsRound
<1> HIDE DEF k, x, y
<1>5. CASE k # 0
  <2>1. k \in Nat \ {0} /\ 10 * x \in Int /\ 10 * y \in Int /\ 10 * x <= 10 * y
    BY <1>4, <1>5
  <2>2. Round(10 * x, k) <= Round(10 * y, k)
    BY <2>1, RoundRises
  <2> QED
    BY <1>4, <1>5, <2>2
<1> QED
  BY <1>4, <1>5

\* What a step that leaves the structure makes of a grade.
LEMMA SameStructure ==
  ASSUME categories' = categories, items' = items, NEW s \in Students, NEW class \in Classes,
         NEW v, v = OwnEntries(s)'
  PROVE  FinalGrade(s, class)' = Mean(v, {class})
BY DEF FinalGrade, Mean, TotalWeight, TotalScore, Weighted, Percent, Counted, CategoriesOf

\* A write leaves the grades of all students it does not name as they were.
THEOREM OwnGrade == Spec => GradeIsOwn
<1>1. IInv /\ [Next]_vars =>
        [\A s \in Students, class \in Classes :
           categories' = categories /\ items' = items /\ entries'[s] = entries[s] =>
             FinalGrade(s, class)' = FinalGrade(s, class)]_vars
  <2> SUFFICES ASSUME IInv, [Next]_vars, NEW s \in Students, NEW class \in Classes,
                      categories' = categories, items' = items, entries'[s] = entries[s]
               PROVE  FinalGrade(s, class)' = FinalGrade(s, class)
    OBVIOUS
  <2>1. OwnEntries(s)' = OwnEntries(s)
    BY DEF OwnEntries
  <2>2. FinalGrade(s, class)' = Mean(OwnEntries(s), {class})
    BY <2>1, SameStructure
  <2> QED
    BY <2>2 DEF FinalGrade
<1> QED
  BY <1>1, Invariance, PTL DEF Spec, GradeIsOwn

\* Better marks lower no grade, although percentages, scores and grades are each
\* rounded, for all marks, weights and maxima.
THEOREM RaisedGrade == Spec => RaisedMarksNeverLower
<1>1. IInv /\ IInv' /\ [Next]_vars =>
        [\A s \in Students, class \in Classes :
           categories' = categories /\ items' = items /\ entries'[s] # entries[s] /\ Raised(s) =>
             FinalGrade(s, class)' >= FinalGrade(s, class)]_vars
  <2> SUFFICES ASSUME IInv, IInv', NEW s \in Students, NEW class \in Classes,
                      categories' = categories, items' = items, Raised(s)
               PROVE  FinalGrade(s, class)' >= FinalGrade(s, class)
    OBVIOUS
  <2> DEFINE v == OwnEntries(s)
             w == [i \in DOMAIN items |-> entries'[s][i]]
  <2>1. w = OwnEntries(s)'
    BY DEF OwnEntries
  <2>2. v \in View
    BY OwnEntriesAreView
  <2>3. w \in View
    <3>1. DOMAIN items \subseteq 1..MaxItems
      BY GradebookAssumption DEF IInv, TypeOK
    <3> QED
      BY <3>1 DEF View, IInv, TypeOK
  <2>4. \A i \in DOMAIN items : (v[i] = Null) <=> (w[i] = Null)
    BY DEF Raised, OwnEntries
  <2>5. \A i \in DOMAIN items : v[i] # Null => w[i] >= v[i]
    BY DEF Raised, OwnEntries
  <2>6. FinalGrade(s, class)' = Mean(w, {class})
    BY <2>1, SameStructure
  <2>7. FinalGrade(s, class) = Mean(v, {class})
    BY DEF FinalGrade
  <2> HIDE DEF v, w
  <2>8. Mean(v, {class}) <= Mean(w, {class}) /\ Mean(v, {class}) \in Int /\ Mean(w, {class}) \in Int
    BY <2>2, <2>3, <2>4, <2>5, MeanRises, MeanIsRound
  <2> QED
    BY <2>6, <2>7, <2>8
<1> QED
  BY <1>1, Invariance, PTL DEF Spec, RaisedMarksNeverLower

-----------------------------------------------------------------------------
\* Sums of weights and scores over sets of classes.
\* With any two factors; the claims below take 2 h + 1 and -20, or the opposite.
Balanced(view, a, b) == [c \in DOMAIN categories |-> a * WeightOf[c] + b * ScoreOf(view)[c]]

LEMMA BalancedSum ==
  ASSUME IInv, NEW view \in View, NEW a \in Int, NEW b \in Int, NEW C
  PROVE  /\ \A c \in CategoriesOf(C) :
              /\ Balanced(view, a, b)[c] = a * WeightOf[c] + b * ScoreOf(view)[c]
              /\ Balanced(view, a, b)[c] \in Int
         /\ SumFunctionOnSet(Balanced(view, a, b), CategoriesOf(C))
              = a * TotalWeight(C) + b * TotalScore(view, C)
         /\ a * TotalWeight(C) + b * TotalScore(view, C) \in Int
<1> DEFINE e == Balanced(view, a, b)
           S == CategoriesOf(C)
<1>1. \A x, y \in Int : a * x + b * y \in Int
  OBVIOUS
<1>2. IsFiniteSet(S) /\ \A c \in S : WeightOf[c] \in Int /\ ScoreOf(view)[c] \in Int
  BY CategoriesFinite, MeanIsRound
<1>3. \A c \in S : e[c] = a * WeightOf[c] + b * ScoreOf(view)[c]
  BY CategoriesFinite DEF Balanced
<1> HIDE DEF e, S
<1>4. \A c \in S : e[c] \in Int
  BY <1>1, <1>2, <1>3
<1>5. SumFunctionOnSet(e, S) =
        a * SumFunctionOnSet(WeightOf, S) + b * SumFunctionOnSet(ScoreOf(view), S)
  BY <1>2, <1>3, SumOfCombination
<1>6. SumFunctionOnSet(e, S) = a * TotalWeight(C) + b * TotalScore(view, C)
  BY <1>5, MeanIsRound DEF S
<1>7. a * TotalWeight(C) + b * TotalScore(view, C) \in Int
  BY <1>1, MeanIsRound
<1> QED
  BY <1>3, <1>4, <1>6, <1>7 DEF e, S

\* A category without a weight scores nothing.
LEMMA NoWeightNoScore ==
  ASSUME IInv, NEW view \in View, NEW c \in DOMAIN categories, categories[c].weight = 0
  PROVE  ScoreOf(view)[c] = 0
<1> DEFINE p == Percent(view, c)
<1>1. p \in Int
  BY PercentIsRound
<1>2. Weighted(view, c) = Round(p * 0, 10)
  BY DEF Weighted
<1> HIDE DEF p
<1>3. p * 0 = 0
  BY <1>1
<1>4. Round(0, 10) = 0
  BY DEF Round
<1> QED
  BY <1>2, <1>3, <1>4 DEF ScoreOf

LEMMA NoWeightBalanced ==
  ASSUME IInv, NEW view \in View, NEW C, TotalWeight(C) = 0, NEW a \in Int, NEW b \in Int
  PROVE  a * TotalWeight(C) + b * TotalScore(view, C) >= 0
<1>1. ASSUME NEW c \in CategoriesOf(C) PROVE ScoreOf(view)[c] = 0
  <2>1. \A k \in CategoriesOf(C) : WeightOf[k] \in Int /\ WeightOf[k] >= 0
    BY CategoriesFinite
  <2>2. SumFunctionOnSet(WeightOf, CategoriesOf(C)) >= WeightOf[c]
    BY <2>1, CategoriesFinite, SumNotLess
  <2>3. WeightOf[c] = 0
    BY <2>1, <2>2, MeanIsRound
  <2> QED
    BY <2>3, CategoriesFinite, NoWeightNoScore
<1> DEFINE S == CategoriesOf(C)
           f == ScoreOf(view)
<1>2. /\ IsFiniteSet(S) /\ \A c \in S : f[c] = 0 /\ f[c] \in Int
  BY <1>1, CategoriesFinite
<1>3. TotalScore(view, C) = SumFunctionOnSet(f, S)
  BY MeanIsRound
<1> HIDE DEF S, f
<1> DEFINE g == [c \in S |-> 0]
<1>4. \A c \in S : g[c] = 0
  OBVIOUS
<1>5. \A c \in S : g[c] \in Int /\ f[c] = 0 * g[c] + 0 * g[c]
  BY <1>2, <1>4
<1> HIDE DEF g
<1>6. SumFunctionOnSet(f, S) = 0 * SumFunctionOnSet(g, S) + 0 * SumFunctionOnSet(g, S)
  BY <1>2, <1>5, SumOfCombination
<1>7. SumFunctionOnSet(g, S) \in Int
  BY <1>2, <1>5, SumIsInt
<1>8. TotalScore(view, C) = 0
  BY <1>3, <1>6, <1>7
<1> QED
  BY <1>8

\* What no class falls short of, all classes together do not.
LEMMA ClassesTogether ==
  ASSUME IInv, NEW view \in View, NEW a \in Int, NEW b \in Int,
         \A k \in Classes : a * TotalWeight({k}) + b * TotalScore(view, {k}) >= 0,
         NEW k \in Classes
  PROVE  a * TotalWeight(Classes) + b * TotalScore(view, Classes)
           >= a * TotalWeight({k}) + b * TotalScore(view, {k})
<1> DEFINE f == Balanced(view, a, b)
           Short(D) == ~ (SumFunctionOnSet(f, CategoriesOf(D)) >= 0)
           B == {D \in SUBSET Classes : Short(D)}
<1>1. \A D \in SUBSET Classes : \A l \in D :
        SumFunctionOnSet(f, CategoriesOf(D))
          = SumFunctionOnSet(f, CategoriesOf({l})) + SumFunctionOnSet(f, CategoriesOf(D \ {l}))
  <2> TAKE D \in SUBSET Classes
  <2> TAKE l \in D
  <2> DEFINE S == CategoriesOf({l})
             T == CategoriesOf(D \ {l})
  <2>1. CategoriesOf(D) = S \cup T /\ S \cap T = {}
    BY DEF CategoriesOf
  <2>2. /\ IsFiniteSet(S) /\ IsFiniteSet(T)
        /\ \A c \in S \cup T : f[c] \in Int
    BY CategoriesFinite, BalancedSum
  <2> HIDE DEF S, T, f
  <2>3. SumFunctionOnSet(f, S \cup T) = SumFunctionOnSet(f, S) + SumFunctionOnSet(f, T)
    BY <2>1, <2>2, SumOfParts
  <2> QED
    BY <2>1, <2>3 DEF S, T
<1>2. \A D : /\ SumFunctionOnSet(f, CategoriesOf(D)) \in Int
             /\ SumFunctionOnSet(f, CategoriesOf(D))
                  = a * TotalWeight(D) + b * TotalScore(view, D)
  BY BalancedSum
<1>3. \A l \in Classes : SumFunctionOnSet(f, CategoriesOf({l})) >= 0
  BY <1>2
<1> HIDE DEF f
<1>4. SumFunctionOnSet(f, CategoriesOf({})) = 0
  <2>1. CategoriesOf({}) = {}
    BY DEF CategoriesOf
  <2> QED
    BY <2>1, SumOfNothing
<1>5. B = {}
  <2> SUFFICES ASSUME B # {} PROVE FALSE
    OBVIOUS
  <2>1. PICK D \in B : \A U \in B : U \subseteq D => U = D
    <3>1. B \in SUBSET SUBSET Classes
      OBVIOUS
    <3>2. IsFiniteSet(Classes)
      BY GradebookAssumption
    <3> HIDE DEF B
    <3> QED
      BY <3>1, <3>2, SmallestSet
  <2>2. D \in SUBSET Classes /\ Short(D)
    BY <2>1
  <2>3. D # {}
    BY <1>4, <2>2
  <2>4. PICK l \in D : TRUE
    BY <2>3
  <2>5. ~ Short(D \ {l})
    BY <2>1, <2>2, <2>4
  <2>6. /\ SumFunctionOnSet(f, CategoriesOf(D))
             = SumFunctionOnSet(f, CategoriesOf({l})) + SumFunctionOnSet(f, CategoriesOf(D \ {l}))
        /\ SumFunctionOnSet(f, CategoriesOf({l})) >= 0
    BY <1>1, <1>3, <2>2, <2>4
  <2> QED
    BY <1>2, <2>2, <2>5, <2>6
<1>6. SumFunctionOnSet(f, CategoriesOf(Classes \ {k})) >= 0
  <2>1. Classes \ {k} \in SUBSET Classes /\ Classes \ {k} \notin B
    BY <1>5
  <2> QED
    BY <2>1
<1>7. SumFunctionOnSet(f, CategoriesOf(Classes))
        = SumFunctionOnSet(f, CategoriesOf({k})) + SumFunctionOnSet(f, CategoriesOf(Classes \ {k}))
  <2>1. Classes \in SUBSET Classes
    OBVIOUS
  <2> QED
    BY <1>1, <2>1
<1>8. SumFunctionOnSet(f, CategoriesOf(Classes)) >= SumFunctionOnSet(f, CategoriesOf({k}))
  BY <1>2, <1>6, <1>7
<1> QED
  BY <1>2, <1>8

LEMMA MeanAtMost ==
  ASSUME IInv, NEW view \in View, NEW C, TotalWeight(C) > 0, NEW h \in Int
  PROVE  LET d == (2 * h + 1) * TotalWeight(C) + (-20) * TotalScore(view, C)
         IN  Mean(view, C) <= h <=> d > 0 \/ (d = 0 /\ h % 2 = 0)
<1> DEFINE w == TotalWeight(C)
           x == TotalScore(view, C)
<1>1. w \in Nat \ {0} /\ x \in Int /\ 10 * x \in Int /\ Mean(view, C) = Round(10 * x, w)
  BY MeanIsRound
<1> HIDE DEF w, x
<1>2. Round(10 * x, w) <= h <=>
        2 * (10 * x) < (2 * h + 1) * w \/ (2 * (10 * x) = (2 * h + 1) * w /\ h % 2 = 0)
  BY <1>1, RoundAtMost
<1> DEFINE p == (2 * h + 1) * w
<1>3. p \in Int
  BY <1>1
<1>4. Round(10 * x, w) <= h <=> 2 * (10 * x) < p \/ (2 * (10 * x) = p /\ h % 2 = 0)
  BY <1>2
<1> HIDE DEF p
<1>5. Round(10 * x, w) <= h <=> p + (-20) * x > 0 \/ (p + (-20) * x = 0 /\ h % 2 = 0)
  BY <1>1, <1>3, <1>4
<1> QED
  BY <1>1, <1>5 DEF p, w, x

LEMMA MeanAtLeast ==
  ASSUME IInv, NEW view \in View, NEW C, TotalWeight(C) > 0, NEW l \in Int
  PROVE  LET d == (1 - 2 * l) * TotalWeight(C) + 20 * TotalScore(view, C)
         IN  Mean(view, C) >= l <=> d > 0 \/ (d = 0 /\ l % 2 = 0)
<1> DEFINE w == TotalWeight(C)
           x == TotalScore(view, C)
<1>1. w \in Nat \ {0} /\ x \in Int /\ 10 * x \in Int /\ Mean(view, C) = Round(10 * x, w)
  BY MeanIsRound
<1> HIDE DEF w, x
<1>2. Round(10 * x, w) >= l <=>
        2 * (10 * x) > (2 * l - 1) * w \/ (2 * (10 * x) = (2 * l - 1) * w /\ l % 2 = 0)
  BY <1>1, RoundAtLeast
<1> DEFINE p == (1 - 2 * l) * w
<1>3. p \in Int /\ (2 * l - 1) * w = 0 - p
  BY <1>1
<1> HIDE DEF p
<1>4. Round(10 * x, w) >= l <=> 2 * (10 * x) > 0 - p \/ (2 * (10 * x) = 0 - p /\ l % 2 = 0)
  BY <1>2, <1>3
<1>5. Round(10 * x, w) >= l <=> p + 20 * x > 0 \/ (p + 20 * x = 0 /\ l % 2 = 0)
  BY <1>1, <1>3, <1>4
<1> QED
  BY <1>1, <1>5 DEF p, w, x

LEMMA SomeClassWeighs ==
  ASSUME IInv, NEW view \in View, TotalWeight(Classes) > 0
  PROVE  \E k \in Classes : TotalWeight({k}) > 0
<1> SUFFICES ASSUME \A k \in Classes : ~ (TotalWeight({k}) > 0) PROVE FALSE
  OBVIOUS
<1>1. \A k \in Classes : TotalWeight({k}) = 0
  BY MeanIsRound
<1>2. \A C : TotalWeight(C) \in Int /\ TotalScore(view, C) \in Int
  BY MeanIsRound
<1>3. \A C : (-1) * TotalWeight(C) + 0 * TotalScore(view, C) = 0 - TotalWeight(C)
  BY <1>2
<1>4. \A k \in Classes : (-1) * TotalWeight({k}) + 0 * TotalScore(view, {k}) >= 0
  <2> TAKE k \in Classes
  <2>1. (-1) * TotalWeight({k}) + 0 * TotalScore(view, {k}) = 0 - TotalWeight({k})
    BY <1>3
  <2>2. 0 - TotalWeight({k}) = 0
    BY <1>1
  <2> QED
    BY <2>1, <2>2
<1>5. PICK k \in Classes : TRUE
  <2> SUFFICES ASSUME Classes = {} PROVE FALSE
    OBVIOUS
  <2>1. CategoriesOf(Classes) = {}
    BY DEF CategoriesOf
  <2>2. TotalWeight(Classes) = 0
    BY <2>1, SumOfNothing, MeanIsRound
  <2> QED
    BY <2>2
<1>6. (-1) * TotalWeight(Classes) + 0 * TotalScore(view, Classes)
        >= (-1) * TotalWeight({k}) + 0 * TotalScore(view, {k})
  <2>1. -1 \in Int /\ 0 \in Int
    OBVIOUS
  <2> QED
    BY <1>4, <2>1, ClassesTogether
<1> QED
  BY <1>1, <1>2, <1>3, <1>6

\* The mean over all classes is no more than what none of their means exceeds.
LEMMA MeansBelow ==
  ASSUME IInv, NEW view \in View, TotalWeight(Classes) > 0, NEW h \in Int,
         \A k \in Classes : TotalWeight({k}) > 0 => Mean(view, {k}) <= h
  PROVE  Mean(view, Classes) <= h
<1> DEFINE d(C) == (2 * h + 1) * TotalWeight(C) + (-20) * TotalScore(view, C)
<1>1. 2 * h + 1 \in Int /\ -20 \in Int
  OBVIOUS
<1>2. \A C : d(C) \in Int
  BY <1>1, BalancedSum
<1>3. ASSUME NEW k \in Classes, TotalWeight({k}) > 0
      PROVE  d({k}) > 0 \/ (d({k}) = 0 /\ h % 2 = 0)
  BY <1>3, MeanAtMost
<1>4. ASSUME NEW k \in Classes PROVE d({k}) >= 0
  <2>1. CASE TotalWeight({k}) = 0
    BY <1>1, <2>1, NoWeightBalanced
  <2>2. CASE TotalWeight({k}) > 0
    <3>1. d({k}) > 0 \/ d({k}) = 0
      BY <1>3, <2>2
    <3> HIDE DEF d
    <3> QED
      BY <1>2, <3>1
  <2> QED
    BY <2>1, <2>2, MeanIsRound
<1>5. PICK k \in Classes : TotalWeight({k}) > 0
  BY SomeClassWeighs
<1>6. d(Classes) >= d({k})
  BY <1>1, <1>4, ClassesTogether
<1>7. d({k}) > 0 \/ (d({k}) = 0 /\ h % 2 = 0)
  BY <1>3, <1>5
<1>8. Mean(view, Classes) <= h <=> d(Classes) > 0 \/ (d(Classes) = 0 /\ h % 2 = 0)
  BY MeanAtMost
<1> HIDE DEF d
<1> QED
  BY <1>2, <1>6, <1>7, <1>8

LEMMA MeansAbove ==
  ASSUME IInv, NEW view \in View, TotalWeight(Classes) > 0, NEW l \in Int,
         \A k \in Classes : TotalWeight({k}) > 0 => Mean(view, {k}) >= l
  PROVE  Mean(view, Classes) >= l
<1> DEFINE d(C) == (1 - 2 * l) * TotalWeight(C) + 20 * TotalScore(view, C)
<1>1. 1 - 2 * l \in Int /\ 20 \in Int
  OBVIOUS
<1>2. \A C : d(C) \in Int
  BY <1>1, BalancedSum
<1>3. ASSUME NEW k \in Classes, TotalWeight({k}) > 0
      PROVE  d({k}) > 0 \/ (d({k}) = 0 /\ l % 2 = 0)
  BY <1>3, MeanAtLeast
<1>4. ASSUME NEW k \in Classes PROVE d({k}) >= 0
  <2>1. CASE TotalWeight({k}) = 0
    BY <1>1, <2>1, NoWeightBalanced
  <2>2. CASE TotalWeight({k}) > 0
    <3>1. d({k}) > 0 \/ d({k}) = 0
      BY <1>3, <2>2
    <3> HIDE DEF d
    <3> QED
      BY <1>2, <3>1
  <2> QED
    BY <2>1, <2>2, MeanIsRound
<1>5. PICK k \in Classes : TotalWeight({k}) > 0
  BY SomeClassWeighs
<1>6. d(Classes) >= d({k})
  BY <1>1, <1>4, ClassesTogether
<1>7. d({k}) > 0 \/ (d({k}) = 0 /\ l % 2 = 0)
  BY <1>3, <1>5
<1>8. Mean(view, Classes) >= l <=> d(Classes) > 0 \/ (d(Classes) = 0 /\ l % 2 = 0)
  BY MeanAtLeast
<1> HIDE DEF d
<1> QED
  BY <1>2, <1>6, <1>7, <1>8

\* The average over all classes is between two class grades, for any number of
\* classes, categories and any weights: the ties that round to even included.
THEOREM GpaBetween == Spec => []GpaBetweenClassGrades
<1>1. IInv => GpaBetweenClassGrades
  <2> SUFFICES ASSUME IInv, NEW s \in Students, TotalWeight(Classes) > 0
               PROVE  \E low, high \in {class \in Classes : TotalWeight({class}) > 0} :
                        FinalGrade(s, low) <= Gpa(s) /\ Gpa(s) <= FinalGrade(s, high)
    BY DEF GpaBetweenClassGrades
  <2> DEFINE v == OwnEntries(s)
             g == Mean(v, Classes)
             K == {class \in Classes : TotalWeight({class}) > 0}
  <2>1. v \in View
    BY OwnEntriesAreView
  <2>2. Gpa(s) = g /\ \A k : FinalGrade(s, k) = Mean(v, {k})
    BY DEF Gpa, FinalGrade
  <2> HIDE DEF v
  <2>3. g \in Int /\ \A k : Mean(v, {k}) \in Int
    BY <2>1, MeanIsRound
  <2>4. \E k \in K : g <= Mean(v, {k})
    <3> SUFFICES ASSUME \A k \in K : ~ (g <= Mean(v, {k})) PROVE FALSE
      OBVIOUS
    <3> DEFINE h == g - 1
    <3>1. h \in Int /\ ~ (g <= h)
      BY <2>3
    <3>2. \A k \in K : Mean(v, {k}) <= h
      <4>1. \A x, y \in Int : ~ (x <= y) => y <= x - 1
        OBVIOUS
      <4> HIDE DEF g
      <4> QED
        BY <2>3, <4>1
    <3>3. \A k \in Classes : TotalWeight({k}) > 0 => Mean(v, {k}) <= h
      BY <3>2
    <3> HIDE DEF h
    <3>4. g <= h
      BY <2>1, <3>1, <3>3, MeansBelow
    <3> QED
      BY <3>1, <3>4
  <2>5. \E k \in K : Mean(v, {k}) <= g
    <3> SUFFICES ASSUME \A k \in K : ~ (Mean(v, {k}) <= g) PROVE FALSE
      OBVIOUS
    <3> DEFINE l == g + 1
    <3>1. l \in Int /\ ~ (g >= l)
      BY <2>3
    <3>2. \A k \in K : Mean(v, {k}) >= l
      <4>1. \A x, y \in Int : ~ (x <= y) => x >= y + 1
        OBVIOUS
      <4> HIDE DEF g
      <4> QED
        BY <2>3, <4>1
    <3>3. \A k \in Classes : TotalWeight({k}) > 0 => Mean(v, {k}) >= l
      BY <3>2
    <3> HIDE DEF l
    <3>4. g >= l
      BY <2>1, <3>1, <3>3, MeansAbove
    <3> QED
      BY <3>1, <3>4
  <2> QED
    BY <2>2, <2>4, <2>5
<1> QED
  BY <1>1, Invariance, PTL

-----------------------------------------------------------------------------
\* The rounding of one score is less than half a tenth of its weight, if the
\* weight is a tenth at least.
LEMMA ScoreAtMost ==
  ASSUME NEW p \in Int, NEW w \in Nat, w >= 10, NEW h \in Int, p <= h
  PROVE  20 * Round(p * w, 10) < (2 * h + 1) * w
<1> DEFINE x == Round(p * w, 10)
<1>1. p * w \in Int /\ w * p \in Int /\ w * h \in Int /\ p * w = w * p /\ w * p <= w * h
  <2>1. w \in Nat \ {0}
    OBVIOUS
  <2> QED
    BY <2>1, AtLeastTimes
<1>2. x \in Int
  BY <1>1, Halves
<1>3. x <= x
  BY <1>2
<1>4. (2 * h + 1) * w = 2 * (w * h) + w
  OBVIOUS
<1>5. CASE w = 10
  <2>1. 2 * (p * 10) < (2 * p + 1) * 10 /\ p * 10 \in Int
    OBVIOUS
  <2>2. Round(p * 10, 10) <= p
    BY <2>1, RoundAtMost
  <2>3. x <= p
    BY <1>5, <2>2
  <2> HIDE DEF x
  <2> QED
    BY <1>2, <1>5, <2>3 DEF x
<1>6. CASE w > 10
  <2>1. x >= x
    BY <1>2
  <2>2. 2 * (p * w) >= (2 * x - 1) * 10
    <3> DEFINE n == p * w
    <3>1. n \in Int
      BY <1>1
    <3> HIDE DEF n
    <3> DEFINE y == Round(n, 10)
    <3>2. y \in Int
      BY <3>1, Halves
    <3> HIDE DEF y
    <3>3. Round(n, 10) >= y
      BY <3>2 DEF y
    <3>4. 2 * n > (2 * y - 1) * 10 \/ (2 * n = (2 * y - 1) * 10 /\ y % 2 = 0)
      BY <3>1, <3>2, <3>3, RoundAtLeast
    <3>5. 2 * n >= (2 * y - 1) * 10
      BY <3>1, <3>2, <3>4
    <3> QED
      BY <3>5 DEF n, y
  <2> DEFINE n == p * w
             m == w * h
  <2>3. n \in Int /\ m \in Int /\ n <= m /\ 2 * n >= (2 * x - 1) * 10
    BY <1>1, <2>2
  <2> HIDE DEF n, m, x
  <2>4. 20 * x < 2 * m + w
    BY <1>2, <1>6, <2>3
  <2>5. 20 * x < (2 * h + 1) * w
    BY <1>4, <2>4 DEF m
  <2> QED
    BY <2>5 DEF x
<1> QED
  BY <1>5, <1>6

LEMMA ScoreAtLeast ==
  ASSUME NEW p \in Int, NEW w \in Nat, w >= 10, NEW l \in Int, p >= l
  PROVE  20 * Round(p * w, 10) > (2 * l - 1) * w
<1> DEFINE x == Round(p * w, 10)
<1>1. p * w \in Int /\ w * p \in Int /\ w * l \in Int /\ p * w = w * p /\ w * p >= w * l
  <2>1. w \in Nat \ {0}
    OBVIOUS
  <2>2. w * l <= w * p
    BY <2>1, AtLeastTimes
  <2> QED
    BY <2>2
<1>2. x \in Int
  BY <1>1, Halves
<1>3. (2 * l - 1) * w = 2 * (w * l) - w
  OBVIOUS
<1>4. CASE w = 10
  <2>1. 2 * (p * 10) > (2 * p - 1) * 10 /\ p * 10 \in Int
    OBVIOUS
  <2>2. Round(p * 10, 10) >= p
    BY <2>1, RoundAtLeast
  <2>3. x >= p
    BY <1>4, <2>2
  <2> HIDE DEF x
  <2> QED
    BY <1>2, <1>4, <2>3 DEF x
<1>5. CASE w > 10
  <2>1. 2 * (p * w) <= (2 * x + 1) * 10
    <3> DEFINE n == p * w
    <3>1. n \in Int
      BY <1>1
    <3> HIDE DEF n
    <3> DEFINE y == Round(n, 10)
    <3>2. y \in Int
      BY <3>1, Halves
    <3> HIDE DEF y
    <3>3. Round(n, 10) <= y
      BY <3>2 DEF y
    <3>4. 2 * n < (2 * y + 1) * 10 \/ (2 * n = (2 * y + 1) * 10 /\ y % 2 = 0)
      BY <3>1, <3>2, <3>3, RoundAtMost
    <3>5. 2 * n <= (2 * y + 1) * 10
      BY <3>1, <3>2, <3>4
    <3> QED
      BY <3>5 DEF n, y
  <2> DEFINE n == p * w
             m == w * l
  <2>2. n \in Int /\ m \in Int /\ n >= m /\ 2 * n <= (2 * x + 1) * 10
    BY <1>1, <2>1
  <2> HIDE DEF n, m, x
  <2>3. 20 * x > 2 * m - w
    BY <1>2, <1>5, <2>2
  <2>4. 20 * x > (2 * l - 1) * w
    BY <1>3, <2>3 DEF m
  <2> QED
    BY <2>4 DEF x
<1> QED
  BY <1>4, <1>5

\* What no category falls short of and one exceeds, their sum exceeds.
LEMMA CategoriesTogether ==
  ASSUME IInv, NEW view \in View, NEW C, NEW a \in Int, NEW b \in Int,
         \A c \in Weighing(C) : a * WeightOf[c] + b * ScoreOf(view)[c] > 0,
         Weighing(C) # {}
  PROVE  a * TotalWeight(C) + b * TotalScore(view, C) > 0 /\ TotalWeight(C) > 0
<1> DEFINE f == Balanced(view, a, b)
           S == CategoriesOf(C)
<1>1. PICK k \in Weighing(C) : TRUE
  OBVIOUS
<1>2. k \in S /\ WeightOf[k] > 0
  BY CategoriesFinite DEF Weighing
<1>3. \A c \in S : f[c] = a * WeightOf[c] + b * ScoreOf(view)[c] /\ f[c] \in Int
  BY BalancedSum
<1>4. ASSUME NEW c \in S PROVE f[c] \in Int /\ f[c] >= 0
  <2>1. CASE c \in Weighing(C)
    <3>1. f[c] > 0 /\ f[c] \in Int
      BY <1>3, <2>1
    <3> HIDE DEF f
    <3> QED
      BY <3>1
  <2>2. CASE c \notin Weighing(C)
    <3>1. WeightOf[c] = 0 /\ c \in DOMAIN categories /\ categories[c].weight = 0
      BY <2>2, CategoriesFinite DEF Weighing
    <3>2. ScoreOf(view)[c] = 0
      BY <3>1, NoWeightNoScore
    <3>3. f[c] = a * 0 + b * 0
      BY <1>3, <3>1, <3>2
    <3>4. a * 0 + b * 0 = 0
      OBVIOUS
    <3> QED
      BY <1>3, <3>3, <3>4
  <2> QED
    BY <2>1, <2>2
<1>5. f[k] > 0 /\ f[k] \in Int
  BY <1>2, <1>3
<1>6. SumFunctionOnSet(f, S) >= f[k]
  BY <1>2, <1>4, CategoriesFinite, SumNotLess
<1>7. SumFunctionOnSet(f, S) = a * TotalWeight(C) + b * TotalScore(view, C)
  BY BalancedSum
<1>8. SumFunctionOnSet(f, S) \in Int
  BY <1>3, CategoriesFinite, SumIsInt
<1> HIDE DEF f, S
<1>9. SumFunctionOnSet(f, S) > 0
  BY <1>5, <1>6, <1>8
<1>10. TotalWeight(C) > 0
  <2>1. \A c \in S : WeightOf[c] \in Int /\ WeightOf[c] >= 0
    BY CategoriesFinite DEF S
  <2>2. SumFunctionOnSet(WeightOf, S) >= WeightOf[k]
    BY <1>2, <2>1, CategoriesFinite, SumNotLess DEF S
  <2>3. TotalWeight(C) = SumFunctionOnSet(WeightOf, S) /\ TotalWeight(C) \in Nat
    BY MeanIsRound DEF S
  <2> QED
    BY <1>2, <2>1, <2>2, <2>3
<1> QED
  BY <1>7, <1>9, <1>10

\* A grade is between the percentages of the categories that weigh something, for
\* any number of categories whose weights are a tenth at least: each score is
\* rounded to a hundredth, and a smaller weight may be lost in that.
THEOREM GradeWithin ==
  ASSUME \A w \in Weights : w = 0 \/ w >= 10
  PROVE  Spec => []GradeWithinCategories
<1>1. IInv => GradeWithinCategories
  <2> SUFFICES ASSUME IInv, NEW s \in Students, NEW class \in Classes, Weighing({class}) # {}
               PROVE  \E low, high \in Weighing({class}) :
                        /\ Percent(OwnEntries(s), low) <= FinalGrade(s, class)
                        /\ FinalGrade(s, class) <= Percent(OwnEntries(s), high)
    BY DEF GradeWithinCategories
  <2> DEFINE v == OwnEntries(s)
             C == {class}
             K == Weighing(C)
             g == Mean(v, C)
  <2>1. v \in View /\ FinalGrade(s, class) = g
    BY OwnEntriesAreView DEF FinalGrade
  <2> HIDE DEF v
  <2>2. g \in Int /\ \A c : Percent(v, c) \in Int
    BY <2>1, MeanIsRound, PercentIsRound
  <2>3. ASSUME NEW c \in K
        PROVE  /\ WeightOf[c] \in Nat /\ WeightOf[c] >= 10
               /\ ScoreOf(v)[c] = Round(Percent(v, c) * WeightOf[c], 10)
               /\ ScoreOf(v)[c] \in Int
    <3>1. c \in DOMAIN categories /\ categories[c].weight > 0 /\ WeightOf[c] = categories[c].weight
      BY DEF Weighing, CategoriesOf, WeightOf
    <3>2. WeightOf[c] \in Nat /\ WeightOf[c] >= 10
      BY <3>1, CategoryTyped
    <3>3. ScoreOf(v)[c] = Weighted(v, c)
      BY <3>1 DEF ScoreOf
    <3> QED
      BY <2>1, <3>1, <3>2, <3>3, WeightedIsRound
  <2> HIDE DEF C, K, g
  <2>4. \E c \in K : g <= Percent(v, c)
    <3> SUFFICES ASSUME \A c \in K : ~ (g <= Percent(v, c)) PROVE FALSE
      OBVIOUS
    <3> DEFINE h == g - 1
    <3>1. h \in Int /\ ~ (g <= h) /\ 2 * h + 1 \in Int /\ -20 \in Int
      BY <2>2
    <3>2. \A c \in K : Percent(v, c) <= h
      BY <2>2
    <3> HIDE DEF h
    <3>3. ASSUME NEW c \in K PROVE (2 * h + 1) * WeightOf[c] + (-20) * ScoreOf(v)[c] > 0
      <4> DEFINE x == ScoreOf(v)[c]
                 m == (2 * h + 1) * WeightOf[c]
      <4>1. 20 * x < m
        BY <2>2, <2>3, <3>1, <3>2, ScoreAtMost
      <4>2. x \in Int /\ m \in Int
        BY <2>3, <3>1
      <4> HIDE DEF x, m
      <4>3. m + (-20) * x > 0
        BY <4>1, <4>2
      <4> QED
        BY <4>3 DEF x, m
    <3>4. (2 * h + 1) * TotalWeight(C) + (-20) * TotalScore(v, C) > 0 /\ TotalWeight(C) > 0
      BY <2>1, <3>1, <3>3, CategoriesTogether DEF K, C
    <3>5. g <= h
      BY <2>1, <3>1, <3>4, MeanAtMost DEF g
    <3> QED
      BY <3>1, <3>5
  <2>5. \E c \in K : Percent(v, c) <= g
    <3> SUFFICES ASSUME \A c \in K : ~ (Percent(v, c) <= g) PROVE FALSE
      OBVIOUS
    <3> DEFINE l == g + 1
    <3>1. l \in Int /\ ~ (g >= l) /\ 1 - 2 * l \in Int /\ 20 \in Int
      BY <2>2
    <3>2. \A c \in K : Percent(v, c) >= l
      BY <2>2
    <3> HIDE DEF l
    <3>3. ASSUME NEW c \in K PROVE (1 - 2 * l) * WeightOf[c] + 20 * ScoreOf(v)[c] > 0
      <4> DEFINE x == ScoreOf(v)[c]
                 m == (2 * l - 1) * WeightOf[c]
      <4>1. 20 * x > m
        BY <2>2, <2>3, <3>1, <3>2, ScoreAtLeast
      <4>2. x \in Int /\ m \in Int /\ (1 - 2 * l) * WeightOf[c] = 0 - m
        BY <2>3, <3>1
      <4> HIDE DEF x, m
      <4>3. (0 - m) + 20 * x > 0
        BY <4>1, <4>2
      <4> QED
        BY <4>2, <4>3 DEF x
    <3>4. (1 - 2 * l) * TotalWeight(C) + 20 * TotalScore(v, C) > 0 /\ TotalWeight(C) > 0
      BY <2>1, <3>1, <3>3, CategoriesTogether DEF K, C
    <3>5. g >= l
      BY <2>1, <3>1, <3>4, MeanAtLeast DEF g
    <3> QED
      BY <3>1, <3>5
  <2>6. \E low, high \in K : Percent(v, low) <= g /\ g <= Percent(v, high)
    BY <2>4, <2>5
  <2> QED
    BY <2>1, <2>6, Zenon DEF K, C, v
<1> QED
  BY <1>1, Invariance, PTL

-----------------------------------------------------------------------------
\* Small weights.  Every score is off by half a hundredth at most; what the
\* categories lose together counts for nothing where the total weight is more
\* than ten times their number.
LEMMA SumAtLeast ==
  ASSUME NEW S, IsFiniteSet(S), NEW f, NEW m \in Int, \A s \in S : f[s] \in Int /\ f[s] >= m
  PROVE  SumFunctionOnSet(f, S) >= m * Cardinality(S)
<1> DEFINE Wrong(s) == ~ (SumFunctionOnSet(f, s) >= m * Cardinality(s))
           B == {s \in SUBSET S : Wrong(s)}
<1> SUFFICES ASSUME B # {} PROVE FALSE
  BY S \in SUBSET S
<1> HIDE DEF Wrong
<1>1. PICK T \in B : \A U \in B : U \subseteq T => U = T
  <2> HIDE DEF B
  <2>1. B \in SUBSET SUBSET S
    BY DEF B
  <2> QED
    BY <2>1, SmallestSet
<1>2. T # {}
  <2>1. Cardinality({}) = 0
    BY FS_EmptySet
  <2>2. ~ Wrong({})
    BY <2>1, SumOfNothing DEF Wrong
  <2> QED
    BY <1>1, <2>2
<1>3. IsFiniteSet(T) /\ T \in SUBSET S
  BY <1>1, FS_Subset
<1>4. PICK z \in T : SumFunctionOnSet(f, T) = f[z] + SumFunctionOnSet(f, T \ {z})
  BY <1>2, <1>3, SumSomeFirst
<1>5. ~ Wrong(T \ {z})
  BY <1>1
<1>6. /\ IsFiniteSet(T \ {z}) /\ Cardinality(T \ {z}) = Cardinality(T) - 1
      /\ Cardinality(T) \in Nat
  BY <1>3, FS_RemoveElement, FS_CardinalityType
<1>7. SumFunctionOnSet(f, T \ {z}) \in Int
  BY <1>3, <1>6, SumIsInt
<1>8. f[z] \in Int /\ f[z] >= m
  BY <1>3
<1>9. m * (Cardinality(T) - 1) = m * Cardinality(T) - m /\ m * Cardinality(T) \in Int
  BY <1>6
<1>10. ~ Wrong(T)
  BY <1>4, <1>5, <1>6, <1>7, <1>8, <1>9 DEF Wrong
<1> QED
  BY <1>1, <1>10

\* A score is within half a hundredth of the share.
LEMMA ScoreNear ==
  ASSUME NEW n \in Int
  PROVE  /\ Round(n, 10) \in Int
         /\ 20 * Round(n, 10) <= 2 * n + 10
         /\ 20 * Round(n, 10) >= 2 * n - 10
<1> DEFINE y == Round(n, 10)
<1>1. y \in Int
  BY Halves
<1> HIDE DEF y
<1>2. Round(n, 10) >= y /\ Round(n, 10) <= y
  BY <1>1 DEF y
<1>3. 2 * n > (2 * y - 1) * 10 \/ (2 * n = (2 * y - 1) * 10 /\ y % 2 = 0)
  BY <1>1, <1>2, RoundAtLeast
<1>4. 2 * n < (2 * y + 1) * 10 \/ (2 * n = (2 * y + 1) * 10 /\ y % 2 = 0)
  BY <1>1, <1>2, RoundAtMost
<1>5. 20 * y <= 2 * n + 10 /\ 20 * y >= 2 * n - 10
  BY <1>1, <1>3, <1>4
<1> QED
  BY <1>1, <1>5 DEF y

\* What no category falls short of by more than 10, their sum does not by
\* more than 10 times their number.
LEMMA CategoriesNear ==
  ASSUME IInv, NEW view \in View, NEW C, NEW a \in Int, NEW b \in Int,
         \A c \in Weighing(C) : a * WeightOf[c] + b * ScoreOf(view)[c] >= -10
  PROVE  a * TotalWeight(C) + b * TotalScore(view, C) >= -10 * Cardinality(Weighing(C))
<1> DEFINE f == Balanced(view, a, b)
           S == CategoriesOf(C)
           K == Weighing(C)
           R == S \ K
<1>1. \A c \in S : f[c] = a * WeightOf[c] + b * ScoreOf(view)[c] /\ f[c] \in Int
  BY BalancedSum
<1>2. SumFunctionOnSet(f, S) = a * TotalWeight(C) + b * TotalScore(view, C)
  BY BalancedSum
<1>3. ASSUME NEW c \in R PROVE f[c] \in Int /\ f[c] >= 0
  <2>1. WeightOf[c] = 0 /\ c \in DOMAIN categories /\ categories[c].weight = 0
    BY CategoriesFinite DEF Weighing
  <2>2. ScoreOf(view)[c] = 0
    BY <2>1, NoWeightNoScore
  <2>3. f[c] = a * 0 + b * 0
    BY <1>1, <2>1, <2>2
  <2>4. a * 0 + b * 0 = 0
    OBVIOUS
  <2> QED
    BY <1>1, <2>3, <2>4
<1>4. /\ IsFiniteSet(S) /\ K \subseteq S /\ IsFiniteSet(K) /\ IsFiniteSet(R)
      /\ K \cap R = {} /\ K \cup R = S
  <2>1. K \subseteq S /\ IsFiniteSet(S)
    BY CategoriesFinite DEF Weighing
  <2> HIDE DEF S, K
  <2> QED
    BY <2>1, FS_Subset
<1>5. \A c \in K : f[c] \in Int /\ f[c] >= -10
  BY <1>1, <1>4
<1> HIDE DEF f, S, K, R
<1>6. SumFunctionOnSet(f, K) >= (-10) * Cardinality(K)
  BY <1>4, <1>5, -10 \in Int, SumAtLeast
<1>7. SumFunctionOnSet(f, R) >= 0
  BY <1>3, <1>4, SumNotNegative
<1>8. SumFunctionOnSet(f, S) = SumFunctionOnSet(f, K) + SumFunctionOnSet(f, R)
  BY <1>3, <1>4, <1>5, SumOfParts
<1>9. /\ SumFunctionOnSet(f, K) \in Int /\ SumFunctionOnSet(f, R) \in Int
      /\ Cardinality(K) \in Nat
  BY <1>3, <1>4, <1>5, SumIsInt, FS_CardinalityType
<1>10. SumFunctionOnSet(f, S) >= -10 * Cardinality(K)
  BY <1>6, <1>7, <1>8, <1>9
<1> QED
  BY <1>2, <1>10 DEF K

\* A grade is between the percentages of the categories that weigh something,
\* whatever the weights of the single categories, in every class whose total
\* weight is more than a tenth for each of them (weights that add up to 1, and
\* fewer than ten categories).
HeavyGradesWithin ==
  \A s \in Students, class \in Classes :
    10 * Cardinality(Weighing({class})) < TotalWeight({class}) =>
      \E low, high \in Weighing({class}) :
        /\ Percent(OwnEntries(s), low) <= FinalGrade(s, class)
        /\ FinalGrade(s, class) <= Percent(OwnEntries(s), high)

THEOREM HeavyGradeWithin == Spec => []HeavyGradesWithin
<1>1. IInv => HeavyGradesWithin
  <2> SUFFICES ASSUME IInv, NEW s \in Students, NEW class \in Classes,
                      10 * Cardinality(Weighing({class})) < TotalWeight({class})
               PROVE  \E low, high \in Weighing({class}) :
                        /\ Percent(OwnEntries(s), low) <= FinalGrade(s, class)
                        /\ FinalGrade(s, class) <= Percent(OwnEntries(s), high)
    BY DEF HeavyGradesWithin
  <2> DEFINE v == OwnEntries(s)
             C == {class}
             K == Weighing(C)
             g == Mean(v, C)
             W == TotalWeight(C)
             S == TotalScore(v, C)
             k == Cardinality(K)
  <2>1. v \in View /\ FinalGrade(s, class) = g
    BY OwnEntriesAreView DEF FinalGrade
  <2> HIDE DEF v
  <2>2. g \in Int /\ \A c : Percent(v, c) \in Int
    BY <2>1, MeanIsRound, PercentIsRound
  <2>3. ASSUME NEW c \in K
        PROVE  /\ WeightOf[c] \in Nat \ {0}
               /\ ScoreOf(v)[c] = Round(WeightOf[c] * Percent(v, c), 10)
               /\ WeightOf[c] * Percent(v, c) \in Int
    <3>1. c \in DOMAIN categories /\ categories[c].weight > 0 /\ WeightOf[c] = categories[c].weight
      BY DEF Weighing, CategoriesOf, WeightOf
    <3>2. WeightOf[c] \in Nat \ {0}
      BY <3>1, CategoryTyped
    <3>3. ScoreOf(v)[c] = Round(Percent(v, c) * WeightOf[c], 10)
      BY <2>1, <3>1, WeightedIsRound DEF ScoreOf
    <3>4. Percent(v, c) * WeightOf[c] = WeightOf[c] * Percent(v, c)
      BY <2>2, <3>2
    <3>5. WeightOf[c] * Percent(v, c) \in Int
      BY <2>2, <3>2
    <3> QED
      BY <3>2, <3>3, <3>4, <3>5
  <2>4. k \in Nat
    <3>1. IsFiniteSet(K)
      BY CategoriesFinite, FS_Subset DEF Weighing
    <3> QED
      BY <3>1, FS_CardinalityType
  <2>5. W \in Nat /\ S \in Int /\ 10 * k < W
    BY <2>1, MeanIsRound
  <2> HIDE DEF C, K, g, W, S, k
  <2>6. \E c \in K : g <= Percent(v, c)
    <3> SUFFICES ASSUME \A c \in K : ~ (g <= Percent(v, c)) PROVE FALSE
      OBVIOUS
    <3> DEFINE h == g - 1
    <3>1. h \in Int /\ ~ (g <= h) /\ 2 * h \in Int /\ -20 \in Int
      BY <2>2
    <3>2. \A c \in K : Percent(v, c) <= h
      BY <2>2
    <3> HIDE DEF h
    <3>3. ASSUME NEW c \in K PROVE (2 * h) * WeightOf[c] + (-20) * ScoreOf(v)[c] >= -10
      <4> DEFINE n == WeightOf[c] * Percent(v, c)
                 m == WeightOf[c] * h
                 x == ScoreOf(v)[c]
      <4>1. x \in Int /\ 20 * x <= 2 * n + 10 /\ n \in Int
        BY <2>3, ScoreNear
      <4>2. n <= m /\ m \in Int /\ (2 * h) * WeightOf[c] = 2 * m
        BY <2>2, <2>3, <3>1, <3>2, AtLeastTimes
      <4> HIDE DEF n, m, x
      <4>3. 2 * m + (-20) * x >= -10
        BY <4>1, <4>2
      <4> QED
        BY <4>2, <4>3 DEF x
    <3>4. (2 * h) * W + (-20) * S >= -10 * k
      BY <2>1, <3>1, <3>3, CategoriesNear DEF K, W, S, k
    <3>5. (2 * h + 1) * W + (-20) * S > 0 /\ W > 0
      <4> DEFINE p == (2 * h) * W
      <4>1. p \in Int /\ (2 * h + 1) * W = p + W
        BY <2>5, <3>1
      <4>2. p + (-20) * S >= -10 * k
        BY <3>4
      <4> HIDE DEF p
      <4> QED
        BY <2>4, <2>5, <4>1, <4>2
    <3>6. g <= h
      BY <2>1, <3>1, <3>5, MeanAtMost DEF g, W, S
    <3> QED
      BY <3>1, <3>6
  <2>7. \E c \in K : Percent(v, c) <= g
    <3> SUFFICES ASSUME \A c \in K : ~ (Percent(v, c) <= g) PROVE FALSE
      OBVIOUS
    <3> DEFINE l == g + 1
    <3>1. l \in Int /\ ~ (g >= l) /\ -2 * l \in Int /\ 20 \in Int
      BY <2>2
    <3>2. \A c \in K : l <= Percent(v, c)
      BY <2>2
    <3> HIDE DEF l
    <3>3. ASSUME NEW c \in K PROVE (-2 * l) * WeightOf[c] + 20 * ScoreOf(v)[c] >= -10
      <4> DEFINE n == WeightOf[c] * Percent(v, c)
                 m == WeightOf[c] * l
                 x == ScoreOf(v)[c]
      <4>1. x \in Int /\ 20 * x >= 2 * n - 10 /\ n \in Int
        BY <2>3, ScoreNear
      <4>2. m <= n /\ m \in Int /\ (-2 * l) * WeightOf[c] = -2 * m
        BY <2>2, <2>3, <3>1, <3>2, AtLeastTimes
      <4> HIDE DEF n, m, x
      <4>3. -2 * m + 20 * x >= -10
        BY <4>1, <4>2
      <4> QED
        BY <4>2, <4>3 DEF x
    <3>4. (-2 * l) * W + 20 * S >= -10 * k
      BY <2>1, <3>1, <3>3, CategoriesNear DEF K, W, S, k
    <3>5. (1 - 2 * l) * W + 20 * S > 0 /\ W > 0
      <4> DEFINE p == (-2 * l) * W
      <4>1. p \in Int /\ (1 - 2 * l) * W = p + W
        BY <2>5, <3>1
      <4>2. p + 20 * S >= -10 * k
        BY <3>4
      <4> HIDE DEF p
      <4> QED
        BY <2>4, <2>5, <4>1, <4>2
    <3>6. g >= l
      BY <2>1, <3>1, <3>5, MeanAtLeast DEF g, W, S
    <3> QED
      BY <3>1, <3>6
  <2>8. \E low, high \in K : Percent(v, low) <= g /\ g <= Percent(v, high)
    BY <2>6, <2>7
  <2> QED
    BY <2>1, <2>8, Zenon DEF K, C, v
<1> QED
  BY <1>1, Invariance, PTL
=============================================================================
