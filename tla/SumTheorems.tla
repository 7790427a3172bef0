------------------------------ MODULE SumTheorems ------------------------------
(***************************************************************************)
(* Facts about SumFunctionOnSet, the sum of a function over a finite set,  *)
(* for the theorems about amounts, counts and lengths.  The sum is defined *)
(* by recursion over the subsets, taking out an element that CHOOSE picks; *)
(* what is wanted of it is that any element may be taken out.              *)
(***************************************************************************)
EXTENDS Integers, Sequences, Functions, FiniteSetTheorems, TLAPS

\* Induction over finite sets: of the subsets that fail, one is minimal.
LEMMA MinimalSubset ==
  ASSUME NEW S, IsFiniteSet(S), NEW Bad, Bad \subseteq SUBSET S, Bad # {}
  PROVE  \E T \in Bad : \A U \in Bad : U \subseteq T => U = T
<1> DEFINE R == StrictSubsetOrdering(S)
<1>1. IsWellFoundedOn(R, FiniteSubsetsOf(S))
  BY FS_StrictSubsetOrderingWellFounded
<1>2. Bad \subseteq FiniteSubsetsOf(S)
  BY FS_FiniteSubsetsOfFinite
<1> HIDE DEF R
<1>3. PICK T \in Bad : \A U \in Bad : ~ (<<U, T>> \in R)
  BY <1>1, <1>2, WFMin
<1>4. \A U \in Bad : U \subseteq T => U = T
  BY <1>3 DEF R, StrictSubsetOrdering
<1>5. QED
  BY <1>4

\* The same as a step from a set without one of its elements to the set.
LEMMA SubsetInduction ==
  ASSUME NEW S, IsFiniteSet(S), NEW Good, {} \in Good,
         \A T \in SUBSET S : T # {} /\ (\A x \in T : T \ {x} \in Good) => T \in Good
  PROVE  S \in Good
<1> DEFINE Bad == {T \in SUBSET S : T \notin Good}
<1>1. Bad \subseteq SUBSET S /\ \A T \in SUBSET S : T \in Bad <=> T \notin Good
  OBVIOUS
<1> HIDE DEF Bad
<1>2. SUFFICES ASSUME Bad # {} PROVE FALSE
  BY <1>1
<1>3. PICK T \in Bad : \A U \in Bad : U \subseteq T => U = T
  BY <1>1, <1>2, MinimalSubset
<1>4. T \in SUBSET S /\ T \notin Good /\ T # {}
  BY <1>1, <1>3
<1>5. PICK x \in T : T \ {x} \notin Good
  BY <1>4
<1>6. T \ {x} \in Bad /\ T \ {x} \subseteq T /\ T \ {x} # T
  BY <1>1, <1>4, <1>5
<1>7. QED
  BY <1>3, <1>6

-----------------------------------------------------------------------------
(* The recursion is well defined                                           *)

Pick(s) == CHOOSE x \in s : TRUE

\* The equation of the recursion, for the subsets of S.
Sums(g, f, S) ==
  g = [s \in SUBSET S |-> IF s = {} THEN 0 ELSE f[Pick(s)] + g[s \ {Pick(s)}]]

SumsOf(f, S) == CHOOSE g : Sums(g, f, S)

\* The sum is the value of the solution at the whole set.
LEMMA SumIsSums ==
  ASSUME NEW f, NEW S
  PROVE  SumFunctionOnSet(f, S) = SumsOf(f, S)[S]
  BY DEF SumFunctionOnSet, FoldFunctionOnSet, MapThenFoldSet, SumsOf, Sums, Pick

\* The element that is picked is one of the set.
LEMMA PickOne == ASSUME NEW s, s # {} PROVE Pick(s) \in s
  BY DEF Pick

\* The equation at one subset.
LEMMA SumsEquation ==
  ASSUME NEW f, NEW S, NEW g, Sums(g, f, S), NEW s \in SUBSET S
  PROVE  g[s] = IF s = {} THEN 0 ELSE f[Pick(s)] + g[s \ {Pick(s)}]
  BY DEF Sums

\* Two solutions agree where both are defined.
LEMMA SumsAgree ==
  ASSUME NEW f, NEW S, NEW T, IsFiniteSet(S), NEW g, NEW h, Sums(g, f, S), Sums(h, f, T),
         NEW s \in SUBSET S, s \in SUBSET T
  PROVE  g[s] = h[s]
<1> DEFINE Bad == {u \in SUBSET S : u \subseteq T /\ g[u] # h[u]}
<1>1. Bad \subseteq SUBSET S /\ \A u \in Bad : u \subseteq S /\ u \subseteq T /\ g[u] # h[u]
  OBVIOUS
<1>2. \A u \in SUBSET S : u \subseteq T /\ u \notin Bad => g[u] = h[u]
  OBVIOUS
<1> HIDE DEF Bad
<1>3. SUFFICES ASSUME Bad # {} PROVE FALSE
  BY <1>2
<1>4. PICK u \in Bad : \A v \in Bad : v \subseteq u => v = u
  BY <1>1, <1>3, MinimalSubset
<1>5. u \in SUBSET S /\ u \in SUBSET T /\ g[u] # h[u]
  BY <1>1, <1>4
<1> DEFINE v == u \ {Pick(u)}
<1>6. /\ g[u] = IF u = {} THEN 0 ELSE f[Pick(u)] + g[v]
      /\ h[u] = IF u = {} THEN 0 ELSE f[Pick(u)] + h[v]
  BY <1>5, SumsEquation
<1>7. u # {}
  BY <1>5, <1>6
<1>8. v \in SUBSET S /\ v \subseteq T /\ v \subseteq u /\ v # u
  BY <1>5, <1>7, PickOne
<1> HIDE DEF v
<1>9. g[v] = h[v]
  BY <1>2, <1>4, <1>8
<1>10. QED
  BY <1>5, <1>6, <1>7, <1>9

\* There is a solution for every finite set.
LEMMA SumsExist ==
  ASSUME NEW f, NEW S, IsFiniteSet(S)
  PROVE  Sums(SumsOf(f, S), f, S)
<1> DEFINE Bad == {T \in SUBSET S : ~ Sums(SumsOf(f, T), f, T)}
<1>1. Bad \subseteq SUBSET S /\ \A T \in Bad : T \in SUBSET S /\ ~Sums(SumsOf(f, T), f, T)
  OBVIOUS
<1>2. \A T \in SUBSET S : T \notin Bad => Sums(SumsOf(f, T), f, T)
  OBVIOUS
<1> HIDE DEF Bad
<1>3. SUFFICES ASSUME Bad # {} PROVE FALSE
  BY <1>2
<1>4. PICK T \in Bad : \A U \in Bad : U \subseteq T => U = T
  BY <1>1, <1>3, MinimalSubset
<1>5. T \in SUBSET S /\ \A g : ~Sums(g, f, T)
  BY <1>1, <1>4 DEF SumsOf
<1>6. \A s \in SUBSET T : s # T => Sums(SumsOf(f, s), f, s) /\ IsFiniteSet(s)
  <2>1. SUFFICES ASSUME NEW s \in SUBSET T, s # T PROVE Sums(SumsOf(f, s), f, s) /\ IsFiniteSet(s)
    OBVIOUS
  <2>2. s \in SUBSET S /\ s \notin Bad
    BY <1>4, <1>5, <2>1
  <2>3. QED
    BY <1>2, <2>2, FS_Subset
<1> DEFINE Before(s) == s \ {Pick(s)}
           value(s) == IF s = T THEN f[Pick(T)] + SumsOf(f, Before(T))[Before(T)] ELSE SumsOf(f, s)[s]
           G == [s \in SUBSET T |-> IF s = {} THEN 0 ELSE value(s)]
<1>7. ASSUME NEW s \in SUBSET T, s # {} PROVE value(s) = f[Pick(s)] + G[Before(s)]
  <2>1. /\ Before(s) \in SUBSET T /\ Before(s) # T
        /\ Before(s) \in SUBSET s /\ Before(s) \in SUBSET Before(s)
    BY <1>7, PickOne
  <2>2. Sums(SumsOf(f, Before(s)), f, Before(s)) /\ IsFiniteSet(Before(s))
    BY <1>6, <2>1
  <2>3. G[Before(s)] = SumsOf(f, Before(s))[Before(s)]
    <3>1. Before(s) = {} => SumsOf(f, Before(s))[Before(s)] = 0
      BY ONLY <2>1, <2>2, SumsEquation
    <3>2. QED
      BY <2>1, <3>1
  <2>4. CASE s = T
    BY <2>3, <2>4
  <2>5. CASE s # T
    <3>1. Sums(SumsOf(f, s), f, s) /\ IsFiniteSet(s)
      BY <1>6, <2>5
    <3> HIDE DEF G
    <3>2. SumsOf(f, s)[s] = f[Pick(s)] + SumsOf(f, s)[Before(s)]
      BY <1>7, <3>1, SumsEquation
    <3> HIDE DEF Before
    <3>3. SumsOf(f, s)[Before(s)] = SumsOf(f, Before(s))[Before(s)]
      BY ONLY <2>1, <2>2, <3>1, SumsAgree
    <3>4. QED
      BY <2>3, <2>5, <3>2, <3>3
  <2>6. QED
    BY <2>4, <2>5
<1> HIDE DEF value
<1>8. \A s \in SUBSET T : G[s] = IF s = {} THEN 0 ELSE f[Pick(s)] + G[s \ {Pick(s)}]
  BY <1>7
<1>9. G = [s \in SUBSET T |-> G[s]]
  OBVIOUS
<1> HIDE DEF G
<1>10. Sums(G, f, T)
  BY <1>8, <1>9 DEF Sums
<1>11. QED
  BY <1>5, <1>10

-----------------------------------------------------------------------------
(* What the other modules use                                              *)

\* The empty sum.
LEMMA SumOfNone ==
  ASSUME NEW f
  PROVE  SumFunctionOnSet(f, {}) = 0
  BY SumIsSums, SumsExist, SumsEquation, FS_EmptySet

\* The sum with the element taken out that the definition picks.
LEMMA SumPicks ==
  ASSUME NEW f, NEW S, IsFiniteSet(S), S # {}
  PROVE  SumFunctionOnSet(f, S) = f[Pick(S)] + SumFunctionOnSet(f, S \ {Pick(S)})
<1> DEFINE T == S \ {Pick(S)}
<1>1. IsFiniteSet(T) /\ T \in SUBSET S
  BY FS_Subset
<1>2. Sums(SumsOf(f, S), f, S) /\ Sums(SumsOf(f, T), f, T)
  BY <1>1, SumsExist
<1>3. SumsOf(f, S)[S] = f[Pick(S)] + SumsOf(f, S)[T]
  BY <1>2, SumsEquation
<1>4. SumsOf(f, S)[T] = SumsOf(f, T)[T]
  BY <1>1, <1>2, SumsAgree
<1>5. QED
  BY <1>3, <1>4, SumIsSums

\* A sum of integers is one.
LEMMA SumIsInt ==
  ASSUME NEW f, NEW S, IsFiniteSet(S), \A x \in S : f[x] \in Int
  PROVE  SumFunctionOnSet(f, S) \in Int
<1> DEFINE Good == {T \in SUBSET S : SumFunctionOnSet(f, T) \in Int}
<1>1. {} \in Good
  BY SumOfNone
<1>2. ASSUME NEW T \in SUBSET S, T # {}, \A x \in T : T \ {x} \in Good
      PROVE  T \in Good
  <2>1. Pick(T) \in T /\ f[Pick(T)] \in Int /\ IsFiniteSet(T)
    BY <1>2, PickOne, FS_Subset
  <2>2. SumFunctionOnSet(f, T \ {Pick(T)}) \in Int
    BY <1>2, <2>1
  <2>3. SumFunctionOnSet(f, T) = f[Pick(T)] + SumFunctionOnSet(f, T \ {Pick(T)})
    BY <1>2, <2>1, SumPicks
  <2>4. QED
    BY <2>1, <2>2, <2>3
<1> HIDE DEF Good
<1>3. S \in Good
  BY <1>1, <1>2, SubsetInduction
<1>4. QED
  BY <1>3 DEF Good

\* Any element may be taken out first.
LEMMA SumTakesOut ==
  ASSUME NEW f, NEW S, IsFiniteSet(S), \A x \in S : f[x] \in Int
  PROVE  \A x \in S : SumFunctionOnSet(f, S) = f[x] + SumFunctionOnSet(f, S \ {x})
<1> DEFINE Good == {T \in SUBSET S : \A x \in T :
                      SumFunctionOnSet(f, T) = f[x] + SumFunctionOnSet(f, T \ {x})}
<1>1. {} \in Good
  OBVIOUS
<1>2. ASSUME NEW T \in SUBSET S, T # {}, \A x \in T : T \ {x} \in Good
      PROVE  T \in Good
  <2> DEFINE p == Pick(T)
  <2>1. p \in T /\ IsFiniteSet(T)
    BY <1>2, PickOne, FS_Subset
  <2>2. SumFunctionOnSet(f, T) = f[p] + SumFunctionOnSet(f, T \ {p})
    BY <1>2, <2>1, SumPicks
  <2> HIDE DEF p
  <2>3. ASSUME NEW x \in T, x # p
        PROVE  SumFunctionOnSet(f, T) = f[x] + SumFunctionOnSet(f, T \ {x})
    <3> DEFINE Rest == (T \ {p}) \ {x}
    <3>1. SumFunctionOnSet(f, T \ {p}) = f[x] + SumFunctionOnSet(f, Rest)
      BY <1>2, <2>1, <2>3
    <3>2. SumFunctionOnSet(f, T \ {x}) = f[p] + SumFunctionOnSet(f, Rest)
      <4>1. (T \ {x}) \ {p} = Rest
        OBVIOUS
      <4>2. QED
        BY <1>2, <2>1, <2>3, <4>1
    <3>3. IsFiniteSet(Rest) /\ Rest \subseteq S
      BY <2>1, FS_Subset
    <3> HIDE DEF Rest
    <3>4. SumFunctionOnSet(f, Rest) \in Int /\ f[x] \in Int /\ f[p] \in Int
      BY <2>1, <2>3, <3>3, SumIsInt
    <3>5. QED
      BY <2>2, <3>1, <3>2, <3>4
  <2>4. QED
    BY <2>2, <2>3
<1> HIDE DEF Good
<1>3. S \in Good
  BY <1>1, <1>2, SubsetInduction
<1>4. QED
  BY <1>3 DEF Good

\* Adding an element.
LEMMA SumTakesIn ==
  ASSUME NEW f, NEW S, IsFiniteSet(S), NEW x, x \notin S, \A y \in S \cup {x} : f[y] \in Int
  PROVE  SumFunctionOnSet(f, S \cup {x}) = f[x] + SumFunctionOnSet(f, S)
<1>1. IsFiniteSet(S \cup {x}) /\ (S \cup {x}) \ {x} = S /\ x \in S \cup {x}
  BY FS_AddElement
<1>2. QED
  BY <1>1, SumTakesOut

\* Sums of functions that are related element by element.
LEMMA SumsEqual ==
  ASSUME NEW f, NEW g, NEW S, IsFiniteSet(S), \A x \in S : f[x] = g[x]
  PROVE  SumFunctionOnSet(f, S) = SumFunctionOnSet(g, S)
<1> DEFINE Good == {T \in SUBSET S : SumFunctionOnSet(f, T) = SumFunctionOnSet(g, T)}
<1>1. {} \in Good
  BY SumOfNone
<1>2. ASSUME NEW T \in SUBSET S, T # {}, \A x \in T : T \ {x} \in Good
      PROVE  T \in Good
  <2>1. Pick(T) \in T /\ IsFiniteSet(T)
    BY <1>2, PickOne, FS_Subset
  <2>2. SumFunctionOnSet(f, T \ {Pick(T)}) = SumFunctionOnSet(g, T \ {Pick(T)})
    BY <1>2, <2>1
  <2>3. SumFunctionOnSet(f, T) = f[Pick(T)] + SumFunctionOnSet(f, T \ {Pick(T)})
    BY <1>2, <2>1, SumPicks
  <2>4. SumFunctionOnSet(g, T) = g[Pick(T)] + SumFunctionOnSet(g, T \ {Pick(T)})
    BY <1>2, <2>1, SumPicks
  <2>5. QED
    BY <2>1, <2>2, <2>3, <2>4
<1> HIDE DEF Good
<1>3. S \in Good
  BY <1>1, <1>2, SubsetInduction
<1>4. QED
  BY <1>3 DEF Good

\* A sum of smaller values.
LEMMA SumsOrdered ==
  ASSUME NEW f, NEW g, NEW S, IsFiniteSet(S),
         \A x \in S : f[x] \in Int /\ g[x] \in Int /\ f[x] <= g[x]
  PROVE  SumFunctionOnSet(f, S) <= SumFunctionOnSet(g, S)
<1> DEFINE Good == {T \in SUBSET S : SumFunctionOnSet(f, T) <= SumFunctionOnSet(g, T)}
<1>1. {} \in Good
  BY SumOfNone
<1>2. ASSUME NEW T \in SUBSET S, T # {}, \A x \in T : T \ {x} \in Good
      PROVE  T \in Good
  <2> DEFINE p == Pick(T)
             U == T \ {p}
  <2>1. p \in T /\ IsFiniteSet(T) /\ IsFiniteSet(U) /\ U \subseteq S
    BY <1>2, PickOne, FS_Subset
  <2>2. SumFunctionOnSet(f, U) <= SumFunctionOnSet(g, U)
    BY <1>2, <2>1
  <2>3. SumFunctionOnSet(f, U) \in Int /\ SumFunctionOnSet(g, U) \in Int
    BY <2>1, SumIsInt
  <2>4. SumFunctionOnSet(f, T) = f[p] + SumFunctionOnSet(f, U)
    BY <1>2, <2>1, SumPicks
  <2>5. SumFunctionOnSet(g, T) = g[p] + SumFunctionOnSet(g, U)
    BY <1>2, <2>1, SumPicks
  <2>6. f[p] \in Int /\ g[p] \in Int /\ f[p] <= g[p]
    BY <2>1
  <2> HIDE DEF U, p
  <2>7. QED
    BY <2>2, <2>3, <2>4, <2>5, <2>6
<1> HIDE DEF Good
<1>3. S \in Good
  BY <1>1, <1>2, SubsetInduction
<1>4. QED
  BY <1>3 DEF Good

\* A sum of sums.
LEMMA SumsAdded ==
  ASSUME NEW f, NEW g, NEW h, NEW S, IsFiniteSet(S),
         \A x \in S : f[x] \in Int /\ g[x] \in Int /\ h[x] = f[x] + g[x]
  PROVE  SumFunctionOnSet(h, S) = SumFunctionOnSet(f, S) + SumFunctionOnSet(g, S)
<1> DEFINE Good == {T \in SUBSET S :
                      SumFunctionOnSet(h, T) = SumFunctionOnSet(f, T) + SumFunctionOnSet(g, T)}
<1>1. {} \in Good
  BY SumOfNone
<1>2. ASSUME NEW T \in SUBSET S, T # {}, \A x \in T : T \ {x} \in Good
      PROVE  T \in Good
  <2> DEFINE p == Pick(T)
             U == T \ {p}
  <2>1. p \in T /\ IsFiniteSet(T) /\ IsFiniteSet(U) /\ U \subseteq S
    BY <1>2, PickOne, FS_Subset
  <2>2. SumFunctionOnSet(h, U) = SumFunctionOnSet(f, U) + SumFunctionOnSet(g, U)
    BY <1>2, <2>1
  <2>3. SumFunctionOnSet(f, U) \in Int /\ SumFunctionOnSet(g, U) \in Int
    BY <2>1, SumIsInt
  <2>4. SumFunctionOnSet(f, T) = f[p] + SumFunctionOnSet(f, U)
    BY <1>2, <2>1, SumPicks
  <2>5. SumFunctionOnSet(g, T) = g[p] + SumFunctionOnSet(g, U)
    BY <1>2, <2>1, SumPicks
  <2>6. SumFunctionOnSet(h, T) = h[p] + SumFunctionOnSet(h, U)
    BY <1>2, <2>1, SumPicks
  <2>7. f[p] \in Int /\ g[p] \in Int /\ h[p] = f[p] + g[p]
    BY <2>1
  <2> HIDE DEF U, p
  <2>8. QED
    BY <2>2, <2>3, <2>4, <2>5, <2>6, <2>7
<1> HIDE DEF Good
<1>3. S \in Good
  BY <1>1, <1>2, SubsetInduction
<1>4. QED
  BY <1>3 DEF Good

\* The sum over two sets without common elements.
LEMMA SumOfUnion ==
  ASSUME NEW f, NEW S, NEW T, IsFiniteSet(S), IsFiniteSet(T), S \cap T = {},
         \A x \in S \cup T : f[x] \in Int
  PROVE  SumFunctionOnSet(f, S \cup T) = SumFunctionOnSet(f, S) + SumFunctionOnSet(f, T)
<1> DEFINE Good == {U \in SUBSET T :
                      SumFunctionOnSet(f, S \cup U) = SumFunctionOnSet(f, S) + SumFunctionOnSet(f, U)}
<1>0. SumFunctionOnSet(f, S) \in Int
  BY SumIsInt
<1>1. {} \in Good
  <2>1. S \cup {} = S
    OBVIOUS
  <2>2. QED
    BY <1>0, <2>1, SumOfNone
<1>2. ASSUME NEW U \in SUBSET T, U # {}, \A x \in U : U \ {x} \in Good
      PROVE  U \in Good
  <2>1. PICK x \in U : TRUE
    BY <1>2
  <2> DEFINE V == U \ {x}
  <2>2. V \in Good /\ IsFiniteSet(U) /\ IsFiniteSet(V) /\ IsFiniteSet(S \cup U)
    BY <1>2, FS_Subset, FS_Union
  <2>3. SumFunctionOnSet(f, U) = f[x] + SumFunctionOnSet(f, V)
    BY <2>2, SumTakesOut
  <2>4. SumFunctionOnSet(f, S \cup U) = f[x] + SumFunctionOnSet(f, S \cup V)
    <3>1. (S \cup U) \ {x} = S \cup V
      OBVIOUS
    <3>2. QED
      BY <2>2, <3>1, SumTakesOut
  <2>5. f[x] \in Int /\ SumFunctionOnSet(f, V) \in Int
    BY <2>2, SumIsInt
  <2>6. SumFunctionOnSet(f, S \cup V) = SumFunctionOnSet(f, S) + SumFunctionOnSet(f, V)
    BY <2>2
  <2> HIDE DEF V
  <2>7. QED
    BY <1>0, <2>3, <2>4, <2>5, <2>6
<1> HIDE DEF Good
<1>3. T \in Good
  BY <1>1, <1>2, SubsetInduction
<1>4. QED
  BY <1>3 DEF Good

\* The image of a finite set is finite, and no larger.
LEMMA FiniteImage ==
  ASSUME NEW S, IsFiniteSet(S), NEW b
  PROVE  /\ IsFiniteSet({b[x] : x \in S})
         /\ Cardinality({b[x] : x \in S}) <= Cardinality(S)
<1> DEFINE T == {b[x] : x \in S}
           c == [x \in S |-> b[x]]
<1>1. c \in Surjection(S, T)
  BY DEF Surjection
<1> HIDE DEF T, c
<1>2. IsFiniteSet(T) /\ Cardinality(T) <= Cardinality(S)
  BY <1>1, FS_Surjection
<1>3. QED
  BY <1>2 DEF T

\* The sum over the same values under other names.
LEMMA SumRenamed ==
  ASSUME NEW f, NEW g, NEW S, NEW b, IsFiniteSet(S), \A x \in S : f[x] = g[b[x]] /\ f[x] \in Int,
         \A x, y \in S : b[x] = b[y] => x = y
  PROVE  SumFunctionOnSet(f, S) = SumFunctionOnSet(g, {b[x] : x \in S})
<1> DEFINE Image(U) == {b[x] : x \in U}
           Good == {U \in SUBSET S : SumFunctionOnSet(f, U) = SumFunctionOnSet(g, Image(U))}
<1>1. {} \in Good
  <2>1. Image({}) = {}
    OBVIOUS
  <2>2. QED
    BY <2>1, SumOfNone
<1>2. ASSUME NEW U \in SUBSET S, U # {}, \A x \in U : U \ {x} \in Good
      PROVE  U \in Good
  <2>1. PICK x \in U : TRUE
    BY <1>2
  <2>2. IsFiniteSet(U) /\ IsFiniteSet(Image(U))
    BY FS_Subset, FiniteImage
  <2>3. SumFunctionOnSet(f, U) = f[x] + SumFunctionOnSet(f, U \ {x})
    BY <2>2, SumTakesOut
  <2>4. b[x] \in Image(U) /\ \A y \in Image(U) : g[y] \in Int
    BY <2>1
  <2>5. Image(U) \ {b[x]} = Image(U \ {x})
    BY <2>1
  <2>6. SumFunctionOnSet(g, Image(U)) = g[b[x]] + SumFunctionOnSet(g, Image(U) \ {b[x]})
    <3> HIDE DEF Image
    <3>1. QED
      BY <2>2, <2>4, SumTakesOut
  <2>7. SumFunctionOnSet(f, U \ {x}) = SumFunctionOnSet(g, Image(U \ {x}))
    BY <1>2, <2>1
  <2> HIDE DEF Image
  <2>8. QED
    BY <2>1, <2>3, <2>5, <2>6, <2>7
<1> HIDE DEF Good
<1>3. S \in Good
  BY <1>1, <1>2, SubsetInduction
<1>4. QED
  BY <1>3 DEF Good

\* Elements without weight.
LEMMA SumOfZeros ==
  ASSUME NEW f, NEW S, IsFiniteSet(S), \A x \in S : f[x] = 0
  PROVE  SumFunctionOnSet(f, S) = 0
<1> DEFINE Good == {T \in SUBSET S : SumFunctionOnSet(f, T) = 0}
<1>1. {} \in Good
  BY SumOfNone
<1>2. ASSUME NEW T \in SUBSET S, T # {}, \A x \in T : T \ {x} \in Good
      PROVE  T \in Good
  <2>1. Pick(T) \in T /\ IsFiniteSet(T)
    BY <1>2, PickOne, FS_Subset
  <2>2. SumFunctionOnSet(f, T) = f[Pick(T)] + SumFunctionOnSet(f, T \ {Pick(T)})
    BY <1>2, <2>1, SumPicks
  <2>3. f[Pick(T)] = 0 /\ SumFunctionOnSet(f, T \ {Pick(T)}) = 0
    BY <1>2, <2>1
  <2>4. QED
    BY <2>2, <2>3
<1> HIDE DEF Good
<1>3. S \in Good
  BY <1>1, <1>2, SubsetInduction
<1>4. QED
  BY <1>3 DEF Good

\* Two sums that differ in one element only.
LEMMA SumChangesIn ==
  ASSUME NEW f, NEW g, NEW S, IsFiniteSet(S), NEW x \in S,
         \A y \in S : f[y] \in Int /\ g[y] \in Int /\ (y # x => f[y] = g[y])
  PROVE  SumFunctionOnSet(g, S) = SumFunctionOnSet(f, S) + g[x] - f[x]
<1> DEFINE T == S \ {x}
<1>1. IsFiniteSet(T) /\ \A y \in T : y \in S /\ f[y] = g[y]
  BY FS_Subset
<1>2. SumFunctionOnSet(f, T) = SumFunctionOnSet(g, T) /\ SumFunctionOnSet(g, T) \in Int
  BY <1>1, SumsEqual, SumIsInt
<1>3. /\ SumFunctionOnSet(f, S) = f[x] + SumFunctionOnSet(f, T)
      /\ SumFunctionOnSet(g, S) = g[x] + SumFunctionOnSet(g, T)
  BY SumTakesOut
<1>4. f[x] \in Int /\ g[x] \in Int
  OBVIOUS
<1> HIDE DEF T
<1>5. QED
  BY <1>2, <1>3, <1>4

\* A sum of numbers up to c.
LEMMA SumIsBounded ==
  ASSUME NEW f, NEW S, IsFiniteSet(S), NEW c \in Nat, \A x \in S : f[x] \in 0 .. c
  PROVE  SumFunctionOnSet(f, S) \in 0 .. c * Cardinality(S)
<1> DEFINE Good == {T \in SUBSET S : SumFunctionOnSet(f, T) \in 0 .. c * Cardinality(T)}
<1>1. {} \in Good
  BY SumOfNone, FS_EmptySet
<1>2. ASSUME NEW T \in SUBSET S, T # {}, \A x \in T : T \ {x} \in Good
      PROVE  T \in Good
  <2> DEFINE p == Pick(T)
             U == T \ {p}
  <2>1. p \in T /\ IsFiniteSet(T) /\ IsFiniteSet(U) /\ U \in Good
    BY <1>2, PickOne, FS_Subset
  <2>2. Cardinality(T) = Cardinality(U) + 1 /\ Cardinality(U) \in Nat
    <3>1. Cardinality(U) = Cardinality(T) - 1
      BY <2>1, FS_RemoveElement
    <3>2. Cardinality(U) \in Nat /\ Cardinality(T) \in Nat
      BY <2>1, FS_CardinalityType
    <3> HIDE DEF U
    <3>3. QED
      BY <3>1, <3>2
  <2>3. SumFunctionOnSet(f, T) = f[p] + SumFunctionOnSet(f, U)
    BY <1>2, <2>1, SumPicks
  <2>4. f[p] \in 0 .. c /\ SumFunctionOnSet(f, U) \in 0 .. c * Cardinality(U)
    BY <2>1
  <2> HIDE DEF U, p
  <2>5. \A k \in Nat : c * (k + 1) = c * k + c /\ c * k \in Nat
    OBVIOUS
  <2>6. SumFunctionOnSet(f, T) \in 0 .. c * Cardinality(U) + c
    BY <2>2, <2>3, <2>4, <2>5
  <2>7. QED
    BY <2>2, <2>5, <2>6
<1> HIDE DEF Good
<1>3. S \in Good
  BY <1>1, <1>2, SubsetInduction
<1>4. QED
  BY <1>3 DEF Good

-----------------------------------------------------------------------------
(* Sequences                                                               *)

\* The indices of a sequence.
LEMMA FiniteIndices == ASSUME NEW n \in Nat PROVE IsFiniteSet(1 .. n)
<1>1. 1 \in Int /\ n \in Int
  OBVIOUS
<1>2. QED
  BY ONLY <1>1, FS_Interval

\* The sum over one element.
LEMMA SumOfOne ==
  ASSUME NEW f, NEW x, f[x] \in Int
  PROVE  SumFunctionOnSet(f, {x}) = f[x]
<1>1. SumFunctionOnSet(f, {} \cup {x}) = f[x] + SumFunctionOnSet(f, {})
  BY ONLY f[x] \in Int, FS_EmptySet, SumTakesIn
<1>2. {} \cup {x} = {x}
  OBVIOUS
<1>3. QED
  BY <1>1, <1>2, SumOfNone

\* Amounts that are reversed.
LEMMA SumNegated ==
  ASSUME NEW f, NEW g, NEW S, IsFiniteSet(S), \A x \in S : f[x] \in Int /\ g[x] = -f[x]
  PROVE  SumFunctionOnSet(g, S) = -SumFunctionOnSet(f, S)
<1> DEFINE none == [x \in S |-> 0]
<1>1. SumFunctionOnSet(none, S) = 0
  BY SumOfZeros
<1>2. \A x \in S : f[x] \in Int /\ g[x] \in Int /\ none[x] = f[x] + g[x]
  OBVIOUS
<1> HIDE DEF none
<1>3. SumFunctionOnSet(none, S) = SumFunctionOnSet(f, S) + SumFunctionOnSet(g, S)
  BY <1>2, SumsAdded
<1>4. SumFunctionOnSet(f, S) \in Int /\ SumFunctionOnSet(g, S) \in Int
  BY <1>2, SumIsInt
<1>5. QED
  BY <1>1, <1>3, <1>4

\* The sum over a concatenation.
LEMMA SumOfConcat ==
  ASSUME NEW f, NEW g, f \in Seq(Int), g \in Seq(Int)
  PROVE  /\ SumFunction(f \o g) = SumFunction(f) + SumFunction(g)
         /\ SumFunction(f) \in Int /\ SumFunction(g) \in Int
<1> DEFINE m == Len(f)
           n == Len(g)
           h == f \o g
<1>0. /\ m \in Nat /\ n \in Nat
      /\ DOMAIN f = 1 .. m /\ DOMAIN g = 1 .. n /\ DOMAIN h = 1 .. m + n
      /\ \A i \in 1 .. m : f[i] \in Int /\ h[i] = f[i]
      /\ \A i \in 1 .. n : g[i] \in Int /\ h[m + i] = g[i]
  OBVIOUS
<1> HIDE DEF m, n, h
<1> DEFINE moved == [i \in 1 .. n |-> m + i]
           last == {moved[i] : i \in 1 .. n}
<1>1. 1 .. m + n = 1 .. m \cup last /\ 1 .. m \cap last = {}
  <2>1. \A k \in (m + 1) .. (m + n) : k - m \in 1 .. n /\ moved[k - m] = k
    BY <1>0
  <2>2. \A i \in 1 .. n : moved[i] \in (m + 1) .. (m + n)
    BY <1>0
  <2>3. last = (m + 1) .. (m + n)
    <3>1. \A k \in (m + 1) .. (m + n) : k \in last
      BY <2>1
    <3>2. \A k \in last : k \in (m + 1) .. (m + n)
      BY <2>2
    <3> HIDE DEF last
    <3>3. QED
      BY ONLY <1>0, <3>1, <3>2
  <2> HIDE DEF last
  <2>4. QED
    BY ONLY <1>0, <2>3
<1>2. IsFiniteSet(1 .. m) /\ IsFiniteSet(1 .. n)
  BY ONLY <1>0, FiniteIndices
<1>3. IsFiniteSet(last)
  BY ONLY <1>2, FiniteImage
<1>4. \A i \in 1 .. n : g[i] = h[moved[i]] /\ g[i] \in Int
  BY ONLY <1>0
<1>5. \A i, j \in 1 .. n : moved[i] = moved[j] => i = j
  BY ONLY <1>0
<1> HIDE DEF moved
<1>6. SumFunctionOnSet(g, 1 .. n) = SumFunctionOnSet(h, last)
  <2> DEFINE S == 1 .. n
  <2>1. /\ IsFiniteSet(S) /\ \A i \in S : g[i] = h[moved[i]] /\ g[i] \in Int
        /\ \A i, j \in S : moved[i] = moved[j] => i = j
    BY <1>2, <1>4, <1>5
  <2>2. last = {moved[i] : i \in S}
    BY DEF last
  <2> HIDE DEF S
  <2>3. SumFunctionOnSet(g, S) = SumFunctionOnSet(h, {moved[i] : i \in S})
    BY ONLY <2>1, SumRenamed
  <2>4. QED
    BY <2>2, <2>3 DEF S
<1>7. SumFunctionOnSet(f, 1 .. m) = SumFunctionOnSet(h, 1 .. m)
  BY ONLY <1>0, <1>2, SumsEqual
<1>8. \A i \in 1 .. m \cup last : h[i] \in Int
  BY ONLY <1>0, <1>4
<1> HIDE DEF last
<1>9. SumFunctionOnSet(h, 1 .. m \cup last) = SumFunctionOnSet(h, 1 .. m) + SumFunctionOnSet(h, last)
  BY ONLY <1>1, <1>2, <1>8, <1>3, SumOfUnion
<1>10. SumFunctionOnSet(f, 1 .. m) \in Int /\ SumFunctionOnSet(g, 1 .. n) \in Int
  BY ONLY <1>0, <1>2, SumIsInt
<1>11. QED
  <2>1. SumFunctionOnSet(h, DOMAIN h) = SumFunctionOnSet(f, DOMAIN f) + SumFunctionOnSet(g, DOMAIN g)
    BY ONLY <1>0, <1>1, <1>6, <1>7, <1>9
  <2>2. SumFunctionOnSet(f, DOMAIN f) \in Int /\ SumFunctionOnSet(g, DOMAIN g) \in Int
    BY ONLY <1>0, <1>10
  <2>3. QED
    BY <2>1, <2>2 DEF SumFunction, h

\* A sum of natural numbers is one.
LEMMA SumIsNat ==
  ASSUME NEW f, NEW S, IsFiniteSet(S), \A x \in S : f[x] \in Nat
  PROVE  SumFunctionOnSet(f, S) \in Nat
<1> DEFINE zero == [x \in S |-> 0]
<1>1. \A x \in S : zero[x] = 0 /\ zero[x] \in Int /\ f[x] \in Int /\ zero[x] <= f[x]
  OBVIOUS
<1> HIDE DEF zero
<1>2. SumFunctionOnSet(zero, S) = 0
  BY <1>1, SumOfZeros
<1>3. SumFunctionOnSet(zero, S) <= SumFunctionOnSet(f, S)
  BY <1>1, SumsOrdered
<1>4. SumFunctionOnSet(f, S) \in Int
  BY <1>1, SumIsInt
<1>5. QED
  BY <1>2, <1>3, <1>4

\* A function with the values of a concatenation is the concatenation.
LEMMA ConcatIs ==
  ASSUME NEW f, NEW g, NEW h, f \in Seq(Int), g \in Seq(Int),
         h = [i \in 1 .. Len(f) + Len(g) |-> (f \o g)[i]]
  PROVE  h = f \o g
<1>1. f \o g \in Seq(Int) /\ DOMAIN (f \o g) = 1 .. Len(f) + Len(g)
  OBVIOUS
<1>2. \A k \in Seq(Int) : k = [i \in DOMAIN k |-> k[i]]
  OBVIOUS
<1>3. QED
  BY <1>1, <1>2

\* The sum of what v gives for the elements of a sequence, and of two that are joined.
Valued(s, v) == SumFunction([i \in DOMAIN s |-> v[s[i]]])

LEMMA ValuedJoin ==
  ASSUME NEW T, NEW s, NEW t, s \in Seq(T), t \in Seq(T), NEW v \in [T -> Int]
  PROVE  /\ Valued(s \o t, v) = Valued(s, v) + Valued(t, v)
         /\ Valued(s, v) \in Int /\ Valued(t, v) \in Int
<1> DEFINE f == [i \in DOMAIN s |-> v[s[i]]]
           g == [i \in DOMAIN t |-> v[t[i]]]
           h == [i \in DOMAIN (s \o t) |-> v[(s \o t)[i]]]
<1>1. /\ f \in Seq(Int) /\ g \in Seq(Int) /\ Len(f) = Len(s) /\ Len(g) = Len(t)
      /\ \A i \in 1 .. Len(s) : f[i] = v[s[i]]
      /\ \A i \in 1 .. Len(t) : g[i] = v[t[i]]
  OBVIOUS
<1> HIDE DEF f, g
<1>2. h = f \o g
  <2>1. DOMAIN (s \o t) = 1 .. Len(f) + Len(g)
    BY <1>1
  <2>2. \A i \in 1 .. Len(f) + Len(g) : v[(s \o t)[i]] = (f \o g)[i]
    <3> DEFINE m == Len(s)
               n == Len(t)
    <3>1. /\ m \in Nat /\ n \in Nat /\ Len(f) = m /\ Len(g) = n
          /\ \A i \in 1 .. m + n : (s \o t)[i] = IF i <= m THEN s[i] ELSE t[i - m]
      BY <1>1
    <3>2. \A i \in 1 .. m + n : (f \o g)[i] = IF i <= m THEN f[i] ELSE g[i - m]
      BY ONLY <1>1, <3>1
    <3>3. /\ \A i \in 1 .. m : f[i] = v[s[i]]
          /\ \A i \in 1 .. n : g[i] = v[t[i]]
      BY <1>1
    <3> HIDE DEF m, n
    <3>4. ASSUME NEW i \in 1 .. m + n
          PROVE  v[(s \o t)[i]] = (f \o g)[i]
      <4>1. CASE i <= m
        <5>1. i \in 1 .. m
          BY ONLY <3>1, <4>1, i \in 1 .. m + n
        <5>2. QED
          BY ONLY <3>1, <3>2, <3>3, <4>1, <5>1, i \in 1 .. m + n
      <4>2. CASE ~(i <= m)
        <5>1. i - m \in 1 .. n
          BY ONLY <3>1, <4>2, i \in 1 .. m + n
        <5>2. QED
          BY ONLY <3>1, <3>2, <3>3, <4>2, <5>1, i \in 1 .. m + n
      <4>3. QED
        BY <4>1, <4>2
    <3>5. QED
      BY ONLY <3>1, <3>4
  <2>3. h = [i \in 1 .. Len(f) + Len(g) |-> (f \o g)[i]]
    BY <2>1, <2>2
  <2> HIDE DEF h
  <2>4. QED
    BY ONLY <1>1, <2>3, ConcatIs
<1> HIDE DEF h
<1>3. SumFunction(f \o g) = SumFunction(f) + SumFunction(g) /\ SumFunction(f) \in Int /\ SumFunction(g) \in Int
  BY ONLY <1>1, SumOfConcat
<1>4. QED
  BY <1>2, <1>3 DEF f, g, h, Valued

\* Every set of numbers has a least one.
LEMMA LeastIn ==
  ASSUME NEW S, S \subseteq Nat, S # {}
  PROVE  \E x \in S : \A y \in S : x <= y
<1>1. \E x \in S : \A y \in S : ~ (<<y, x>> \in OpToRel(<, Nat))
  BY NatLessThanWellFounded, WFMin
<1>2. \A x, y \in Nat : y < x => <<y, x>> \in OpToRel(<, Nat)
  BY DEF OpToRel
<1>3. \A x, y \in Nat : ~(y < x) => x <= y
  OBVIOUS
<1>4. QED
  BY <1>1, <1>2, <1>3

\* Induction up to a bound.
LEMMA UpTo ==
  ASSUME NEW n \in Nat, NEW Good, 0 \in Good, \A k \in 0 .. n : k < n /\ k \in Good => k + 1 \in Good
  PROVE  \A k \in 0 .. n : k \in Good
<1> DEFINE Bad == (0 .. n) \ Good
<1>1. SUFFICES ASSUME Bad # {} PROVE FALSE
  OBVIOUS
<1>2. PICK x \in Bad : \A y \in Bad : x <= y
  <2>1. Bad \subseteq Nat
    OBVIOUS
  <2> HIDE DEF Bad
  <2>2. QED
    BY ONLY <1>1, <2>1, LeastIn
<1>3. x \in 0 .. n /\ x \notin Good /\ x # 0
  BY <1>2
<1>4. x - 1 \in 0 .. n /\ x - 1 < n /\ (x - 1) + 1 = x
  BY <1>3
<1>5. x - 1 \notin Bad
  BY <1>2, <1>4
<1>6. QED
  BY <1>3, <1>4, <1>5

=============================================================================
