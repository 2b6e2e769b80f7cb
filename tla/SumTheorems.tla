---------------------------- MODULE SumTheorems -----------------------------
(***************************************************************************)
(* Sums over finite sets.  SumFunctionOnSet adds up a function over a set   *)
(* by choosing one element after the other; here it is shown that the       *)
(* choice does not matter, and what a sum becomes when an element is added, *)
(* taken away or given another value.                                       *)
(*                                                                          *)
(* The induction is the one over strict subsets: a non-empty family of      *)
(* subsets of a finite set has a least member, so that a property that      *)
(* fails has a smallest counterexample.                                     *)
(***************************************************************************)
EXTENDS Functions, FiniteSets, FiniteSetTheorems, SequenceTheorems, WellFoundedInduction,
        TLAPS

\* A family of subsets of a finite set has a minimal member.
LEMMA SmallestSet ==
  ASSUME NEW S, IsFiniteSet(S), NEW F, F \subseteq SUBSET S, F # {}
  PROVE  \E u \in F : \A v \in F : v \subseteq u => v = u
<1>1. IsWellFoundedOn(StrictSubsetOrdering(S), FiniteSubsetsOf(S))
  BY FS_StrictSubsetOrderingWellFounded
<1>2. FiniteSubsetsOf(S) = SUBSET S
  BY FS_FiniteSubsetsOfFinite
<1>3. \E x \in F : \A y \in F : ~(<<y, x>> \in StrictSubsetOrdering(S))
  BY <1>1, <1>2, WFMin, Zenon
<1> QED
  BY <1>3 DEF StrictSubsetOrdering

\* A set of natural numbers has a least element.
LEMMA SmallestNumber ==
  ASSUME NEW T, T \subseteq Nat, T # {}
  PROVE  \E n \in T : \A m \in T : n <= m
<1>1. PICK k \in T : TRUE
  OBVIOUS
<1> DEFINE R == 0..k
           F == {0..m : m \in {n \in T : n <= k}}
<1>2. IsFiniteSet(R)
  BY <1>1, FS_Interval
<1>3. F \subseteq SUBSET R
  BY <1>1
<1>4. F # {}
  BY <1>1
<1> HIDE DEF R, F
<1>5. PICK u \in F : \A v \in F : v \subseteq u => v = u
  BY <1>2, <1>3, <1>4, SmallestSet
<1>6. PICK n \in T : n <= k /\ u = 0..n
  BY <1>5 DEF F
<1>7. ASSUME NEW m \in T, m < n PROVE FALSE
  <2>1. 0..m \in F
    BY <1>1, <1>6, <1>7 DEF F
  <2>2. 0..m \subseteq u
    BY <1>6, <1>7
  <2>3. 0..m = 0..n
    BY <1>5, <1>6, <2>1, <2>2
  <2>4. n \in 0..n
    BY <1>6
  <2>5. n \in 0..m
    BY <2>3, <2>4
  <2> QED
    BY <1>7, <2>5
<1> QED
  BY <1>6, <1>7

-----------------------------------------------------------------------------
\* The function that SumFunctionOnSet iterates: what a subset adds up to.
IsTally(g, f, S) ==
  g = [s \in SUBSET S |->
         IF s = {} THEN 0
         ELSE f[CHOOSE x \in s : TRUE] + g[s \ {CHOOSE x \in s : TRUE}]]

LEMMA SumIsTally ==
  ASSUME NEW f, NEW S
  PROVE  SumFunctionOnSet(f, S) = (CHOOSE g : IsTally(g, f, S))[S]
BY DEF SumFunctionOnSet, FoldFunctionOnSet, MapThenFoldSet, IsTally

\* There is such a function: it is built for ever larger subsets.
LEMMA TallyExists ==
  ASSUME NEW S, IsFiniteSet(S), NEW f
  PROVE  \E g : IsTally(g, f, S)
<1> DEFINE Small(n) == {s \in SUBSET S : Cardinality(s) <= n}
           Next(g, s) == IF s = {} THEN 0
                         ELSE f[CHOOSE x \in s : TRUE] + g[s \ {CHOOSE x \in s : TRUE}]
           Good(n) == \E g : g = [s \in Small(n) |-> Next(g, s)]
           Bad == {n \in Nat : ~Good(n)}
<1>1. \A s \in SUBSET S : /\ IsFiniteSet(s) /\ Cardinality(s) \in Nat
                          /\ Cardinality(s) = 0 <=> s = {}
                          /\ Cardinality(s) <= Cardinality(S)
  BY FS_Subset, FS_CardinalityType, FS_EmptySet
<1>2. \A s \in SUBSET S : s # {} =>
        Cardinality(s \ {CHOOSE x \in s : TRUE}) = Cardinality(s) - 1
  <2> TAKE s \in SUBSET S
  <2> HAVE s # {}
  <2>1. (CHOOSE x \in s : TRUE) \in s
    OBVIOUS
  <2> QED
    BY <1>1, <2>1, FS_RemoveElement
<1>3. Good(0)
  <2> DEFINE g == [s \in {{}} |-> 0]
  <2>1. Small(0) = {{}}
    BY <1>1
  <2>2. g = [s \in Small(0) |-> Next(g, s)]
    BY <2>1
  <2> QED
    BY <2>2
<1>4. ASSUME NEW n \in Nat, Good(n) PROVE Good(n + 1)
  <2>1. PICK g : g = [s \in Small(n) |-> Next(g, s)]
    BY <1>4
  <2> DEFINE h == [s \in Small(n + 1) |-> Next(g, s)]
  <2>2. \A s \in Small(n + 1) : s # {} => s \ {CHOOSE x \in s : TRUE} \in Small(n)
    <3> TAKE s \in Small(n + 1)
    <3> HAVE s # {}
    <3>1. Cardinality(s) \in Nat /\ Cardinality(s) <= n + 1
      BY <1>1
    <3>2. Cardinality(s \ {CHOOSE x \in s : TRUE}) = Cardinality(s) - 1
      BY <1>2
    <3>3. s \ {CHOOSE x \in s : TRUE} \in SUBSET S
      OBVIOUS
    <3> QED
      BY <3>1, <3>2, <3>3
  <2>3. Small(n) \subseteq Small(n + 1)
    BY <1>1
  <2>4. \A s \in Small(n) : h[s] = g[s]
    BY <2>1, <2>3
  <2>5. \A s \in Small(n + 1) : Next(g, s) = Next(h, s)
    <3> TAKE s \in Small(n + 1)
    <3> DEFINE t == s \ {CHOOSE x \in s : TRUE}
    <3>1. s # {} => h[t] = g[t]
      BY <2>2, <2>4
    <3> QED
      BY <3>1
  <2>6. h = [s \in Small(n + 1) |-> Next(h, s)]
    BY <2>5
  <2> QED
    BY <2>6
<1>5. Bad = {}
  <2> SUFFICES ASSUME Bad # {} PROVE FALSE
    OBVIOUS
  <2>1. Bad \subseteq Nat /\ \A n \in Nat : n \in Bad <=> ~Good(n)
    OBVIOUS
  <2> HIDE DEF Bad, Good
  <2>2. PICK n \in Bad : \A m \in Bad : n <= m
    BY <2>1, SmallestNumber
  <2>3. n # 0 /\ n - 1 \in Nat /\ n - 1 \notin Bad
    <3>1. n # 0
      BY <1>3, <2>1, <2>2
    <3> QED
      BY <2>1, <2>2, <3>1
  <2>4. Good(n - 1)
    BY <2>1, <2>3
  <2>5. Good((n - 1) + 1)
    BY <1>4, <2>3, <2>4
  <2>6. (n - 1) + 1 = n
    BY <2>1, <2>2
  <2> QED
    BY <2>1, <2>2, <2>5, <2>6
<1>6. Good(Cardinality(S))
  BY <1>1, <1>5
<1>7. Small(Cardinality(S)) = SUBSET S
  BY <1>1
<1> QED
  BY <1>6, <1>7 DEF IsTally

\* What a subset adds up to does not depend on the set it is a subset of.
LEMMA TalliesAgree ==
  ASSUME NEW S, IsFiniteSet(S), NEW f, NEW T \in SUBSET S,
         NEW g, IsTally(g, f, S), NEW h, IsTally(h, f, T)
  PROVE  g[T] = h[T]
<1> DEFINE F == {s \in SUBSET T : g[s] # h[s]}
<1> SUFFICES ASSUME F # {} PROVE FALSE
  OBVIOUS
<1>1. IsFiniteSet(T) /\ F \subseteq SUBSET T
  BY FS_Subset
<1>2. PICK u \in F : \A v \in F : v \subseteq u => v = u
  <2> HIDE DEF F
  <2> QED
    BY <1>1, SmallestSet
<1>3. u \in SUBSET T /\ u \in SUBSET S /\ g[u] # h[u]
  OBVIOUS
<1> DEFINE c == CHOOSE x \in u : TRUE
           t == u \ {c}
<1>4. CASE u = {}
  BY <1>3, <1>4 DEF IsTally
<1>5. CASE u # {}
  <2>1. c \in u /\ t \subseteq u /\ t # u
    BY <1>5
  <2>2. t \in SUBSET T /\ t \notin F
    BY <1>2, <1>3, <2>1
  <2>3. g[t] = h[t]
    BY <2>2
  <2>4. g[u] = f[c] + g[t] /\ h[u] = f[c] + h[t]
    BY <1>3, <1>5 DEF IsTally
  <2> QED
    BY <1>3, <2>3, <2>4
<1> QED
  BY <1>4, <1>5

LEMMA SumOfTally ==
  ASSUME NEW S, IsFiniteSet(S), NEW f, NEW T \in SUBSET S, NEW g, IsTally(g, f, S)
  PROVE  SumFunctionOnSet(f, T) = g[T]
<1> DEFINE h == CHOOSE k : IsTally(k, f, T)
<1>1. IsFiniteSet(T)
  BY FS_Subset
<1>2. \E k : IsTally(k, f, T)
  BY <1>1, TallyExists
<1>3. IsTally(h, f, T)
  BY <1>2
<1>4. SumFunctionOnSet(f, T) = h[T]
  BY SumIsTally
<1> HIDE DEF h
<1> QED
  BY <1>3, <1>4, TalliesAgree

-----------------------------------------------------------------------------
LEMMA SumEmpty ==
  ASSUME NEW f
  PROVE  SumFunctionOnSet(f, {}) = 0
<1>1. IsFiniteSet({})
  BY FS_EmptySet
<1>2. PICK g : IsTally(g, f, {})
  BY <1>1, TallyExists
<1>3. SumFunctionOnSet(f, {}) = g[{}]
  BY <1>1, <1>2, SumOfTally
<1> QED
  BY <1>2, <1>3 DEF IsTally

LEMMA SumChosen ==
  ASSUME NEW S, IsFiniteSet(S), S # {}, NEW f
  PROVE  LET c == CHOOSE x \in S : TRUE
         IN  SumFunctionOnSet(f, S) = f[c] + SumFunctionOnSet(f, S \ {c})
<1> DEFINE c == CHOOSE x \in S : TRUE
           t == S \ {c}
<1>1. PICK g : IsTally(g, f, S)
  BY TallyExists
<1>2. SumFunctionOnSet(f, S) = g[S] /\ SumFunctionOnSet(f, t) = g[t]
  BY <1>1, SumOfTally
<1>3. g[S] = f[c] + g[t]
  BY <1>1 DEF IsTally
<1> QED
  BY <1>2, <1>3

LEMMA SumType ==
  ASSUME NEW S, IsFiniteSet(S), NEW f, \A x \in S : f[x] \in Int
  PROVE  SumFunctionOnSet(f, S) \in Int
<1> DEFINE F == {s \in SUBSET S : SumFunctionOnSet(f, s) \notin Int}
<1> SUFFICES ASSUME F # {} PROVE FALSE
  OBVIOUS
<1>1. F \subseteq SUBSET S
  OBVIOUS
<1>2. PICK u \in F : \A v \in F : v \subseteq u => v = u
  <2> HIDE DEF F
  <2> QED
    BY <1>1, SmallestSet
<1>3. u \in SUBSET S /\ SumFunctionOnSet(f, u) \notin Int /\ IsFiniteSet(u)
  BY FS_Subset
<1>4. u # {}
  BY <1>3, SumEmpty
<1> DEFINE c == CHOOSE x \in u : TRUE
           t == u \ {c}
<1>5. c \in u /\ t \subseteq u /\ t # u
  BY <1>4
<1>6. SumFunctionOnSet(f, t) \in Int
  BY <1>2, <1>3, <1>5
<1>7. SumFunctionOnSet(f, u) = f[c] + SumFunctionOnSet(f, t)
  BY <1>3, <1>4, SumChosen
<1> HIDE DEF c, t
<1> QED
  BY <1>3, <1>5, <1>6, <1>7

\* Any element can be taken out of a sum first.
THEOREM SumRemove ==
  ASSUME NEW S, IsFiniteSet(S), NEW f, \A x \in S : f[x] \in Int, NEW e \in S
  PROVE  SumFunctionOnSet(f, S) = f[e] + SumFunctionOnSet(f, S \ {e})
<1> DEFINE Fine(s) == \A x \in s : SumFunctionOnSet(f, s) = f[x] + SumFunctionOnSet(f, s \ {x})
           F == {s \in SUBSET S : ~Fine(s)}
<1> SUFFICES ASSUME F # {} PROVE FALSE
  OBVIOUS
<1>1. F \subseteq SUBSET S /\ \A s \in SUBSET S : s \in F <=> ~Fine(s)
  OBVIOUS
<1> HIDE DEF F
<1>2. PICK u \in F : \A v \in F : v \subseteq u => v = u
  BY <1>1, SmallestSet
<1>3. u \in SUBSET S /\ ~Fine(u) /\ IsFiniteSet(u)
  BY <1>1, <1>2, FS_Subset
<1>4. PICK x \in u : SumFunctionOnSet(f, u) # f[x] + SumFunctionOnSet(f, u \ {x})
  BY <1>3
<1> DEFINE c == CHOOSE y \in u : TRUE
           t == u \ {c}
           r == u \ {x}
           b == u \ {c, x}
<1>5. c \in u
  BY <1>4
<1>6. SumFunctionOnSet(f, u) = f[c] + SumFunctionOnSet(f, t)
  BY <1>3, <1>4, SumChosen
<1> HIDE DEF c
<1>7. c # x
  BY <1>4, <1>6
<1>8. Fine(t) /\ Fine(r)
  <2>1. t \in SUBSET S /\ t \subseteq u /\ t # u /\ r \in SUBSET S /\ r \subseteq u /\ r # u
    BY <1>3, <1>4, <1>5
  <2>2. t \notin F /\ r \notin F
    BY <1>2, <2>1
  <2> HIDE DEF t, r, Fine
  <2> QED
    BY <1>1, <2>1, <2>2
<1>9. SumFunctionOnSet(f, t) = f[x] + SumFunctionOnSet(f, b)
  <2>1. x \in t /\ t \ {x} = b
    BY <1>4, <1>7
  <2> HIDE DEF t, b
  <2> QED
    BY <1>8, <2>1
<1>10. SumFunctionOnSet(f, r) = f[c] + SumFunctionOnSet(f, b)
  <2>1. c \in r /\ r \ {c} = b
    BY <1>4, <1>5, <1>7
  <2> HIDE DEF r, b
  <2> QED
    BY <1>8, <2>1
<1>11. SumFunctionOnSet(f, b) \in Int
  <2>1. IsFiniteSet(b) /\ \A y \in b : f[y] \in Int
    BY <1>3, FS_Subset
  <2> HIDE DEF b
  <2> QED
    BY <2>1, SumType
<1>12. f[c] \in Int /\ f[x] \in Int
  BY <1>3, <1>4, <1>5
<1> HIDE DEF t, b
<1> QED
  BY <1>4, <1>6, <1>9, <1>10, <1>11, <1>12

\* An element outside the set can be added to a sum.
THEOREM SumAdd ==
  ASSUME NEW S, IsFiniteSet(S), NEW f, \A x \in S : f[x] \in Int, NEW e, e \notin S, f[e] \in Int
  PROVE  SumFunctionOnSet(f, S \cup {e}) = f[e] + SumFunctionOnSet(f, S)
<1> DEFINE T == S \cup {e}
<1>1. IsFiniteSet(T)
  BY FS_AddElement
<1>2. e \in T /\ T \ {e} = S /\ \A x \in T : f[x] \in Int
  OBVIOUS
<1> HIDE DEF T
<1> QED
  BY <1>1, <1>2, SumRemove DEF T

\* A sum depends on the values over its set alone.
THEOREM SumEqual ==
  ASSUME NEW S, IsFiniteSet(S), NEW f, NEW g, \A x \in S : f[x] = g[x]
  PROVE  SumFunctionOnSet(f, S) = SumFunctionOnSet(g, S)
<1> DEFINE F == {s \in SUBSET S : SumFunctionOnSet(f, s) # SumFunctionOnSet(g, s)}
<1> SUFFICES ASSUME F # {} PROVE FALSE
  OBVIOUS
<1>1. F \subseteq SUBSET S
  OBVIOUS
<1>2. PICK u \in F : \A v \in F : v \subseteq u => v = u
  <2> HIDE DEF F
  <2> QED
    BY <1>1, SmallestSet
<1>3. u \in SUBSET S /\ SumFunctionOnSet(f, u) # SumFunctionOnSet(g, u) /\ IsFiniteSet(u)
  BY FS_Subset
<1>4. u # {}
  BY <1>3, SumEmpty
<1> DEFINE c == CHOOSE x \in u : TRUE
           t == u \ {c}
<1>5. c \in u /\ t \subseteq u /\ t # u
  BY <1>4
<1>6. SumFunctionOnSet(f, t) = SumFunctionOnSet(g, t)
  BY <1>2, <1>3, <1>5
<1>7. /\ SumFunctionOnSet(f, u) = f[c] + SumFunctionOnSet(f, t)
      /\ SumFunctionOnSet(g, u) = g[c] + SumFunctionOnSet(g, t)
  BY <1>3, <1>4, SumChosen
<1> HIDE DEF c, t
<1> QED
  BY <1>3, <1>5, <1>6, <1>7

\* One value changes: the sum changes by the difference.
THEOREM SumUpdate ==
  ASSUME NEW S, IsFiniteSet(S), NEW f, NEW g, NEW e \in S,
         \A x \in S : f[x] \in Int /\ g[x] \in Int, \A x \in S : x # e => g[x] = f[x]
  PROVE  SumFunctionOnSet(g, S) = SumFunctionOnSet(f, S) - f[e] + g[e]
<1> DEFINE t == S \ {e}
<1>1. IsFiniteSet(t) /\ \A x \in t : f[x] = g[x] /\ f[x] \in Int
  BY FS_Subset
<1>2. /\ SumFunctionOnSet(f, S) = f[e] + SumFunctionOnSet(f, t)
      /\ SumFunctionOnSet(g, S) = g[e] + SumFunctionOnSet(g, t)
  BY SumRemove
<1> HIDE DEF t
<1>3. SumFunctionOnSet(f, t) = SumFunctionOnSet(g, t) /\ SumFunctionOnSet(f, t) \in Int
  BY <1>1, SumEqual, SumType
<1> QED
  BY <1>2, <1>3

\* A sum of natural numbers is one, and no element of it is larger.
THEOREM SumNat ==
  ASSUME NEW S, IsFiniteSet(S), NEW f, \A x \in S : f[x] \in Nat
  PROVE  /\ SumFunctionOnSet(f, S) \in Nat
         /\ \A x \in S : f[x] <= SumFunctionOnSet(f, S)
<1> DEFINE F == {s \in SUBSET S : SumFunctionOnSet(f, s) \notin Nat}
<1>0. F = {}
  <2> SUFFICES ASSUME F # {} PROVE FALSE
    OBVIOUS
  <2>1. F \subseteq SUBSET S
    OBVIOUS
  <2>2. PICK u \in F : \A v \in F : v \subseteq u => v = u
    <3> HIDE DEF F
    <3> QED
      BY <2>1, SmallestSet
  <2>3. u \in SUBSET S /\ SumFunctionOnSet(f, u) \notin Nat /\ IsFiniteSet(u)
    BY FS_Subset
  <2>4. u # {}
    BY <2>3, SumEmpty
  <2> DEFINE c == CHOOSE x \in u : TRUE
             t == u \ {c}
  <2>5. c \in u /\ t \subseteq u /\ t # u
    BY <2>4
  <2>6. SumFunctionOnSet(f, t) \in Nat
    BY <2>2, <2>3, <2>5
  <2>7. SumFunctionOnSet(f, u) = f[c] + SumFunctionOnSet(f, t)
    BY <2>3, <2>4, SumChosen
  <2> HIDE DEF c, t
  <2> QED
    BY <2>3, <2>5, <2>6, <2>7
<1>1. \A s \in SUBSET S : SumFunctionOnSet(f, s) \in Nat
  BY <1>0
<1>2. ASSUME NEW x \in S PROVE f[x] <= SumFunctionOnSet(f, S)
  <2> DEFINE t == S \ {x}
  <2>1. SumFunctionOnSet(f, t) \in Nat
    BY <1>1
  <2>2. SumFunctionOnSet(f, S) = f[x] + SumFunctionOnSet(f, t)
    BY SumRemove
  <2> HIDE DEF t
  <2> QED
    BY <2>1, <2>2
<1> QED
  BY <1>1, <1>2

\* Nothing adds up to nothing.
THEOREM SumZero ==
  ASSUME NEW S, IsFiniteSet(S), NEW f, \A x \in S : f[x] = 0
  PROVE  SumFunctionOnSet(f, S) = 0
<1> DEFINE F == {s \in SUBSET S : SumFunctionOnSet(f, s) # 0}
<1> SUFFICES ASSUME F # {} PROVE FALSE
  OBVIOUS
<1>1. F \subseteq SUBSET S
  OBVIOUS
<1>2. PICK u \in F : \A v \in F : v \subseteq u => v = u
  <2> HIDE DEF F
  <2> QED
    BY <1>1, SmallestSet
<1>3. u \in SUBSET S /\ SumFunctionOnSet(f, u) # 0 /\ IsFiniteSet(u)
  BY FS_Subset
<1>4. u # {}
  BY <1>3, SumEmpty
<1> DEFINE c == CHOOSE x \in u : TRUE
           t == u \ {c}
<1>5. c \in u /\ t \subseteq u /\ t # u
  BY <1>4
<1>6. SumFunctionOnSet(f, t) = 0
  BY <1>2, <1>3, <1>5
<1>7. SumFunctionOnSet(f, u) = f[c] + SumFunctionOnSet(f, t)
  BY <1>3, <1>4, SumChosen
<1> HIDE DEF c, t
<1> QED
  BY <1>3, <1>5, <1>6, <1>7

\* Two functions add up to the sum of their sums.
THEOREM SumPlus ==
  ASSUME NEW S, IsFiniteSet(S), NEW f, NEW g, NEW h,
         \A x \in S : f[x] \in Int /\ g[x] \in Int /\ h[x] = f[x] + g[x]
  PROVE  SumFunctionOnSet(h, S) = SumFunctionOnSet(f, S) + SumFunctionOnSet(g, S)
<1> DEFINE F == {s \in SUBSET S : SumFunctionOnSet(h, s)
                                    # SumFunctionOnSet(f, s) + SumFunctionOnSet(g, s)}
<1> SUFFICES ASSUME F # {} PROVE FALSE
  OBVIOUS
<1>1. F \subseteq SUBSET S
  OBVIOUS
<1>2. PICK u \in F : \A v \in F : v \subseteq u => v = u
  <2> HIDE DEF F
  <2> QED
    BY <1>1, SmallestSet
<1>3. /\ u \in SUBSET S /\ IsFiniteSet(u)
      /\ SumFunctionOnSet(h, u) # SumFunctionOnSet(f, u) + SumFunctionOnSet(g, u)
  BY FS_Subset
<1>4. u # {}
  BY <1>3, SumEmpty
<1> DEFINE c == CHOOSE x \in u : TRUE
           t == u \ {c}
<1>5. c \in u /\ t \subseteq u /\ t # u /\ IsFiniteSet(t)
  BY <1>3, <1>4, FS_Subset
<1>6. SumFunctionOnSet(h, t) = SumFunctionOnSet(f, t) + SumFunctionOnSet(g, t)
  BY <1>2, <1>3, <1>5
<1>7. /\ SumFunctionOnSet(f, u) = f[c] + SumFunctionOnSet(f, t)
      /\ SumFunctionOnSet(g, u) = g[c] + SumFunctionOnSet(g, t)
      /\ SumFunctionOnSet(h, u) = h[c] + SumFunctionOnSet(h, t)
  BY <1>3, <1>4, SumChosen
<1> HIDE DEF c, t
<1>8. SumFunctionOnSet(f, t) \in Int /\ SumFunctionOnSet(g, t) \in Int
  <2>1. \A x \in t : f[x] \in Int /\ g[x] \in Int
    BY <1>3, <1>5
  <2> QED
    BY <1>5, <2>1, SumType
<1>9. f[c] \in Int /\ g[c] \in Int /\ h[c] = f[c] + g[c]
  BY <1>3, <1>5
<1> QED
  BY <1>3, <1>6, <1>7, <1>8, <1>9

\* A part of a sum of natural numbers is no larger than the whole.
THEOREM SumPart ==
  ASSUME NEW S, IsFiniteSet(S), NEW f, \A x \in S : f[x] \in Nat, NEW T \in SUBSET S
  PROVE  SumFunctionOnSet(f, T) <= SumFunctionOnSet(f, S)
<1> DEFINE g == [x \in S |-> IF x \in T THEN f[x] ELSE 0]
           h == [x \in S |-> IF x \in T THEN 0 ELSE f[x]]
<1>1. IsFiniteSet(T) /\ \A x \in T : f[x] = g[x]
  BY FS_Subset
<1>2. SumFunctionOnSet(f, T) = SumFunctionOnSet(g, T)
  BY <1>1, SumEqual
<1>3. \A x \in S : g[x] \in Nat /\ h[x] \in Nat /\ f[x] = g[x] + h[x]
  OBVIOUS
<1>4. \A x \in S \ T : g[x] = 0
  OBVIOUS
<1> HIDE DEF g, h
<1>5. SumFunctionOnSet(f, S) = SumFunctionOnSet(g, S) + SumFunctionOnSet(h, S)
  BY <1>3, SumPlus
<1>6. SumFunctionOnSet(g, S) \in Nat /\ SumFunctionOnSet(h, S) \in Nat
  BY <1>3, SumNat
<1>7. SumFunctionOnSet(g, S) = SumFunctionOnSet(g, T)
  <2> DEFINE E == {s \in SUBSET S : T \subseteq s
                                    /\ SumFunctionOnSet(g, s) # SumFunctionOnSet(g, T)}
  <2> SUFFICES ASSUME E # {} PROVE FALSE
    OBVIOUS
  <2>1. E \subseteq SUBSET S
    OBVIOUS
  <2>2. PICK u \in E : \A v \in E : v \subseteq u => v = u
    <3> HIDE DEF E
    <3> QED
      BY <2>1, SmallestSet
  <2>3. /\ u \in SUBSET S /\ T \subseteq u /\ IsFiniteSet(u)
        /\ SumFunctionOnSet(g, u) # SumFunctionOnSet(g, T)
    BY FS_Subset
  <2>4. PICK c \in u : c \notin T
    BY <2>3
  <2> DEFINE t == u \ {c}
  <2>5. t \in SUBSET S /\ T \subseteq t /\ t \subseteq u /\ t # u /\ IsFiniteSet(t)
    BY <2>3, <2>4, FS_Subset
  <2>6. SumFunctionOnSet(g, t) = SumFunctionOnSet(g, T)
    BY <2>2, <2>5
  <2>7. SumFunctionOnSet(g, u) = g[c] + SumFunctionOnSet(g, t)
    BY <1>3, <2>3, SumRemove
  <2>8. SumFunctionOnSet(g, t) \in Int /\ g[c] = 0
    <3>1. \A x \in t : g[x] \in Int
      BY <1>3, <2>5
    <3>2. g[c] = 0
      BY <1>4, <2>3, <2>4
    <3> HIDE DEF t
    <3> QED
      BY <2>5, <3>1, <3>2, SumType
  <2> HIDE DEF t
  <2> QED
    BY <2>3, <2>6, <2>7, <2>8
<1> QED
  BY <1>2, <1>5, <1>6, <1>7

-----------------------------------------------------------------------------
\* A finite set that is strictly ordered has an element none other follows.
LEMMA TopElement ==
  ASSUME NEW S, IsFiniteSet(S), S # {}, NEW R,
         \A x \in S : <<x, x>> \notin R,
         \A x, y, z \in S : <<x, y>> \in R /\ <<y, z>> \in R => <<x, z>> \in R
  PROVE  \E m \in S : \A x \in S : <<m, x>> \notin R
<1> DEFINE Above(x) == {y \in S : <<x, y>> \in R}
           F == {Above(x) : x \in S}
<1>0. \A x \in S : Above(x) \in SUBSET S /\ Above(x) \in F
  OBVIOUS
<1>1. F \subseteq SUBSET S /\ F # {}
  <2>1. \A v \in F : \E x \in S : v = Above(x)
    OBVIOUS
  <2> HIDE DEF F, Above
  <2> QED
    BY <1>0, <2>1
<1>2. PICK u \in F : \A v \in F : v \subseteq u => v = u
  <2> HIDE DEF F
  <2> QED
    BY <1>1, SmallestSet
<1>3. PICK m \in S : u = Above(m)
  BY <1>2
<1>4. ASSUME NEW y \in S, <<m, y>> \in R PROVE FALSE
  <2>1. Above(y) \subseteq Above(m)
    BY <1>3, <1>4
  <2>2. Above(y) = Above(m)
    <3> HIDE DEF Above, F
    <3> QED
      BY <1>0, <1>2, <1>3, <2>1
  <2>3. y \in Above(m)
    BY <1>4
  <2>4. y \notin Above(y)
    OBVIOUS
  <2> QED
    BY <2>2, <2>3, <2>4
<1> QED
  BY <1>3, <1>4

\* Filling an amount q from a strictly ordered set, each element x giving what
\* it has, w[x], as far as the ones before it did not suffice,
TakenInTurn(S, R, w, q, take) ==
  /\ \A x \in S : <<x, x>> \notin R
  /\ \A x, y, z \in S : <<x, y>> \in R /\ <<y, z>> \in R => <<x, z>> \in R
  /\ \A x, y \in S : x = y \/ <<x, y>> \in R \/ <<y, x>> \in R
  /\ \A x \in S :
       LET before == SumFunctionOnSet(w, {k \in S : <<k, x>> \in R})
       IN  take[x] = IF q <= before THEN 0
                     ELSE IF w[x] <= q - before THEN w[x] ELSE q - before

\* takes the whole amount, or everything there is.
THEOREM Waterfall ==
  ASSUME NEW S, IsFiniteSet(S), NEW R, NEW w \in [S -> Nat], NEW q \in Nat, NEW take,
         TakenInTurn(S, R, w, q, take)
  PROVE  SumFunctionOnSet(take, S)
           = IF q <= SumFunctionOnSet(w, S) THEN q ELSE SumFunctionOnSet(w, S)
<1> USE DEF TakenInTurn
<1> DEFINE Closed(s) == \A x \in s, k \in S : <<k, x>> \in R => k \in s
           Holds(s) == SumFunctionOnSet(take, s)
                         = IF q <= SumFunctionOnSet(w, s) THEN q ELSE SumFunctionOnSet(w, s)
           F == {s \in SUBSET S : Closed(s) /\ ~Holds(s)}
<1> SUFFICES ASSUME F # {} PROVE FALSE
  <2>1. S \in SUBSET S /\ Closed(S)
    OBVIOUS
  <2> QED
    BY <2>1
<1>1. F \subseteq SUBSET S /\ \A s \in SUBSET S : s \in F <=> Closed(s) /\ ~Holds(s)
  OBVIOUS
<1> HIDE DEF F
<1>2. PICK u \in F : \A v \in F : v \subseteq u => v = u
  BY <1>1, SmallestSet
<1>3. u \in SUBSET S /\ Closed(u) /\ ~Holds(u) /\ IsFiniteSet(u)
  BY <1>1, <1>2, FS_Subset
<1>4. u # {}
  BY <1>3, SumEmpty
<1>5. PICK m \in u : \A x \in u : <<m, x>> \notin R
  <2>1. \A x \in u : <<x, x>> \notin R
    BY <1>3
  <2>2. \A x, y, z \in u : <<x, y>> \in R /\ <<y, z>> \in R => <<x, z>> \in R
    BY <1>3
  <2> QED
    BY <1>3, <1>4, <2>1, <2>2, TopElement
<1> DEFINE t == u \ {m}
<1>6. t \in SUBSET S /\ t \subseteq u /\ t # u /\ IsFiniteSet(t) /\ m \in S
  BY <1>3, <1>5, FS_Subset
<1>7. Closed(t)
  <2> SUFFICES ASSUME NEW x \in t, NEW k \in S, <<k, x>> \in R PROVE k \in t
    OBVIOUS
  <2>1. k \in u
    BY <1>3
  <2>2. k # m
    BY <1>5
  <2> QED
    BY <2>1, <2>2
<1>8. Holds(t)
  <2>1. t \notin F
    BY <1>2, <1>6
  <2> HIDE DEF t, Holds, Closed
  <2> QED
    BY <1>1, <1>6, <1>7, <2>1
<1>9. {k \in S : <<k, m>> \in R} = t
  <2>1. ASSUME NEW k \in S, <<k, m>> \in R PROVE k \in t
    <3>1. k \in u
      BY <1>3, <1>5, <2>1
    <3>2. k # m
      BY <1>6, <2>1
    <3> QED
      BY <3>1, <3>2
  <2>2. ASSUME NEW k \in t PROVE k \in S /\ <<k, m>> \in R
    BY <1>3, <1>5, <1>6
  <2> QED
    BY <2>1, <2>2
<1> DEFINE W == SumFunctionOnSet(w, t)
           A == SumFunctionOnSet(take, t)
<1>10. take[m] = IF q <= W THEN 0 ELSE IF w[m] <= q - W THEN w[m] ELSE q - W
  BY <1>6, <1>9
<1>11. W \in Nat /\ w[m] \in Nat
  <2>1. \A x \in t : w[x] \in Nat
    BY <1>6
  <2> HIDE DEF t
  <2> QED
    BY <1>6, <2>1, SumNat
<1>12. \A x \in S : take[x] \in Int
  <2> SUFFICES ASSUME NEW x \in S PROVE take[x] \in Int
    OBVIOUS
  <2> DEFINE b == {k \in S : <<k, x>> \in R}
             v == SumFunctionOnSet(w, b)
  <2>1. take[x] = IF q <= v THEN 0 ELSE IF w[x] <= q - v THEN w[x] ELSE q - v
    OBVIOUS
  <2>2. IsFiniteSet(b) /\ \A k \in b : w[k] \in Nat
    BY FS_Subset
  <2>3. v \in Nat
    <3> HIDE DEF b
    <3> QED
      BY <2>2, SumNat
  <2> HIDE DEF v
  <2> QED
    BY <2>1, <2>3
<1>13. SumFunctionOnSet(take, u) = take[m] + A
  <2>1. \A x \in u : take[x] \in Int
    BY <1>3, <1>12
  <2> QED
    BY <1>3, <1>5, <2>1, SumRemove
<1>14. SumFunctionOnSet(w, u) = w[m] + W
  <2>1. \A x \in u : w[x] \in Int
    BY <1>3
  <2> QED
    BY <1>3, <1>5, <2>1, SumRemove
<1>15. A = IF q <= W THEN q ELSE W
  BY <1>8
<1>16. ~(take[m] + A = IF q <= w[m] + W THEN q ELSE w[m] + W)
  BY <1>3, <1>13, <1>14
<1> HIDE DEF W, A
<1> QED
  BY <1>10, <1>11, <1>15, <1>16

-----------------------------------------------------------------------------
\* The same for the sum of a whole function.
LEMMA TotalType ==
  ASSUME NEW S, IsFiniteSet(S), NEW f \in [S -> Int]
  PROVE  SumFunction(f) \in Int
BY SumType DEF SumFunction

LEMMA TotalNat ==
  ASSUME NEW S, IsFiniteSet(S), NEW f \in [S -> Nat]
  PROVE  SumFunction(f) \in Nat /\ \A x \in S : f[x] <= SumFunction(f)
BY SumNat DEF SumFunction

LEMMA TotalZero ==
  ASSUME NEW S, IsFiniteSet(S), NEW f \in [S -> Int], \A x \in S : f[x] = 0
  PROVE  SumFunction(f) = 0
BY SumZero DEF SumFunction

LEMMA TotalUpdate ==
  ASSUME NEW S, IsFiniteSet(S), NEW f \in [S -> Int], NEW g \in [S -> Int], NEW e \in S,
         \A x \in S : x # e => g[x] = f[x]
  PROVE  SumFunction(g) = SumFunction(f) - f[e] + g[e]
BY SumUpdate DEF SumFunction

-----------------------------------------------------------------------------
(* Counting, and lists                                                      *)

\* Counting up to n stays in a set that is closed under counting.
LEMMA CountUp ==
  ASSUME NEW lo \in Nat, NEW n \in Nat, lo <= n, NEW G, lo \in G,
         \A k \in lo .. n : k \in G /\ k < n => k + 1 \in G
  PROVE  \A k \in lo .. n : k \in G
<1> DEFINE Bad == {k \in lo .. n : k \notin G}
<1> SUFFICES ASSUME Bad # {} PROVE FALSE
  OBVIOUS
<1>1. Bad \subseteq Nat /\ \A k : k \in Bad <=> k \in lo .. n /\ k \notin G
  OBVIOUS
<1> HIDE DEF Bad
<1>2. PICK k \in Bad : \A m \in Bad : k <= m
  BY <1>1, SmallestNumber
<1>3. k \in lo .. n /\ k # lo
  BY <1>1, <1>2
<1>4. k - 1 \in lo .. n /\ k - 1 < n /\ k - 1 \notin Bad
  BY <1>1, <1>2, <1>3
<1>5. (k - 1) + 1 \in G
  BY <1>1, <1>4
<1> QED
  BY <1>1, <1>2, <1>3, <1>5

\* A list of anything.
IsList(s) == \E S : s \in Seq(S)

LEMMA AppendAny ==
  ASSUME NEW s, IsList(s), NEW e
  PROVE  /\ IsList(Append(s, e)) /\ Len(s) \in Nat
         /\ DOMAIN s = 1 .. Len(s) /\ DOMAIN Append(s, e) = 1 .. (Len(s) + 1)
         /\ Len(Append(s, e)) = Len(s) + 1
         /\ \A i \in 1 .. Len(s) : Append(s, e)[i] = s[i]
         /\ Append(s, e)[Len(s) + 1] = e
<1>1. PICK S : s \in Seq(S)
  BY DEF IsList
<1> DEFINE T == S \cup {e}
<1>2. s \in Seq(T) /\ e \in T
  BY <1>1
<1> HIDE DEF T
<1>3. /\ Append(s, e) \in Seq(T) /\ Len(Append(s, e)) = Len(s) + 1
      /\ \A i \in 1 .. Len(s) : Append(s, e)[i] = s[i]
      /\ Append(s, e)[Len(s) + 1] = e
  BY <1>2, AppendProperties
<1>4. Len(s) \in Nat /\ DOMAIN s = 1 .. Len(s) /\ DOMAIN Append(s, e) = 1 .. Len(Append(s, e))
  BY <1>2, <1>3
<1> QED
  BY <1>3, <1>4 DEF IsList
=============================================================================
