----------------------------- MODULE SumProofs -----------------------------
(***************************************************************************)
(* What SumFunctionOnSet of Functions returns, for any finite set and       *)
(* integer values: the ledger, the commission logs and a host's week are    *)
(* sums, and their proofs cite these lemmas.  SumFunctionOnSet chooses a     *)
(* function that sums up every subset; SumExists shows that there is one,   *)
(* SumUnique that there is one only.                                        *)
(***************************************************************************)
EXTENDS Functions, Integers, FiniteSets, FiniteSetTheorems, TLAPS

\* Induction over the naturals, for a set: what holds 0 and the successor of
\* each number it holds, holds them all.
LEMMA Induction ==
  ASSUME NEW S, 0 \in S, \A n \in Nat : n \in S => n + 1 \in S
  PROVE  \A n \in Nat : n \in S
<1> DEFINE R == {x \in Nat \X Nat : x[1] < x[2]}
           T == Nat \ S
<1>1. IsWellFoundedOn(R, Nat)
  BY NatLessThanWellFounded DEF OpToRel
<1>2. \A x, y \in Nat : <<x, y>> \in R <=> x < y
  OBVIOUS
<1>3. ASSUME T # {} PROVE FALSE
  <2> HIDE DEF R
  <2>1. PICK x \in T : \A y \in T : ~(<<y, x>> \in R)
    BY <1>1, <1>3, WFMin
  <2>2. x # 0 /\ x \in Nat
    BY <2>1
  <2>3. x - 1 \in Nat /\ x - 1 + 1 = x /\ x - 1 < x
    BY <2>2
  <2>4. x - 1 \in T
    BY <2>1, <2>3
  <2> QED BY <1>2, <2>1, <2>2, <2>3, <2>4
<1> QED BY <1>3

-----------------------------------------------------------------------------
\* The element a sum over s takes first.
Any(s) == CHOOSE x \in s : TRUE
Body(f, h, s) == IF s = {} THEN 0 ELSE f[Any(s)] + h[s \ {Any(s)}]

\* h sums f up over the subsets of S.
SumsUp(f, S, h) == h = [s \in SUBSET S |-> Body(f, h, s)]

\* Without that element a set is smaller by one.
LEMMA Smaller ==
  ASSUME NEW s, IsFiniteSet(s), s # {}
  PROVE  /\ Any(s) \in s /\ IsFiniteSet(s \ {Any(s)})
         /\ Cardinality(s) \in Nat \ {0}
         /\ Cardinality(s \ {Any(s)}) \in Nat
         /\ Cardinality(s) = Cardinality(s \ {Any(s)}) + 1
<1>1. Any(s) \in s
  BY DEF Any
<1>2. /\ IsFiniteSet(s \ {Any(s)})
      /\ Cardinality(s \ {Any(s)}) = Cardinality(s) - 1
  BY <1>1, FS_RemoveElement
<1>3. Cardinality(s) \in Nat /\ Cardinality(s \ {Any(s)}) \in Nat
  BY <1>2, FS_CardinalityType
<1> QED BY <1>1, <1>2, <1>3

\* A function that sums up every subset of a finite set exists.
LEMMA SumExists ==
  ASSUME NEW S, IsFiniteSet(S), NEW f, \A x \in S : f[x] \in Int
  PROVE  \E h \in [SUBSET S -> Int] : SumsUp(f, S, h)
<1> DEFINE Good(n) == \E h \in [SUBSET S -> Int] :
                        \A s \in SUBSET S : Cardinality(s) <= n => h[s] = Body(f, h, s)
           G == {n \in Nat : Good(n)}
<1>1. \A s \in SUBSET S : IsFiniteSet(s) /\ Cardinality(s) \in Nat
                          /\ Cardinality(s) <= Cardinality(S)
  BY FS_Subset, FS_CardinalityType
<1>2. ASSUME NEW h \in [SUBSET S -> Int], NEW s \in SUBSET S
      PROVE  Body(f, h, s) \in Int
  <2>1. CASE s # {}
    <3>1. Any(s) \in S /\ s \ {Any(s)} \in SUBSET S
      BY <1>1, <2>1, Smaller
    <3> QED BY <2>1, <3>1 DEF Body
  <2> QED BY <2>1 DEF Body
<1>3. 0 \in G
  <2>1. [s \in SUBSET S |-> 0] \in [SUBSET S -> Int]
    OBVIOUS
  <2>2. \A s \in SUBSET S : Cardinality(s) <= 0 => s = {}
    BY <1>1, FS_EmptySet
  <2>3. \A s \in SUBSET S : Cardinality(s) <= 0 =>
           [t \in SUBSET S |-> 0][s] = Body(f, [t \in SUBSET S |-> 0], s)
    BY <2>2 DEF Body
  <2> QED BY <2>1, <2>3
<1>4. ASSUME NEW n \in Nat, n \in G PROVE n + 1 \in G
  <2>1. PICK h \in [SUBSET S -> Int] :
           \A s \in SUBSET S : Cardinality(s) <= n => h[s] = Body(f, h, s)
    BY <1>4
  <2> DEFINE g == [s \in SUBSET S |-> IF Cardinality(s) <= n THEN h[s] ELSE Body(f, h, s)]
  <2>2. g \in [SUBSET S -> Int]
    BY <1>2
  <2>3. ASSUME NEW s \in SUBSET S, Cardinality(s) <= n + 1
        PROVE  g[s] = Body(f, h, s) /\ Body(f, g, s) = Body(f, h, s)
    <3>1. g[s] = Body(f, h, s)
      BY <2>1
    <3>2. CASE s # {}
      <4>1. s \ {Any(s)} \in SUBSET S /\ Cardinality(s \ {Any(s)}) <= n
        BY <1>1, <2>3, <3>2, Smaller
      <4>2. g[s \ {Any(s)}] = h[s \ {Any(s)}]
        BY <4>1
      <4> QED BY <3>1, <4>2 DEF Body
    <3> QED BY <3>1, <3>2 DEF Body
  <2> HIDE DEF g
  <2> QED BY <2>2, <2>3
<1>5. Cardinality(S) \in G
  <2> HIDE DEF G
  <2> QED BY <1>1, <1>3, <1>4, Induction
<1>6. PICK h \in [SUBSET S -> Int] : \A s \in SUBSET S : h[s] = Body(f, h, s)
  BY <1>1, <1>5
<1> QED BY <1>6 DEF SumsUp

\* Two such functions, of a set and of a larger one, agree.
LEMMA SumUnique ==
  ASSUME NEW S, IsFiniteSet(S), NEW f,
         NEW T \in SUBSET S, NEW g, SumsUp(f, T, g), NEW h, SumsUp(f, S, h)
  PROVE  \A s \in SUBSET T : g[s] = h[s]
<1> DEFINE G == {n \in Nat : \A s \in SUBSET T : Cardinality(s) = n => g[s] = h[s]}
<1>1. \A s \in SUBSET T : IsFiniteSet(s) /\ Cardinality(s) \in Nat
  BY FS_Subset, FS_CardinalityType
<1>2. \A s \in SUBSET T : g[s] = Body(f, g, s) /\ h[s] = Body(f, h, s)
  BY DEF SumsUp
<1>3. 0 \in G
  <2>1. \A s \in SUBSET T : Cardinality(s) = 0 => s = {}
    BY <1>1, FS_EmptySet
  <2> QED BY <1>2, <2>1 DEF Body
<1>4. ASSUME NEW n \in Nat, n \in G PROVE n + 1 \in G
  <2>1. ASSUME NEW s \in SUBSET T, Cardinality(s) = n + 1
        PROVE  g[s] = h[s]
    <3>1. s # {}
      BY <2>1, FS_EmptySet
    <3>2. s \ {Any(s)} \in SUBSET T /\ Cardinality(s \ {Any(s)}) = n
      BY <1>1, <2>1, <3>1, Smaller
    <3>3. g[s \ {Any(s)}] = h[s \ {Any(s)}]
      BY <1>4, <3>2
    <3> QED BY <1>2, <3>1, <3>3 DEF Body
  <2> QED BY <2>1
<1>5. \A n \in Nat : n \in G
  <2> HIDE DEF G
  <2> QED BY <1>3, <1>4, Induction
<1> QED BY <1>1, <1>5

\* What SumFunctionOnSet returns is a value of such a function.
LEMMA SumIs ==
  ASSUME NEW S, IsFiniteSet(S), NEW f, \A x \in S : f[x] \in Int
  PROVE  \E h : SumsUp(f, S, h) /\ SumFunctionOnSet(f, S) = h[S]
<1> DEFINE h == CHOOSE iter : iter = [s \in SUBSET S |-> IF s = {} THEN 0
                  ELSE LET x == CHOOSE x \in s : TRUE IN f[x] + iter[s \ {x}]]
<1>1. SumFunctionOnSet(f, S) = h[S]
  BY DEF SumFunctionOnSet, FoldFunctionOnSet, MapThenFoldSet
<1>2. PICK g : SumsUp(f, S, g)
  BY SumExists
<1>3. g = [s \in SUBSET S |-> IF s = {} THEN 0
            ELSE LET x == CHOOSE x \in s : TRUE IN f[x] + g[s \ {x}]]
  BY <1>2 DEF SumsUp, Body, Any
<1>4. h = [s \in SUBSET S |-> IF s = {} THEN 0
            ELSE LET x == CHOOSE x \in s : TRUE IN f[x] + h[s \ {x}]]
  BY <1>3
<1> HIDE DEF h
<1>5. SumsUp(f, S, h)
  BY <1>4 DEF SumsUp, Body, Any
<1> QED BY <1>1, <1>5

\* A sum is an integer, and any element can be taken out of it.
LEMMA SumRecursion ==
  ASSUME NEW S, IsFiniteSet(S), NEW f, \A x \in S : f[x] \in Int
  PROVE  /\ SumFunctionOnSet(f, S) \in Int
         /\ S = {} => SumFunctionOnSet(f, S) = 0
         /\ S # {} => SumFunctionOnSet(f, S) = f[Any(S)] + SumFunctionOnSet(f, S \ {Any(S)})
<1>1. PICK h : SumsUp(f, S, h) /\ SumFunctionOnSet(f, S) = h[S]
  BY SumIs
<1>2. PICK g \in [SUBSET S -> Int] : SumsUp(f, S, g)
  BY SumExists
<1>3. \A s \in SUBSET S : h[s] = g[s]
  <2>1. S \in SUBSET S
    OBVIOUS
  <2>2. SumsUp(f, S, h) /\ SumsUp(f, S, g)
    BY <1>1, <1>2
  <2> QED BY <2>1, <2>2, SumUnique
<1>4. h[S] = Body(f, h, S)
  BY <1>1 DEF SumsUp
<1>5. ASSUME S # {}
      PROVE  h[S \ {Any(S)}] = SumFunctionOnSet(f, S \ {Any(S)})
  <2> DEFINE T == S \ {Any(S)}
  <2>1. T \in SUBSET S /\ IsFiniteSet(T) /\ \A x \in T : f[x] \in Int
    BY <1>5, Smaller
  <2> HIDE DEF T
  <2>2. PICK k : SumsUp(f, T, k) /\ SumFunctionOnSet(f, T) = k[T]
    BY <2>1, SumIs
  <2>3. k[T] = h[T]
    BY <1>1, <2>1, <2>2, SumUnique
  <2> QED BY <2>2, <2>3 DEF T
<1>6. h[S] \in Int
  BY <1>2, <1>3
<1> QED BY <1>1, <1>4, <1>5, <1>6 DEF Body

\* Any element can be taken out of a sum, not only the one it takes first.
LEMMA SumWithout ==
  ASSUME NEW S, IsFiniteSet(S), NEW f, \A x \in S : f[x] \in Int, NEW x \in S
  PROVE  SumFunctionOnSet(f, S) = f[x] + SumFunctionOnSet(f, S \ {x})
<1> DEFINE Sum(s) == SumFunctionOnSet(f, s)
           G == {n \in Nat : \A s \in SUBSET S : Cardinality(s) = n =>
                   \A y \in s : Sum(s) = f[y] + Sum(s \ {y})}
<1>1. \A s \in SUBSET S : /\ IsFiniteSet(s) /\ Cardinality(s) \in Nat
                          /\ \A y \in s : f[y] \in Int
  BY FS_Subset, FS_CardinalityType
<1>2. \A s \in SUBSET S : /\ Sum(s) \in Int
                          /\ s # {} => Sum(s) = f[Any(s)] + Sum(s \ {Any(s)})
  BY <1>1, SumRecursion
<1> HIDE DEF Sum
<1>3. 0 \in G
  <2>1. \A s \in SUBSET S : Cardinality(s) = 0 => s = {}
    BY <1>1, FS_EmptySet
  <2> QED BY <2>1
<1>4. ASSUME NEW n \in Nat, n \in G PROVE n + 1 \in G
  <2>1. ASSUME NEW s \in SUBSET S, Cardinality(s) = n + 1, NEW y \in s
        PROVE  Sum(s) = f[y] + Sum(s \ {y})
    <3> DEFINE a == Any(s)
    <3>1. a \in s /\ Cardinality(s \ {a}) = n /\ Sum(s) = f[a] + Sum(s \ {a})
      BY <1>1, <1>2, <2>1, Smaller
    <3> HIDE DEF a
    <3>2. CASE y # a
      <4>1. Cardinality(s \ {y}) = n
        <5>1. IsFiniteSet(s)
          BY <1>1
        <5>2. Cardinality(s \ {y}) = Cardinality(s) - 1
          BY <5>1, FS_RemoveElement
        <5> QED BY <2>1, <5>2
      <4>2. /\ s \ {a} \in SUBSET S /\ y \in s \ {a}
            /\ s \ {y} \in SUBSET S /\ a \in s \ {y}
            /\ (s \ {a}) \ {y} = (s \ {y}) \ {a}
            /\ (s \ {a}) \ {y} \in SUBSET S
        BY <3>1, <3>2
      <4>3. Sum(s \ {a}) = f[y] + Sum((s \ {a}) \ {y})
        BY <1>4, <3>1, <4>2
      <4>4. Sum(s \ {y}) = f[a] + Sum((s \ {y}) \ {a})
        BY <1>4, <4>1, <4>2
      <4>5. f[a] \in Int /\ f[y] \in Int /\ Sum((s \ {a}) \ {y}) \in Int
        BY <1>1, <1>2, <3>1, <4>2
      <4>6. Sum(s) = f[a] + (f[y] + Sum((s \ {a}) \ {y}))
        BY <3>1, <4>3
      <4>7. Sum(s \ {y}) = f[a] + Sum((s \ {a}) \ {y})
        BY <4>2, <4>4
      <4> HIDE <3>1
      <4> QED BY <4>5, <4>6, <4>7
    <3> QED BY <3>1, <3>2
  <2> QED BY <2>1
<1>5. Cardinality(S) \in G
  <2> HIDE DEF G
  <2> QED BY <1>1, <1>3, <1>4, Induction
<1> QED BY <1>5 DEF Sum

\* Adding an element adds its value.
LEMMA SumWith ==
  ASSUME NEW S, IsFiniteSet(S), NEW f, NEW x, x \notin S,
         \A y \in S \cup {x} : f[y] \in Int
  PROVE  SumFunctionOnSet(f, S \cup {x}) = SumFunctionOnSet(f, S) + f[x]
<1>1. IsFiniteSet(S \cup {x}) /\ (S \cup {x}) \ {x} = S
  BY FS_AddElement
<1>2. SumFunctionOnSet(f, S \cup {x}) = f[x] + SumFunctionOnSet(f, S)
  BY <1>1, SumWithout
<1>3. SumFunctionOnSet(f, S) \in Int
  BY SumRecursion
<1> QED BY <1>2, <1>3

\* A sum of naturals is one, and no value of it exceeds it.
LEMMA SumNatural ==
  ASSUME NEW S, IsFiniteSet(S), NEW f, \A x \in S : f[x] \in Nat
  PROVE  /\ SumFunctionOnSet(f, S) \in Nat
         /\ \A x \in S : f[x] <= SumFunctionOnSet(f, S)
<1> DEFINE Sum(s) == SumFunctionOnSet(f, s)
           G == {n \in Nat : \A s \in SUBSET S : Cardinality(s) = n => Sum(s) \in Nat}
<1>1. \A s \in SUBSET S : /\ IsFiniteSet(s) /\ Cardinality(s) \in Nat
                          /\ \A y \in s : f[y] \in Int
  BY FS_Subset, FS_CardinalityType
<1>2. \A s \in SUBSET S, y \in S : y \in s => Sum(s) = f[y] + Sum(s \ {y})
  BY <1>1, SumWithout
<1>3. \A s \in SUBSET S : s = {} => Sum(s) = 0
  BY <1>1, SumRecursion
<1> HIDE DEF Sum
<1>4. 0 \in G
  <2>1. \A s \in SUBSET S : Cardinality(s) = 0 => s = {}
    BY <1>1, FS_EmptySet
  <2> QED BY <1>3, <2>1
<1>5. ASSUME NEW n \in Nat, n \in G PROVE n + 1 \in G
  <2>1. ASSUME NEW s \in SUBSET S, Cardinality(s) = n + 1 PROVE Sum(s) \in Nat
    <3>1. CASE s # {}
      <4>1. /\ Any(s) \in s /\ Any(s) \in S /\ Cardinality(s \ {Any(s)}) = n
            /\ s \ {Any(s)} \in SUBSET S
        BY <1>1, <2>1, <3>1, Smaller
      <4>2. Sum(s) = f[Any(s)] + Sum(s \ {Any(s)}) /\ Sum(s \ {Any(s)}) \in Nat
        BY <1>2, <1>5, <4>1
      <4>3. f[Any(s)] \in Nat
        BY <4>1
      <4> QED BY <4>2, <4>3
    <3> QED BY <1>3, <3>1
  <2> QED BY <2>1
<1>6. \A s \in SUBSET S : Sum(s) \in Nat
  <2>1. \A n \in Nat : n \in G
    <3> HIDE DEF G
    <3> QED BY <1>4, <1>5, Induction
  <2> QED BY <1>1, <2>1
<1>7. ASSUME NEW x \in S PROVE f[x] <= Sum(S)
  <2>1. S \in SUBSET S /\ S \ {x} \in SUBSET S
    OBVIOUS
  <2>2. Sum(S) = f[x] + Sum(S \ {x}) /\ Sum(S \ {x}) \in Nat
    BY <1>2, <1>6, <2>1
  <2>3. f[x] \in Nat
    OBVIOUS
  <2> QED BY <2>2, <2>3
<1> QED BY <1>6, <1>7 DEF Sum

\* The sum depends on the values of the elements only.
LEMMA SumSame ==
  ASSUME NEW S, IsFiniteSet(S), NEW f, NEW g,
         \A x \in S : f[x] \in Int /\ f[x] = g[x]
  PROVE  SumFunctionOnSet(f, S) = SumFunctionOnSet(g, S)
<1>1. PICK h : SumsUp(f, S, h) /\ SumFunctionOnSet(f, S) = h[S]
  BY SumIs
<1>2. PICK k : SumsUp(g, S, k) /\ SumFunctionOnSet(g, S) = k[S]
  BY SumIs
<1>3. SumsUp(g, S, h)
  <2>1. \A s \in SUBSET S : s # {} => Any(s) \in s
    BY DEF Any
  <2>2. \A s \in SUBSET S : Body(f, h, s) = Body(g, h, s)
    BY <2>1 DEF Body
  <2> QED BY <1>1, <2>2 DEF SumsUp
<1>4. h[S] = k[S]
  BY <1>2, <1>3, SumUnique
<1> QED BY <1>1, <1>2, <1>4

\* Where one value changes, the sum changes by as much.
LEMMA SumChange ==
  ASSUME NEW S, IsFiniteSet(S), NEW f, NEW g, NEW x \in S, g[x] \in Int,
         \A y \in S : f[y] \in Int /\ (y # x => g[y] = f[y])
  PROVE  SumFunctionOnSet(g, S) = SumFunctionOnSet(f, S) - f[x] + g[x]
<1>1. IsFiniteSet(S \ {x})
  BY FS_RemoveElement
<1>2. SumFunctionOnSet(f, S \ {x}) = SumFunctionOnSet(g, S \ {x})
  BY <1>1, SumSame
<1>3. SumFunctionOnSet(f, S) = f[x] + SumFunctionOnSet(f, S \ {x})
  BY SumWithout
<1>4. \A y \in S : g[y] \in Int
  OBVIOUS
<1>5. SumFunctionOnSet(g, S) = g[x] + SumFunctionOnSet(g, S \ {x})
  BY <1>4, SumWithout
<1>6. SumFunctionOnSet(f, S \ {x}) \in Int
  BY <1>1, SumRecursion
<1> QED BY <1>2, <1>3, <1>5, <1>6

\* Nothing adds up to nothing.
LEMMA SumZero ==
  ASSUME NEW S, IsFiniteSet(S), NEW f, \A x \in S : f[x] = 0
  PROVE  SumFunctionOnSet(f, S) = 0
<1>1. CASE S = {}
  BY <1>1, SumRecursion
<1> DEFINE G == {n \in Nat : \A s \in SUBSET S : Cardinality(s) = n => SumFunctionOnSet(f, s) = 0}
<1>2. \A s \in SUBSET S : /\ IsFiniteSet(s) /\ Cardinality(s) \in Nat
                          /\ \A y \in s : f[y] \in Int
  BY FS_Subset, FS_CardinalityType
<1>3. 0 \in G
  <2>1. \A s \in SUBSET S : Cardinality(s) = 0 => s = {}
    BY <1>2, FS_EmptySet
  <2> QED BY <1>2, <2>1, SumRecursion
<1>4. ASSUME NEW n \in Nat, n \in G PROVE n + 1 \in G
  <2>1. ASSUME NEW s \in SUBSET S, Cardinality(s) = n + 1
        PROVE  SumFunctionOnSet(f, s) = 0
    <3>1. s # {} /\ IsFiniteSet(s) /\ \A y \in s : f[y] \in Int
      BY <1>2, <2>1, FS_EmptySet
    <3>2. Any(s) \in s /\ Cardinality(s \ {Any(s)}) = n /\ s \ {Any(s)} \in SUBSET S
      BY <1>2, <2>1, <3>1, Smaller
    <3>3. SumFunctionOnSet(f, s) = f[Any(s)] + SumFunctionOnSet(f, s \ {Any(s)})
      BY <3>1, SumRecursion
    <3>4. SumFunctionOnSet(f, s \ {Any(s)}) = 0 /\ f[Any(s)] = 0
      BY <1>4, <3>2
    <3> QED BY <3>3, <3>4
  <2> QED BY <2>1
<1>5. \A n \in Nat : n \in G
  <2> HIDE DEF G
  <2> QED BY <1>3, <1>4, Induction
<1> QED BY <1>2, <1>5

-----------------------------------------------------------------------------
\* What the first n values of f add up to.
Upto(f, n) == SumFunctionOnSet(f, 1..n)

\* One value more.
LEMMA UptoNext ==
  ASSUME NEW n \in Nat, NEW f, \A i \in 1..(n + 1) : f[i] \in Int
  PROVE  Upto(f, n) \in Int /\ Upto(f, n + 1) = Upto(f, n) + f[n + 1]
<1> DEFINE S == 1..(n + 1)
           x == n + 1
<1>1. IsFiniteSet(S) /\ x \in S /\ S \ {x} = 1..n /\ \A i \in S : f[i] \in Int
  BY FS_Interval
<1>2. IsFiniteSet(1..n) /\ \A i \in 1..n : f[i] \in Int
  BY FS_Interval
<1> HIDE DEF S, x
<1>3. SumFunctionOnSet(f, S) = f[x] + SumFunctionOnSet(f, S \ {x})
  BY <1>1, SumWithout
<1>4. SumFunctionOnSet(f, 1..n) \in Int
  BY <1>2, SumRecursion
<1>5. Upto(f, x) = f[x] + Upto(f, n) /\ Upto(f, n) \in Int
  BY <1>1, <1>3, <1>4 DEF Upto, S, x
<1> QED BY <1>1, <1>5 DEF x

\* Nothing is the sum of none.
LEMMA UptoNone == \A f : Upto(f, 0) = 0
<1> SUFFICES ASSUME NEW f PROVE Upto(f, 0) = 0
  OBVIOUS
<1>1. 1..0 = {} /\ IsFiniteSet({})
  BY FS_EmptySet
<1>2. SumFunctionOnSet(f, {}) = 0
  BY <1>1, SumRecursion
<1> QED BY <1>1, <1>2 DEF Upto

\* Naturals add up to more and more.
LEMMA UptoGrows ==
  ASSUME NEW m \in Nat, NEW f, \A i \in 1..m : f[i] \in Nat
  PROVE  \A n \in 0..m : Upto(f, n) \in Nat /\ Upto(f, n) <= Upto(f, m)
<1> DEFINE G == {n \in Nat : n <= m => \A i \in 0..n : /\ Upto(f, i) \in Nat
                                                       /\ Upto(f, i) <= Upto(f, n)}
<1>1. 0 \in G
  BY UptoNone
<1>2. ASSUME NEW n \in Nat, n \in G PROVE n + 1 \in G
  <2> SUFFICES ASSUME n + 1 <= m
               PROVE  \A i \in 0..(n + 1) : /\ Upto(f, i) \in Nat
                                            /\ Upto(f, i) <= Upto(f, n + 1)
    OBVIOUS
  <2>1. \A i \in 1..(n + 1) : f[i] \in Int
    OBVIOUS
  <2>2. Upto(f, n + 1) = Upto(f, n) + f[n + 1]
    BY <2>1, UptoNext
  <2>3. f[n + 1] \in Nat
    OBVIOUS
  <2>4. \A i \in 0..n : Upto(f, i) \in Nat /\ Upto(f, i) <= Upto(f, n)
    BY <1>2
  <2>5. Upto(f, n + 1) \in Nat /\ Upto(f, n) <= Upto(f, n + 1) /\ Upto(f, n) \in Nat
    BY <2>2, <2>3, <2>4
  <2>6. \A i \in 0..(n + 1) : i \in 0..n \/ i = n + 1
    OBVIOUS
  <2> QED BY <2>4, <2>5, <2>6
<1>3. \A n \in Nat : n \in G
  <2> HIDE DEF G
  <2> QED BY <1>1, <1>2, Induction
<1> QED BY <1>3

\* Moved by one, with nothing in front, the same values add up to the same.
LEMMA UptoShift ==
  ASSUME NEW m \in Nat, NEW f, NEW g, \A i \in 1..m : f[i] \in Nat /\ g[i + 1] = f[i],
         g[1] = 0
  PROVE  \A n \in 0..m : Upto(g, n + 1) = Upto(f, n)
<1> DEFINE G == {n \in Nat : n <= m => Upto(g, n + 1) = Upto(f, n)}
<1>0. \A i \in 1..(m + 1) : g[i] \in Nat
  <2>1. \A i \in 1..(m + 1) : i = 1 \/ (i - 1 \in 1..m /\ (i - 1) + 1 = i)
    OBVIOUS
  <2> QED BY <2>1
<1>1. 0 \in G
  <2>1. \A i \in 1..(0 + 1) : g[i] \in Int
    OBVIOUS
  <2>2. Upto(g, 0 + 1) = Upto(g, 0) + g[0 + 1]
    BY <2>1, UptoNext
  <2> QED BY <2>2, UptoNone
<1>2. ASSUME NEW n \in Nat, n \in G PROVE n + 1 \in G
  <2> SUFFICES ASSUME n + 1 <= m
               PROVE  Upto(g, (n + 1) + 1) = Upto(f, n + 1)
    OBVIOUS
  <2>1. /\ \A i \in 1..(n + 1) : f[i] \in Int
        /\ \A i \in 1..((n + 1) + 1) : g[i] \in Int
    BY <1>0
  <2>2. Upto(f, n + 1) = Upto(f, n) + f[n + 1]
    BY <2>1, UptoNext
  <2>3. Upto(g, (n + 1) + 1) = Upto(g, n + 1) + g[(n + 1) + 1]
    <3>1. n + 1 \in Nat
      OBVIOUS
    <3> QED BY <2>1, <3>1, UptoNext
  <2>4. g[(n + 1) + 1] = f[n + 1] /\ Upto(g, n + 1) = Upto(f, n)
    BY <1>2
  <2> QED BY <2>2, <2>3, <2>4
<1>3. \A n \in Nat : n \in G
  <2> HIDE DEF G
  <2> QED BY <1>1, <1>2, Induction
<1> QED BY <1>3

\* One more at the first place is one more in every sum.
LEMMA UptoMore ==
  ASSUME NEW m \in Nat, NEW f, NEW g, \A i \in 1..m : f[i] \in Int /\ g[i] \in Int,
         g[1] = f[1] + 1, \A i \in 2..m : g[i] = f[i]
  PROVE  \A n \in 1..m : Upto(g, n) = Upto(f, n) + 1
<1> SUFFICES ASSUME NEW n \in 1..m PROVE Upto(g, n) = Upto(f, n) + 1
  OBVIOUS
<1> DEFINE S == 1..n
<1>1. IsFiniteSet(S) /\ 1 \in S
  BY FS_Interval
<1>2. g[1] \in Int /\ f[1] \in Int /\ \A i \in S : f[i] \in Int /\ (i # 1 => g[i] = f[i])
  OBVIOUS
<1> HIDE DEF S
<1>3. SumFunctionOnSet(g, S) = SumFunctionOnSet(f, S) - f[1] + g[1]
  BY <1>1, <1>2, SumChange
<1>4. SumFunctionOnSet(f, S) \in Int
  BY <1>1, <1>2, SumRecursion
<1>5. SumFunctionOnSet(g, S) = SumFunctionOnSet(f, S) + 1
  BY <1>2, <1>3, <1>4
<1> QED BY <1>5 DEF S, Upto
=============================================================================
