------------------------------ MODULE SumProofs -----------------------------
(***************************************************************************)
(* What MapThenSumSet of the community modules adds up, for any finite set *)
(* and integers: it is a recursive function, which no prover here can do   *)
(* induction over.  A sum of numbers counts the elements of a set of units *)
(* instead, about which the library's theorems on cardinalities speak; a   *)
(* smallest counterexample shows that the recursion counts the same.       *)
(***************************************************************************)
EXTENDS Integers, FiniteSetsExt, FiniteSetTheorems, WellFoundedInduction, NaturalsInduction, TLAPS

\* What is added up: a function of integers over a set.
Total(f, S) == MapThenSumSet(LAMBDA x : f[x], S)

\* The recursion it stands for.
Body(f, S, it) ==
    [s \in SUBSET S |-> IF s = {} THEN 0 ELSE LET x == CHOOSE x \in s : TRUE IN f[x] + it[s \ {x}]]

\* The units of the elements, when what is added up is not negative, and their number.
Units(f, s) == UNION {{x} \X (1 .. f[x]) : x \in s}
UnitCount(f, s) == Cardinality(Units(f, s))

\* The positive and the negative part, and what both count.
Up(f) == [x \in DOMAIN f |-> IF f[x] > 0 THEN f[x] ELSE 0]
Down(f) == [x \in DOMAIN f |-> IF f[x] < 0 THEN -f[x] ELSE 0]
Net(f, s) == UnitCount(Up(f), s) - UnitCount(Down(f), s)
-----------------------------------------------------------------------------
\* An element has as many units as it counts.
LEMMA UnitsOfOne ==
    ASSUME NEW x, NEW n \in Nat
    PROVE  IsFiniteSet({x} \X (1 .. n)) /\ Cardinality({x} \X (1 .. n)) = n
<1>1. IsFiniteSet(1 .. n) /\ Cardinality(1 .. n) = n
    BY FS_Interval
<1>2. IsFiniteSet({x}) /\ Cardinality({x}) = 1
    BY FS_Singleton
<1> QED
    BY <1>1, <1>2, FS_Product

\* Finitely many elements have finitely many units: a smallest set with infinitely many would
\* have an element, and less it infinitely many still.
LEMMA UnitsFinite ==
    ASSUME NEW S, IsFiniteSet(S), NEW f \in [S -> Nat]
    PROVE  \A s \in SUBSET S : IsFiniteSet(Units(f, s)) /\ UnitCount(f, s) \in Nat
<1> DEFINE Bad == {n \in Nat : \E s \in SUBSET S : Cardinality(s) = n /\ ~IsFiniteSet(Units(f, s))}
<1>1. ASSUME NEW s \in SUBSET S PROVE IsFiniteSet(s) /\ Cardinality(s) \in Nat
    BY FS_Subset, FS_CardinalityType
<1>2. Bad = {}
  <2>1. SUFFICES ASSUME Bad # {} PROVE FALSE
      OBVIOUS
  <2>2. PICK n \in Bad : \A m \in Bad : ~(<<m, n>> \in OpToRel(<, Nat))
      BY <2>1, NatLessThanWellFounded, WFMin
  <2>3. PICK s \in SUBSET S : Cardinality(s) = n /\ ~IsFiniteSet(Units(f, s))
      OBVIOUS
  <2>4. s # {}
    <3>1. Units(f, {}) = {}
        BY DEF Units
    <3> QED
        BY <2>3, <3>1, FS_EmptySet
  <2>5. PICK x \in s : TRUE
      BY <2>4
  <2>6. s \ {x} \in SUBSET S /\ Cardinality(s \ {x}) \in Nat /\ Cardinality(s \ {x}) < n /\ n \in Nat
      BY <1>1, <2>3, <2>5, FS_RemoveElement
  <2>7. IsFiniteSet(Units(f, s \ {x}))
      BY <2>2, <2>6 DEF OpToRel
  <2> DEFINE A == Units(f, s \ {x})
             B == {x} \X (1 .. f[x])
  <2>8. Units(f, s) = A \cup B
      BY <2>5 DEF Units
  <2>9. IsFiniteSet(A) /\ IsFiniteSet(B)
      BY <2>5, <2>7, UnitsOfOne
  <2> HIDE DEF A, B
  <2>10. IsFiniteSet(A \cup B)
      BY <2>9, FS_Union
  <2> QED
      BY <2>3, <2>8, <2>10
<1> QED
    BY <1>1, <1>2, FS_CardinalityType DEF UnitCount

\* The units of a set with an element are those of the others and its own.
LEMMA UnitsSplit ==
    ASSUME NEW S, IsFiniteSet(S), NEW f \in [S -> Nat], NEW s \in SUBSET S, NEW x \in s
    PROVE  UnitCount(f, s) = f[x] + UnitCount(f, s \ {x})
<1> DEFINE A == Units(f, s \ {x})
           B == {x} \X (1 .. f[x])
<1>1. Units(f, s) = A \cup B
    BY DEF Units
<1>2. A \cap B = {}
    BY DEF Units
<1>3. IsFiniteSet(B) /\ Cardinality(B) = f[x] /\ f[x] \in Nat
    BY UnitsOfOne
<1>4. IsFiniteSet(A) /\ Cardinality(A) \in Nat /\ UnitCount(f, s \ {x}) = Cardinality(A)
    BY UnitsFinite DEF UnitCount
<1> HIDE DEF A, B
<1>5. Cardinality(A \cup B) = Cardinality(A) + Cardinality(B) - Cardinality(A \cap B)
    BY <1>3, <1>4, FS_Union
<1>6. Cardinality({}) = 0
    BY FS_EmptySet
<1>7. Cardinality(A \cup B) = Cardinality(A) + Cardinality(B) - 0
    BY <1>2, <1>5, <1>6
<1> QED
    BY <1>1, <1>3, <1>4, <1>7 DEF UnitCount

\* What both parts count satisfies the recursion.
LEMMA NetSplit ==
    ASSUME NEW S, IsFiniteSet(S), NEW f \in [S -> Int], NEW s \in SUBSET S
    PROVE  /\ Net(f, s) \in Int
           /\ s = {} => Net(f, s) = 0
           /\ \A x \in s : Net(f, s) = f[x] + Net(f, s \ {x})
<1>1. Up(f) \in [S -> Nat] /\ Down(f) \in [S -> Nat]
    BY DEF Up, Down
<1>2. \A x \in s : f[x] = Up(f)[x] - Down(f)[x]
    BY DEF Up, Down
<1> DEFINE U(t) == UnitCount(Up(f), t)
           D(t) == UnitCount(Down(f), t)
<1>3. \A t \in SUBSET S : U(t) \in Nat /\ D(t) \in Nat
    BY <1>1, UnitsFinite
<1>4. ASSUME NEW x \in s
      PROVE  U(s) = Up(f)[x] + U(s \ {x}) /\ D(s) = Down(f)[x] + D(s \ {x})
    BY <1>1, UnitsSplit
<1>5. \A x \in s : Up(f)[x] \in Nat /\ Down(f)[x] \in Nat /\ s \ {x} \in SUBSET S
    BY <1>1
<1>6. U({}) = 0 /\ D({}) = 0
  <2>1. Units(Up(f), {}) = {} /\ Units(Down(f), {}) = {}
      BY DEF Units
  <2> QED
      BY <2>1, FS_EmptySet DEF UnitCount
<1>7. \A t : Net(f, t) = U(t) - D(t)
    BY DEF Net
<1> HIDE DEF U, D
<1>8. ASSUME NEW x \in s PROVE Net(f, s) = f[x] + Net(f, s \ {x})
  <2>1. U(s \ {x}) \in Nat /\ D(s \ {x}) \in Nat
      BY <1>3, <1>5
  <2> QED
      BY <1>2, <1>4, <1>5, <1>7, <2>1
<1>9. U(s) \in Nat /\ D(s) \in Nat
    BY <1>3
<1>10. Net(f, s) \in Int
    BY <1>7, <1>9
<1>11. s = {} => Net(f, s) = 0
    BY <1>6, <1>7
<1> QED
    BY <1>8, <1>10, <1>11

\* The recursion has a solution, and only one.
LEMMA BodyHasNet ==
    ASSUME NEW S, IsFiniteSet(S), NEW f \in [S -> Int]
    PROVE  \E it : it = Body(f, S, it)
<1> DEFINE g == [s \in SUBSET S |-> Net(f, s)]
<1>1. ASSUME NEW s \in SUBSET S
      PROVE  g[s] = IF s = {} THEN 0 ELSE LET x == CHOOSE x \in s : TRUE IN f[x] + g[s \ {x}]
  <2>1. CASE s = {}
      BY <2>1, NetSplit
  <2>2. CASE s # {}
    <3> DEFINE x == CHOOSE x \in s : TRUE
    <3>1. x \in s
        BY <2>2
    <3> HIDE DEF x
    <3>2. s \ {x} \in SUBSET S
        OBVIOUS
    <3>3. g[s] = f[x] + g[s \ {x}]
        BY <3>1, <3>2, NetSplit
    <3> QED
        BY <2>2, <3>3 DEF x
  <2> QED
      BY <2>1, <2>2
<1>2. g = [s \in SUBSET S |-> g[s]]
    OBVIOUS
<1> HIDE DEF g
<1>3. g = Body(f, S, g)
    BY <1>1, <1>2 DEF Body
<1> QED
    BY <1>3

\* Whatever satisfies the recursion counts units.
LEMMA BodyIsNet ==
    ASSUME NEW S, IsFiniteSet(S), NEW f \in [S -> Int], NEW it, it = Body(f, S, it)
    PROVE  \A s \in SUBSET S : it[s] = Net(f, s)
<1> DEFINE Bad == {n \in Nat : \E s \in SUBSET S : Cardinality(s) = n /\ it[s] # Net(f, s)}
<1>1. ASSUME NEW s \in SUBSET S PROVE IsFiniteSet(s) /\ Cardinality(s) \in Nat
    BY FS_Subset, FS_CardinalityType
<1>2. Bad = {}
  <2>1. SUFFICES ASSUME Bad # {} PROVE FALSE
      OBVIOUS
  <2>2. PICK n \in Bad : \A m \in Bad : ~(<<m, n>> \in OpToRel(<, Nat))
      BY <2>1, NatLessThanWellFounded, WFMin
  <2>3. PICK s \in SUBSET S : Cardinality(s) = n /\ it[s] # Net(f, s)
      OBVIOUS
  <2>4. it[s] = IF s = {} THEN 0 ELSE LET x == CHOOSE x \in s : TRUE IN f[x] + it[s \ {x}]
      BY DEF Body
  <2>5. CASE s = {}
      BY <2>3, <2>4, <2>5, NetSplit
  <2>6. CASE s # {}
    <3> DEFINE x == CHOOSE x \in s : TRUE
    <3>1. x \in s
        BY <2>6
    <3>2. it[s] = f[x] + it[s \ {x}]
        BY <2>4, <2>6
    <3> HIDE DEF x
    <3>3. s \ {x} \in SUBSET S /\ Cardinality(s \ {x}) \in Nat /\ Cardinality(s \ {x}) < n /\ n \in Nat
        BY <1>1, <2>3, <3>1, FS_RemoveElement
    <3>4. it[s \ {x}] = Net(f, s \ {x})
        BY <2>2, <3>3 DEF OpToRel
    <3> QED
        BY <2>3, <3>1, <3>2, <3>4, NetSplit
  <2> QED
      BY <2>5, <2>6
<1> QED
    BY <1>1, <1>2

\* So a total is what both parts count, an integer.
LEMMA TotalIsNet ==
    ASSUME NEW S, IsFiniteSet(S), NEW f \in [S -> Int]
    PROVE  Total(f, S) = Net(f, S) /\ Total(f, S) \in Int
<1> DEFINE it == CHOOSE it : it = Body(f, S, it)
<1>1. Total(f, S) = it[S]
    BY DEF Total, MapThenSumSet, MapThenFoldSet, Body
<1>2. it = Body(f, S, it)
    BY BodyHasNet
<1> HIDE DEF it
<1> QED
    BY <1>1, <1>2, BodyIsNet, NetSplit

\* It changes by what one element changes, and stays when none does.
LEMMA TotalChanges ==
    ASSUME NEW S, IsFiniteSet(S), NEW f \in [S -> Int], NEW g \in [S -> Int], NEW x \in S,
           \A y \in S \ {x} : g[y] = f[y]
    PROVE  Total(g, S) = Total(f, S) + g[x] - f[x]
<1>1. /\ Units(Up(g), S \ {x}) = Units(Up(f), S \ {x})
      /\ Units(Down(g), S \ {x}) = Units(Down(f), S \ {x})
    BY DEF Units, Up, Down
<1>2. Net(g, S \ {x}) = Net(f, S \ {x})
    BY <1>1 DEF UnitCount, Net
<1>3. f[x] \in Int /\ g[x] \in Int /\ Net(f, S \ {x}) \in Int
    BY NetSplit
<1>4. Total(f, S) = f[x] + Net(f, S \ {x}) /\ Total(g, S) = g[x] + Net(g, S \ {x})
    BY NetSplit, TotalIsNet
<1> QED
    BY <1>2, <1>3, <1>4

\* A total is that of the function on the set alone.
LEMMA TotalRestricted ==
    ASSUME NEW T, NEW f \in [T -> Int], NEW S \in SUBSET T, IsFiniteSet(S),
           NEW g, g = [x \in S |-> f[x]]
    PROVE  Total(f, S) = Total(g, S)
<1> DEFINE it == CHOOSE it : it = Body(f, S, it)
<1>1. g \in [S -> Int]
    OBVIOUS
<1>2. Total(f, S) = it[S]
    BY DEF Total, MapThenSumSet, MapThenFoldSet, Body
<1>3. \A h : Body(f, S, h) = Body(g, S, h)
  <2>1. SUFFICES ASSUME NEW h, NEW s \in SUBSET S
        PROVE  (IF s = {} THEN 0 ELSE LET x == CHOOSE x \in s : TRUE IN f[x] + h[s \ {x}])
               = IF s = {} THEN 0 ELSE LET x == CHOOSE x \in s : TRUE IN g[x] + h[s \ {x}]
      BY DEF Body
  <2>2. CASE s # {}
    <3> DEFINE x == CHOOSE x \in s : TRUE
    <3>1. x \in S
        BY <2>2
    <3>2. f[x] = g[x]
        BY <3>1
    <3> QED
        BY <2>2, <3>2
  <2> QED
      BY <2>2
<1>4. PICK h : h = Body(g, S, h)
    BY <1>1, BodyHasNet
<1>5. \E k : k = Body(f, S, k)
    BY <1>3, <1>4
<1>6. it = Body(f, S, it)
    BY <1>5
<1> HIDE DEF it
<1>7. it = Body(g, S, it)
    BY <1>3, <1>6
<1> QED
    BY <1>1, <1>2, <1>7, BodyIsNet, TotalIsNet

\* It grows with what is added up.
LEMMA TotalGrows ==
    ASSUME NEW S, IsFiniteSet(S), NEW f \in [S -> Int], NEW g \in [S -> Int], \A x \in S : f[x] <= g[x]
    PROVE  Total(f, S) <= Total(g, S)
<1>1. Up(f) \in [S -> Nat] /\ Down(f) \in [S -> Nat] /\ Up(g) \in [S -> Nat] /\ Down(g) \in [S -> Nat]
    BY DEF Up, Down
<1>2. \A x \in S : Up(f)[x] <= Up(g)[x] /\ Down(g)[x] <= Down(f)[x]
    BY DEF Up, Down
<1>3. Units(Up(f), S) \subseteq Units(Up(g), S) /\ Units(Down(g), S) \subseteq Units(Down(f), S)
  <2>1. \A x \in S : {x} \X (1 .. Up(f)[x]) \subseteq {x} \X (1 .. Up(g)[x])
      BY <1>1, <1>2
  <2>2. \A x \in S : {x} \X (1 .. Down(g)[x]) \subseteq {x} \X (1 .. Down(f)[x])
      BY <1>1, <1>2
  <2> QED
      BY <2>1, <2>2 DEF Units
<1>4. UnitCount(Up(f), S) <= UnitCount(Up(g), S) /\ UnitCount(Down(g), S) <= UnitCount(Down(f), S)
    BY <1>1, <1>3, UnitsFinite, FS_Subset DEF UnitCount
<1>5. /\ UnitCount(Up(f), S) \in Nat /\ UnitCount(Up(g), S) \in Nat
      /\ UnitCount(Down(f), S) \in Nat /\ UnitCount(Down(g), S) \in Nat
    BY <1>1, UnitsFinite
<1>6. Net(f, S) <= Net(g, S)
    BY <1>4, <1>5 DEF Net
<1> QED
    BY <1>6, TotalIsNet

\* The same number for every element is added up so many times.
LEMMA TotalOfSame ==
    ASSUME NEW S, IsFiniteSet(S), NEW n \in Nat, NEW f, f = [x \in S |-> n]
    PROVE  Cardinality(S) \in Nat /\ Total(f, S) = n * Cardinality(S)
<1>1. f \in [S -> Int]
    OBVIOUS
<1>2. Units(Up(f), S) = S \X (1 .. n) /\ Units(Down(f), S) = {}
    BY DEF Units, Up, Down
<1>3. Cardinality(S) \in Nat /\ IsFiniteSet(1 .. n) /\ Cardinality(1 .. n) = n
  <2>1. IsFiniteSet(1 .. n) /\ Cardinality(1 .. n) = n
      BY FS_Interval
  <2> QED
      BY <2>1, FS_CardinalityType
<1>4. Cardinality(S \X (1 .. n)) = Cardinality(S) * n
    BY <1>3, FS_Product
<1>5. Cardinality({}) = 0 /\ Cardinality(S) * n \in Nat
    BY <1>3, FS_EmptySet
<1>6. Net(f, S) = Cardinality(S) * n
  <2>1. UnitCount(Up(f), S) = Cardinality(S) * n /\ UnitCount(Down(f), S) = 0
      BY <1>2, <1>4, <1>5 DEF UnitCount
  <2> QED
      BY <1>5, <2>1 DEF Net
<1> QED
    BY <1>1, <1>3, <1>6, TotalIsNet

\* A total is between the number of the elements and so many times that.
LEMMA TotalBounds ==
    ASSUME NEW S, IsFiniteSet(S), NEW k \in Nat, NEW f \in [S -> 1 .. k]
    PROVE  Cardinality(S) \in Nat /\ Total(f, S) \in Cardinality(S) .. k * Cardinality(S)
<1>1. f \in [S -> Int] /\ f \in [S -> Nat] /\ Up(f) = f
    BY DEF Up
<1>2. Units(Down(f), S) = {}
  <2>1. \A x \in S : Down(f)[x] = 0
      BY DEF Down
  <2>2. \A x \in S : {x} \X (1 .. Down(f)[x]) = {}
      BY <2>1
  <2> QED
      BY <2>2 DEF Units
<1>3. IsFiniteSet(Units(f, S)) /\ Cardinality(Units(f, S)) \in Nat
    BY <1>1, UnitsFinite DEF UnitCount
<1>4. Total(f, S) = Cardinality(Units(f, S))
    BY <1>1, <1>2, <1>3, TotalIsNet, FS_EmptySet DEF Net, UnitCount
<1>5. IsFiniteSet(S \X (1 .. k)) /\ Cardinality(S \X (1 .. k)) = Cardinality(S) * k
  <2>1. IsFiniteSet(1 .. k) /\ Cardinality(1 .. k) = k
      BY FS_Interval
  <2> QED
      BY <2>1, FS_Product
<1>6. Units(f, S) \subseteq S \X (1 .. k)
    BY DEF Units
<1>7. Cardinality(Units(f, S)) <= Cardinality(S) * k
    BY <1>5, <1>6, FS_Subset
<1> DEFINE first == [x \in S |-> <<x, 1>>]
<1>8. first \in Injection(S, Units(f, S))
    BY DEF Units, Injection, IsInjective
<1>9. Cardinality(S) <= Cardinality(Units(f, S))
    BY <1>3, <1>8, FS_Injection
<1>10. Cardinality(S) \in Nat
    BY FS_CardinalityType
<1> QED
    BY <1>3, <1>4, <1>7, <1>9, <1>10
=============================================================================
