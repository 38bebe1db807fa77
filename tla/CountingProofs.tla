---------------------------- MODULE CountingProofs ----------------------------
(***************************************************************************)
(* What Counting's sums obey: the laws that invariants about counters need. *)
(***************************************************************************)
EXTENDS Counting, Integers, FiniteSetTheorems, TLAPS

\* One element has as many units as f says.
LEMMA UnitsOfOne ==
    ASSUME NEW x, NEW n \in Nat
    PROVE  IsFiniteSet({x} \X (1 .. n)) /\ Cardinality({x} \X (1 .. n)) = n
  <1>1. IsFiniteSet({x}) /\ Cardinality({x}) = 1
    BY FS_Singleton
  <1>2. IsFiniteSet(1 .. n) /\ Cardinality(1 .. n) = n
    BY FS_Interval
  <1>3. Cardinality({x} \X (1 .. n)) = 1 * n
    BY <1>1, <1>2, FS_Product
  <1>4. QED
    BY <1>1, <1>2, <1>3, FS_Product

\* A finite set of naturals has a sum.
LEMMA TotalType ==
    ASSUME NEW S, IsFiniteSet(S), NEW f \in [S -> Nat]
    PROVE  IsFiniteSet(Units(S, f)) /\ Total(S, f) \in Nat
  <1> DEFINE parts == {{x} \X (1 .. f[x]) : x \in S}
             part == [x \in S |-> {x} \X (1 .. f[x])]
  <1>1. part \in Surjection(S, parts)
    <2>1. part \in [S -> parts] /\ \A T \in parts : \E x \in S : part[x] = T
      OBVIOUS
    <2> HIDE DEF part, parts
    <2>2. QED
      BY <2>1 DEF Surjection
  <1>2. IsFiniteSet(parts)
    BY <1>1, FS_Surjection
  <1>3. \A T \in parts : IsFiniteSet(T)
    <2>1. \A x \in S : f[x] \in Nat
      OBVIOUS
    <2>2. \A x \in S : IsFiniteSet({x} \X (1 .. f[x]))
      BY <2>1, UnitsOfOne
    <2>3. QED
      BY <2>2
  <1>4. IsFiniteSet(UNION parts)
    BY <1>2, <1>3, FS_UNION
  <1>5. QED
    BY <1>4, FS_CardinalityType DEF Units, Total

\* A sum is split at one of its elements.
LEMMA TotalSplit ==
    ASSUME NEW S, IsFiniteSet(S), NEW f \in [S -> Nat], NEW x \in S
    PROVE  /\ Total(S, f) = Cardinality(Units(S \ {x}, f)) + f[x]
           /\ Cardinality(Units(S \ {x}, f)) \in Nat
  <1> DEFINE rest == Units(S \ {x}, f)
             own  == {x} \X (1 .. f[x])
  <1>1. Units(S, f) = rest \cup own /\ rest \cap own = {}
    BY DEF Units
  <1>2. IsFiniteSet(rest)
    BY <1>1, TotalType, FS_Subset
  <1>3. IsFiniteSet(own) /\ Cardinality(own) = f[x]
    BY UnitsOfOne
  <1> HIDE DEF rest, own
  <1>4. Cardinality(rest \cup own) = Cardinality(rest) + Cardinality(own) - Cardinality({})
    BY <1>1, <1>2, <1>3, FS_Union
  <1>5. Cardinality(rest) \in Nat /\ Cardinality({}) = 0
    BY <1>2, FS_CardinalityType, FS_EmptySet
  <1>6. QED
    BY <1>1, <1>3, <1>4, <1>5 DEF Total, rest

\* Changing one term of a sum changes the sum by as much.
LEMMA TotalUpdate ==
    ASSUME NEW S, IsFiniteSet(S), NEW f \in [S -> Nat], NEW g \in [S -> Nat],
           NEW x \in S, \A y \in S : y # x => g[y] = f[y]
    PROVE  /\ Total(S, g) = Total(S, f) - f[x] + g[x]
           /\ Total(S, f) \in Nat /\ Total(S, g) \in Nat
  <1>1. Units(S \ {x}, g) = Units(S \ {x}, f)
    BY DEF Units
  <1>2. f[x] \in Nat /\ g[x] \in Nat
    OBVIOUS
  <1>3. QED
    BY <1>1, <1>2, TotalSplit, TotalType

\* Sums of the same terms are the same.
LEMMA TotalSame ==
    ASSUME NEW S, NEW f, NEW g, \A y \in S : g[y] = f[y]
    PROVE  Total(S, g) = Total(S, f)
  BY DEF Total, Units

\* Nothing adds up to nothing.
LEMMA TotalZero ==
    ASSUME NEW S, NEW f, \A y \in S : f[y] = 0
    PROVE  Total(S, f) = 0
  <1>1. Units(S, f) = {}
    BY DEF Units
  <1>2. QED
    BY <1>1, FS_EmptySet DEF Total

\* A sum whose terms are at most m is at most m for each of its elements.
LEMMA TotalAtMost ==
    ASSUME NEW S, IsFiniteSet(S), NEW f \in [S -> Nat], NEW m \in Nat,
           \A y \in S : f[y] <= m
    PROVE  Total(S, f) <= Cardinality(S) * m
  <1>1. Units(S, f) \subseteq S \X (1 .. m)
    BY DEF Units
  <1>2. IsFiniteSet(1 .. m) /\ Cardinality(1 .. m) = m
    BY FS_Interval
  <1>3. /\ IsFiniteSet(S \X (1 .. m))
        /\ Cardinality(S \X (1 .. m)) = Cardinality(S) * m
    BY <1>2, FS_Product
  <1>4. QED
    BY <1>1, <1>3, FS_Subset DEF Total

\* One term and the others, which are at most m each.
LEMMA TotalBound ==
    ASSUME NEW S, IsFiniteSet(S), NEW f \in [S -> Nat], NEW m \in Nat, NEW x \in S,
           \A y \in S : f[y] <= m
    PROVE  Total(S, f) <= f[x] + (Cardinality(S) - 1) * m
  <1> DEFINE rest == S \ {x}
             g == [y \in rest |-> f[y]]
  <1>1. IsFiniteSet(rest) /\ Cardinality(rest) = Cardinality(S) - 1
    BY FS_RemoveElement
  <1>2. Total(rest, g) <= Cardinality(rest) * m
    <2>1. g \in [rest -> Nat] /\ \A y \in rest : g[y] <= m
      OBVIOUS
    <2> HIDE DEF rest, g
    <2>2. QED
      BY <1>1, <2>1, TotalAtMost
  <1>3. Total(rest, g) = Cardinality(Units(S \ {x}, f))
    <2>1. \A y \in rest : g[y] = f[y]
      OBVIOUS
    <2> HIDE DEF g
    <2>2. Total(rest, g) = Total(rest, f)
      BY <2>1, TotalSame
    <2>3. QED
      BY <2>2 DEF Total
  <1>4. /\ Total(S, f) = Total(rest, g) + f[x]
        /\ Total(rest, g) \in Nat /\ f[x] \in Nat
    BY <1>3, TotalSplit
  <1>5. Total(rest, g) <= (Cardinality(S) - 1) * m
    BY <1>1, <1>2
  <1>6. Cardinality(S) - 1 \in Nat
    <2>1. Cardinality(rest) \in Nat
      BY <1>1, FS_CardinalityType
    <2>2. QED
      BY <1>1, <2>1
  <1> HIDE DEF rest, g
  <1>7. (Cardinality(S) - 1) * m \in Nat
    BY <1>6
  <1>8. QED
    BY <1>4, <1>5, <1>7

\* A term is part of the sum.
LEMMA TermAtMost ==
    ASSUME NEW S, IsFiniteSet(S), NEW f \in [S -> Nat], NEW x \in S
    PROVE  f[x] <= Total(S, f)
  <1>1. /\ Total(S, f) = Cardinality(Units(S \ {x}, f)) + f[x]
        /\ Cardinality(Units(S \ {x}, f)) \in Nat
    BY TotalSplit
  <1>2. QED
    BY <1>1

\* Adding one to the terms of a set adds as many as the set has.
LEMMA TotalPlus ==
    ASSUME NEW S, IsFiniteSet(S), NEW P \in SUBSET S,
           NEW f \in [S -> Nat], NEW g \in [S -> Nat],
           \A y \in S : g[y] = IF y \in P THEN f[y] + 1 ELSE f[y]
    PROVE  Total(S, g) = Total(S, f) + Cardinality(P)
  <1> DEFINE unit == [y \in P |-> <<y, f[y] + 1>>]
             new  == {<<y, f[y] + 1>> : y \in P}
  <1>1. IsFiniteSet(P) /\ IsFiniteSet(Units(S, f))
    BY FS_Subset, TotalType
  <1>2. IsFiniteSet(new) /\ Cardinality(new) = Cardinality(P)
    <2>1. unit \in [P -> new] /\ \A t \in new : \E y \in P : unit[y] = t
      OBVIOUS
    <2>2. \A y, z \in P : unit[y] = unit[z] => y = z
      OBVIOUS
    <2> HIDE DEF unit, new
    <2>3. unit \in Surjection(P, new)
      BY <2>1 DEF Surjection
    <2>4. unit \in Injection(P, new)
      BY <2>1, <2>2 DEF Injection, IsInjective
    <2>5. QED
      BY <1>1, <2>3, <2>4, FS_Surjection
  <1>3. Units(S, g) = Units(S, f) \cup new
    <2>1. ASSUME NEW y \in S
          PROVE  {y} \X (1 .. g[y]) = ({y} \X (1 .. f[y])) \cup (IF y \in P THEN {<<y, f[y] + 1>>} ELSE {})
      <3>1. f[y] \in Nat
        OBVIOUS
      <3>2. 1 .. g[y] = (1 .. f[y]) \cup (IF y \in P THEN {f[y] + 1} ELSE {})
        BY <3>1
      <3>3. QED
        BY <3>2
    <2>2. \A u : u \in Units(S, g) <=> \E y \in S : u \in {y} \X (1 .. g[y])
      BY DEF Units
    <2>3. \A u : u \in Units(S, f) <=> \E y \in S : u \in {y} \X (1 .. f[y])
      BY DEF Units
    <2>4. \A u : u \in new <=> \E y \in S : y \in P /\ u = <<y, f[y] + 1>>
      OBVIOUS
    <2> HIDE DEF new
    <2>5. \A u : u \in Units(S, g) <=> u \in Units(S, f) \/ u \in new
      BY <2>1, <2>2, <2>3, <2>4
    <2>6. QED
      BY <2>5
  <1>4. Units(S, f) \cap new = {}
    <2>1. ASSUME NEW y \in P PROVE <<y, f[y] + 1>> \notin Units(S, f)
      <3>1. f[y] \in Nat
        OBVIOUS
      <3>2. QED
        BY <3>1 DEF Units
    <2>2. QED
      BY <2>1
  <1> HIDE DEF new
  <1>5. Cardinality(Units(S, f) \cup new)
          = Cardinality(Units(S, f)) + Cardinality(new) - Cardinality({})
    BY <1>1, <1>2, <1>4, FS_Union
  <1>6. Cardinality({}) = 0 /\ Cardinality(Units(S, f)) \in Nat /\ Cardinality(P) \in Nat
    BY <1>1, FS_EmptySet, FS_CardinalityType
  <1>7. QED
    BY <1>2, <1>3, <1>5, <1>6 DEF Total

\* Induction over the naturals, for a set: were some m missing, adding one
\* would map what the set has up to m into itself without 0.
LEMMA NatSetInduction ==
    ASSUME NEW S, 0 \in S, \A n \in Nat : n \in S => n + 1 \in S
    PROVE  \A n \in Nat : n \in S
  <1> SUFFICES ASSUME NEW m \in Nat, m \notin S PROVE FALSE
    OBVIOUS
  <1> DEFINE below == {n \in 0 .. m : n \in S}
             up    == [n \in below |-> n + 1]
  <1>1. \A n \in below : n + 1 \in below \ {0}
    OBVIOUS
  <1>2. up \in [below -> below \ {0}] /\ \A a, b \in below : up[a] = up[b] => a = b
    BY <1>1
  <1>3. IsFiniteSet(below) /\ 0 \in below
    <2>1. below \in SUBSET (0 .. m) /\ 0 \in Int /\ m \in Int
      OBVIOUS
    <2>2. IsFiniteSet(0 .. m)
      BY <2>1, FS_Interval
    <2>3. IsFiniteSet(below)
      BY <2>1, <2>2, FS_Subset
    <2>4. QED
      BY <2>3
  <1> HIDE DEF below, up
  <1>4. up \in Injection(below, below \ {0})
    BY <1>2 DEF Injection, IsInjective
  <1>5. IsFiniteSet(below \ {0}) /\ Cardinality(below \ {0}) = Cardinality(below) - 1
    BY <1>3, FS_RemoveElement
  <1>6. Cardinality(below) <= Cardinality(below \ {0})
    BY <1>4, <1>5, FS_Injection
  <1>7. Cardinality(below) \in Nat
    BY <1>3, FS_CardinalityType
  <1>8. QED
    BY <1>5, <1>6, <1>7
===============================================================================
