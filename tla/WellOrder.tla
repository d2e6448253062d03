----------------------------- MODULE WellOrder -----------------------------
(* Facts about sets of naturals that stand in for induction: a set that    *)
(* has a member has a least one, and a count that grows by at most u with  *)
(* each step has at most m * u after m.                                    *)
EXTENDS Integers, FiniteSets, FiniteSetTheorems, WellFoundedInduction, TLAPS

\* A set of naturals that is not empty has a least member: the least, by
\* inclusion, of the intervals its members end.
LEMMA LeastMember ==
  ASSUME NEW S \in SUBSET Nat, S # {}
  PROVE  \E m \in S : \A n \in S : m <= n
<1> DEFINE T == {1 .. n : n \in S}
<1>1. T \subseteq FiniteSubsetsOf(Nat) /\ T # {}
  <2>1. ASSUME NEW n \in S PROVE 1 .. n \in FiniteSubsetsOf(Nat)
    <3>1. IsFiniteSet(1 .. n) /\ 1 .. n \in SUBSET Nat
      BY FS_Interval
    <3> QED BY <3>1 DEF FiniteSubsetsOf
  <2> QED BY <2>1
<1>2. PICK x \in T : \A y \in T : ~ (<<y, x>> \in StrictSubsetOrdering(Nat))
  <2> HIDE DEF T
  <2> QED BY <1>1, WFMin, FS_StrictSubsetOrderingWellFounded
<1>3. PICK m \in S : x = 1 .. m
  OBVIOUS
<1>4. ASSUME NEW n \in S, n < m PROVE FALSE
  <2> DEFINE y == 1 .. n
  <2>1. y \in SUBSET Nat /\ x \in SUBSET Nat /\ y \subseteq x /\ m \in x /\ m \notin y /\ y \in T
    BY <1>3, <1>4
  <2> HIDE DEF y, T
  <2>2. <<y, x>> \in StrictSubsetOrdering(Nat)
    BY <2>1 DEF StrictSubsetOrdering
  <2> QED BY <1>2, <2>1, <2>2
<1> QED BY <1>4

\* Sets that grow, each by at most u members, hold at most m * u after m steps.
LEMMA StepsBound ==
  ASSUME NEW f, NEW top \in Nat, NEW u \in Nat, f[0] = {},
         \A n \in 0 .. top : IsFiniteSet(f[n]),
         \A n \in 1 .. top : Cardinality(f[n]) <= Cardinality(f[n - 1]) + u
  PROVE  Cardinality(f[top]) <= u * top
<1> DEFINE Over == {n \in 0 .. top : ~ (Cardinality(f[n]) <= u * n)}
<1>1. \A n \in 0 .. top : Cardinality(f[n]) \in Nat
  BY FS_CardinalityType
<1>2. SUFFICES ASSUME Over # {} PROVE FALSE
  OBVIOUS
<1>3. PICK m \in Over : \A n \in Over : m <= n
  <2>1. Over \in SUBSET Nat
    OBVIOUS
  <2> HIDE DEF Over
  <2> QED BY <1>2, <2>1, LeastMember
<1>4. m # 0
  <2>1. Cardinality(f[0]) = 0 /\ u * 0 = 0
    BY FS_EmptySet
  <2> QED BY <1>3, <2>1
<1>5. m \in 1 .. top /\ m - 1 \in 0 .. top /\ m - 1 \notin Over
  BY <1>3, <1>4
<1>6. Cardinality(f[m - 1]) <= u * (m - 1) /\ Cardinality(f[m - 1]) \in Nat /\ Cardinality(f[m]) \in Nat
  BY <1>1, <1>5
<1>7. u * (m - 1) + u = u * m /\ u * m \in Nat /\ u * (m - 1) \in Nat
  <2>1. \A x \in Nat : u * (x + 1) = u * x + u /\ u * x \in Nat
    OBVIOUS
  <2>2. m - 1 \in Nat /\ (m - 1) + 1 = m
    BY <1>5
  <2> QED BY <2>1, <2>2
<1>8. Cardinality(f[m]) <= Cardinality(f[m - 1]) + u
  BY <1>5
<1> DEFINE a == Cardinality(f[m - 1])
           b == Cardinality(f[m])
           x == u * (m - 1)
           y == u * m
<1>9. a <= x /\ b <= a + u /\ x + u = y /\ a \in Nat /\ b \in Nat /\ x \in Nat /\ y \in Nat
  BY <1>6, <1>7, <1>8
<1>10. ~ (b <= y)
  BY <1>3
<1> HIDE DEF a, b, x, y, Over
<1> QED BY <1>9, <1>10

-----------------------------------------------------------------------------
(* Counting what comes before.                                             *)

\* In a finite set in a strict total order, where B[x] is what comes before x,
\* the members before each number 0, 1, ... and each number less than the
\* set's size once.
LEMMA Ranked ==
  ASSUME NEW S, IsFiniteSet(S), NEW B,
         \A x \in S : B[x] \subseteq S /\ x \notin B[x],
         \A x, y \in S : x # y => x \in B[y] \/ y \in B[x],
         \A x, y, z \in S : x \in B[y] /\ y \in B[z] => x \in B[z]
  PROVE  /\ Cardinality(S) \in Nat
         /\ \A x \in S : Cardinality(B[x]) \in 0 .. Cardinality(S) - 1
         /\ \A x, z \in S : Cardinality(B[x]) = Cardinality(B[z]) => x = z
         /\ \A k \in 0 .. Cardinality(S) - 1 : \E x \in S : Cardinality(B[x]) = k
<1> DEFINE Below(x) == B[x]
           T == 0 .. Cardinality(S) - 1
<1>1. Cardinality(S) \in Nat
  BY FS_CardinalityType
<1>2. ASSUME NEW x \in S
      PROVE  /\ IsFiniteSet(Below(x)) /\ Cardinality(Below(x)) \in Nat
             /\ Below(x) \subseteq S \ {x}
             /\ Cardinality(Below(x)) \in T
  <2>1. Below(x) \in SUBSET (S \ {x})
    OBVIOUS
  <2>2. IsFiniteSet(S \ {x}) /\ Cardinality(S \ {x}) = Cardinality(S) - 1
    BY FS_RemoveElement
  <2> HIDE DEF Below
  <2>3. IsFiniteSet(Below(x)) /\ Cardinality(Below(x)) <= Cardinality(S) - 1
    BY <2>1, <2>2, FS_Subset
  <2>4. Cardinality(Below(x)) \in Nat
    BY <2>3, FS_CardinalityType
  <2> QED BY <1>1, <2>1, <2>3, <2>4
<1>3. ASSUME NEW x \in S, NEW z \in S, x \in Below(z)
      PROVE  Cardinality(Below(x)) < Cardinality(Below(z))
  <2>1. Below(x) \cup {x} \in SUBSET Below(z) /\ x \notin Below(x)
    BY <1>3
  <2>2. IsFiniteSet(Below(x)) /\ IsFiniteSet(Below(z))
        /\ Cardinality(Below(x)) \in Nat /\ Cardinality(Below(z)) \in Nat
    BY <1>2
  <2> HIDE DEF Below
  <2>3. Cardinality(Below(x) \cup {x}) = Cardinality(Below(x)) + 1
    BY <2>1, <2>2, FS_AddElement
  <2>4. Cardinality(Below(x) \cup {x}) <= Cardinality(Below(z))
    BY <2>1, <2>2, FS_Subset
  <2> QED BY <2>2, <2>3, <2>4
<1>4. ASSUME NEW x \in S, NEW z \in S, Cardinality(Below(x)) = Cardinality(Below(z))
      PROVE  x = z
  <2> SUFFICES ASSUME x # z PROVE FALSE
    OBVIOUS
  <2>1. Cardinality(Below(x)) \in Nat
    BY <1>2
  <2>2. Cardinality(Below(x)) < Cardinality(Below(z)) \/ Cardinality(Below(z)) < Cardinality(Below(x))
    <3>1. x \in Below(z) \/ z \in Below(x)
      OBVIOUS
    <3> HIDE DEF Below
    <3> QED BY <1>3, <3>1
  <2> HIDE DEF Below
  <2> QED BY <1>4, <2>1, <2>2
<1> DEFINE f == [x \in S |-> Cardinality(Below(x))]
<1>5. f \in Injection(S, T)
  <2>1. f \in [S -> T]
    <3> HIDE DEF Below, T
    <3> QED BY <1>2
  <2>2. \A x, z \in S : f[x] = f[z] => x = z
    <3> HIDE DEF Below
    <3> QED BY <1>4
  <2> HIDE DEF f
  <2> QED BY <2>1, <2>2 DEF Injection, IsInjective
<1>6. IsFiniteSet(T) /\ Cardinality(T) = Cardinality(S)
  <2>1. Cardinality(S) - 1 \in Int /\ 0 \in Int
    BY <1>1
  <2>2. /\ IsFiniteSet(0 .. Cardinality(S) - 1)
        /\ Cardinality(0 .. Cardinality(S) - 1) =
             IF 0 > Cardinality(S) - 1 THEN 0 ELSE (Cardinality(S) - 1) - 0 + 1
    BY <2>1, FS_Interval
  <2> QED BY <1>1, <2>2
<1>7. f \in Surjection(S, T)
  <2> HIDE DEF f, T
  <2> QED BY <1>5, <1>6, FS_Injection
<1>8. ASSUME NEW k \in T PROVE \E x \in S : Cardinality(Below(x)) = k
  <2>1. \E x \in S : f[x] = k
    <3> HIDE DEF f, T
    <3> QED BY <1>7, <1>8 DEF Surjection
  <2> HIDE DEF Below, T
  <2> QED BY <2>1
<1> QED BY <1>1, <1>2, <1>4, <1>8

\* In a finite set that has members, in a strict order where B[x] is what
\* comes before x, nothing comes before some member.
LEMMA Foremost ==
  ASSUME NEW S, IsFiniteSet(S), S # {}, NEW B,
         \A x \in S : B[x] \subseteq S /\ x \notin B[x],
         \A x, y \in S : x \in B[y] => B[x] \subseteq B[y]
  PROVE  \E x \in S : B[x] = {}
<1> DEFINE Counts == {Cardinality(B[x]) : x \in S}
<1>1. \A x \in S : IsFiniteSet(B[x]) /\ Cardinality(B[x]) \in Nat
  BY FS_Subset, FS_CardinalityType
<1>2. PICK c \in Counts : \A n \in Counts : c <= n
  <2>1. Counts \in SUBSET Nat /\ Counts # {}
    BY <1>1
  <2> HIDE DEF Counts
  <2> QED BY <2>1, LeastMember
<1>3. PICK x \in S : c = Cardinality(B[x])
  OBVIOUS
<1>4. SUFFICES ASSUME NEW y \in B[x] PROVE FALSE
  BY <1>3
<1>5. y \in S /\ B[y] \subseteq B[x] \ {y}
  BY <1>3
<1>6. /\ IsFiniteSet(B[x] \ {y}) /\ Cardinality(B[x] \ {y}) = Cardinality(B[x]) - 1
  BY <1>1, <1>3, <1>4, FS_RemoveElement
<1>7. Cardinality(B[y]) <= Cardinality(B[x]) - 1
  BY <1>5, <1>6, FS_Subset
<1>8. Cardinality(B[x]) <= Cardinality(B[y])
  BY <1>2, <1>3, <1>5
<1> QED BY <1>1, <1>3, <1>5, <1>7, <1>8

\* A finite set has finitely many images.
LEMMA ImagesFinite ==
  ASSUME NEW S, IsFiniteSet(S), NEW f, DOMAIN f = S, f = [x \in S |-> f[x]]
  PROVE  IsFiniteSet({f[x] : x \in S})
<1> DEFINE T == {f[x] : x \in S}
<1>1. f \in [S -> T] /\ \A t \in T : \E x \in S : f[x] = t
  OBVIOUS
<1>2. f \in Surjection(S, T)
  BY <1>1 DEF Surjection
<1> HIDE DEF T
<1>3. IsFiniteSet(T)
  BY <1>2, FS_Surjection
<1> QED BY <1>3 DEF T
=============================================================================
