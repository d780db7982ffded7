------------------------------ MODULE SumFacts ------------------------------
(***************************************************************************)
(* What SumFunction of the community modules computes, whatever the order  *)
(* its CHOOSE takes the arguments in: that a sum over a finite domain does *)
(* not depend on it is shown of a least counterexample, not by induction.  *)
(***************************************************************************)
EXTENDS Integers, FiniteSetsExt, FiniteSetTheorems, TLAPS

LEMMA LeastIs ==   \* a set of numbers has a least one
  ASSUME NEW T, T \subseteq Nat, T # {}
  PROVE  \E x \in T : \A y \in T : x <= y
  <1>1. PICK x \in T : \A y \in T : ~ (<<y, x>> \in OpToRel(<, Nat))
    BY NatLessThanWellFounded, WFMin
  <1>2. \A y \in T : ~(y < x)
    BY <1>1 DEF OpToRel
  <1> QED
    BY <1>2

LEMMA MinIs ==
  ASSUME NEW T, T \subseteq Nat, T # {}
  PROVE  Min(T) \in T
  <1>1. \E x \in T : \A y \in T : x <= y
    BY LeastIs
  <1> QED
    BY <1>1 DEF Min

LEMMA LessOne ==
  ASSUME NEW s, IsFiniteSet(s), NEW x \in s
  PROVE  /\ IsFiniteSet(s \ {x}) /\ Cardinality(s \ {x}) = Cardinality(s) - 1
         /\ Cardinality(s) \in Nat /\ Cardinality(s) >= 1 /\ Cardinality(s \ {x}) \in Nat
  <1>1. IsFiniteSet(s \ {x}) /\ Cardinality(s \ {x}) = Cardinality(s) - 1
    BY FS_RemoveElement
  <1>2. Cardinality(s) \in Nat /\ Cardinality(s \ {x}) \in Nat
    BY <1>1, FS_CardinalityType
  <1> QED
    BY <1>1, <1>2

\* One round of the sum, and what the rounds make of every part of the domain.
Round(f, r, s) == IF s = {} THEN 0 ELSE f[CHOOSE x \in s : TRUE] + r[s \ {CHOOSE x \in s : TRUE}]
Sums(f, r) == \A s \in SUBSET DOMAIN f : r[s] = Round(f, r, s)
Runs(f, r) == r = [s \in SUBSET DOMAIN f |-> Round(f, r, s)]

LEMMA SumIsRun ==
  ASSUME NEW f
  PROVE  SumFunction(f) = (CHOOSE r : Runs(f, r))[DOMAIN f]
  BY DEF SumFunction, SumFunctionOnSet, FoldFunctionOnSet, MapThenFoldSet, Runs, Round

\* The rounds may be carried to the parts of any size, and so to all of them.
UpTo(f, r, n) == \A s \in SUBSET DOMAIN f : Cardinality(s) <= n => r[s] = Round(f, r, s)

LEMMA RoundsReach ==
  ASSUME NEW f, IsFiniteSet(DOMAIN f), NEW n \in Nat
  PROVE  \E r : UpTo(f, r, n)
  <1> DEFINE bad == {m \in Nat : ~\E r : UpTo(f, r, m)}
  <1> SUFFICES ASSUME n \in bad PROVE FALSE
    OBVIOUS
  <1>1. PICK m \in bad : \A k \in bad : m <= k
    BY LeastIs
  <1>2. \A s \in SUBSET DOMAIN f : IsFiniteSet(s) /\ Cardinality(s) \in Nat
    BY FS_Subset, FS_CardinalityType
  <1>3. CASE m = 0
    <2>1. \A s \in SUBSET DOMAIN f : Cardinality(s) <= 0 => s = {}
      BY <1>2, FS_EmptySet
    <2> DEFINE r == [s \in SUBSET DOMAIN f |-> 0]
    <2>2. UpTo(f, r, 0)
      BY <2>1 DEF UpTo, Round
    <2> QED
      BY <1>3, <2>2
  <1>4. CASE m # 0
    <2>1. m - 1 \in Nat /\ m - 1 \notin bad
      BY <1>1, <1>4
    <2>2. PICK r : UpTo(f, r, m - 1)
      BY <2>1
    <2> DEFINE q == [s \in SUBSET DOMAIN f |-> IF Cardinality(s) <= m - 1 THEN r[s] ELSE Round(f, r, s)]
    <2>3. ASSUME NEW s \in SUBSET DOMAIN f, Cardinality(s) <= m
          PROVE  q[s] = Round(f, q, s)
      <3>1. q[s] = Round(f, r, s)
        BY <2>2 DEF UpTo
      <3>2. CASE s = {}
        BY <3>1, <3>2 DEF Round
      <3>3. CASE s # {}
        <4>1. PICK c \in s : c = CHOOSE x \in s : TRUE
          BY <3>3
        <4>2. s \ {c} \in SUBSET DOMAIN f /\ Cardinality(s \ {c}) <= m - 1
          BY <1>2, <2>1, <2>3, LessOne
        <4>3. q[s \ {c}] = r[s \ {c}]
          BY <4>2
        <4> HIDE DEF q
        <4> QED
          BY <3>1, <3>3, <4>1, <4>3 DEF Round
      <3> QED
        BY <3>2, <3>3
    <2>4. UpTo(f, q, m)
      <3> HIDE DEF q
      <3> QED
        BY <2>3 DEF UpTo
    <2> QED
      BY <2>4
  <1> QED
    BY <1>3, <1>4

LEMMA SumIs ==
  ASSUME NEW f, IsFiniteSet(DOMAIN f)
  PROVE  \E r : Sums(f, r) /\ SumFunction(f) = r[DOMAIN f]
  <1>1. Cardinality(DOMAIN f) \in Nat
    BY FS_CardinalityType
  <1>2. PICK r : UpTo(f, r, Cardinality(DOMAIN f))
    BY <1>1, RoundsReach
  <1>3. \A s \in SUBSET DOMAIN f : r[s] = Round(f, r, s)
    <2> TAKE s \in SUBSET DOMAIN f
    <2>1. Cardinality(s) <= Cardinality(DOMAIN f)
      BY FS_Subset
    <2> QED
      BY <1>2, <2>1 DEF UpTo
  <1> DEFINE q == [s \in SUBSET DOMAIN f |-> Round(f, r, s)]
  <1>4. \A s \in SUBSET DOMAIN f : q[s] = r[s]
    BY <1>3
  <1>5. \A s \in SUBSET DOMAIN f : Round(f, q, s) = Round(f, r, s)
    <2> TAKE s \in SUBSET DOMAIN f
    <2>1. CASE s = {}
      BY <2>1 DEF Round
    <2>2. CASE s # {}
      <3>1. s \ {CHOOSE x \in s : TRUE} \in SUBSET DOMAIN f
        OBVIOUS
      <3>2. q[s \ {CHOOSE x \in s : TRUE}] = r[s \ {CHOOSE x \in s : TRUE}]
        BY <1>4, <3>1
      <3> HIDE DEF q
      <3> QED
        BY <2>2, <3>2 DEF Round
    <2> QED
      BY <2>1, <2>2
  <1>6. Runs(f, q)
    <2>1. [s \in SUBSET DOMAIN f |-> Round(f, q, s)] = [s \in SUBSET DOMAIN f |-> Round(f, r, s)]
      <3> HIDE DEF q
      <3> QED
        BY <1>5
    <2> QED
      BY <2>1 DEF Runs
  <1>7. PICK t : t = CHOOSE u : Runs(f, u)
    OBVIOUS
  <1>8. Runs(f, t)
    <2> HIDE DEF q
    <2> QED
      BY <1>6, <1>7
  <1>9. Sums(f, t)
    BY <1>8 DEF Runs, Sums
  <1> QED
    BY <1>7, <1>9, SumIsRun

LEMMA SumsAgree ==   \* the rounds determine what they make of each part
  ASSUME NEW f, IsFiniteSet(DOMAIN f), NEW r, NEW q, Sums(f, r), Sums(f, q),
         NEW s \in SUBSET DOMAIN f
  PROVE  r[s] = q[s]
  <1> DEFINE bad == {n \in Nat : \E t \in SUBSET DOMAIN f : Cardinality(t) = n /\ r[t] # q[t]}
  <1>1. \A t \in SUBSET DOMAIN f : IsFiniteSet(t) /\ Cardinality(t) \in Nat
    BY FS_Subset, FS_CardinalityType
  <1> SUFFICES ASSUME r[s] # q[s] PROVE FALSE
    OBVIOUS
  <1>2. bad # {}
    BY <1>1
  <1>3. PICK n \in bad : \A m \in bad : n <= m
    BY <1>2, LeastIs
  <1>4. PICK t \in SUBSET DOMAIN f : Cardinality(t) = n /\ r[t] # q[t]
    BY <1>3
  <1>5. r[t] = Round(f, r, t) /\ q[t] = Round(f, q, t)
    BY DEF Sums
  <1>6. t # {}
    BY <1>4, <1>5 DEF Round
  <1>7. PICK c \in t : c = CHOOSE x \in t : TRUE
    BY <1>6
  <1>8. t \ {c} \in SUBSET DOMAIN f /\ Cardinality(t \ {c}) \in Nat /\ Cardinality(t \ {c}) < n
    BY <1>1, <1>4, LessOne
  <1>9. r[t \ {c}] = q[t \ {c}]
    BY <1>3, <1>8
  <1> QED
    BY <1>4, <1>5, <1>6, <1>7, <1>9 DEF Round

LEMMA SumsAre ==   \* a part may be summed in any order
  ASSUME NEW D, IsFiniteSet(D), NEW f \in [D -> Int], NEW r, Sums(f, r), NEW s \in SUBSET D
  PROVE  r[s] \in Int /\ \A x \in s : r[s] = f[x] + r[s \ {x}]
  <1> DEFINE Holds(t) == r[t] \in Int /\ \A x \in t : r[t] = f[x] + r[t \ {x}]
             bad == {n \in Nat : \E t \in SUBSET D : Cardinality(t) = n /\ ~Holds(t)}
  <1>1. \A t \in SUBSET D : IsFiniteSet(t) /\ Cardinality(t) \in Nat
    BY FS_Subset, FS_CardinalityType
  <1> SUFFICES ASSUME ~Holds(s) PROVE FALSE
    OBVIOUS
  <1>2. bad # {}
    BY <1>1
  <1>3. PICK n \in bad : \A m \in bad : n <= m
    <2> HIDE DEF bad
    <2>1. bad \subseteq Nat
      BY DEF bad
    <2> QED
      BY <1>2, <2>1, LeastIs
  <1>4. PICK t \in SUBSET D : Cardinality(t) = n /\ ~Holds(t)
    BY <1>3
  <1>5. r[t] = Round(f, r, t)
    BY DEF Sums
  <1>6. CASE t = {}
    BY <1>4, <1>5, <1>6 DEF Round
  <1>7. CASE t # {}
    <2>1. PICK c \in t : c = CHOOSE x \in t : TRUE
      BY <1>7
    <2>2. r[t] = f[c] + r[t \ {c}]
      BY <1>5, <1>7, <2>1 DEF Round
    <2>3. \A u \in SUBSET D : Cardinality(u) < n => Holds(u)
      <3> HIDE DEF Holds
      <3> QED
        BY <1>1, <1>3
    <2>4. \A x \in t : IsFiniteSet(t \ {x}) /\ Cardinality(t \ {x}) < n /\ t \ {x} \in SUBSET D
      BY <1>1, <1>4, LessOne
    <2>5. \A x \in t : Holds(t \ {x})
      <3> HIDE DEF Holds
      <3> QED
        BY <2>3, <2>4
    <2>6. r[t] \in Int
      <3>1. Holds(t \ {c})
        BY <2>1, <2>5
      <3>2. r[t \ {c}] \in Int /\ f[c] \in Int
        BY <2>1, <3>1
      <3> QED
        BY <2>2, <3>2
    <2>7. ASSUME NEW x \in t, x # c PROVE r[t] = f[x] + r[t \ {x}]
      <3>1. Holds(t \ {c}) /\ Holds(t \ {x})
        BY <2>1, <2>5, <2>7
      <3>2. x \in t \ {c} /\ c \in t \ {x}
        BY <2>1, <2>7
      <3>3. PICK u : u = (t \ {x}) \ {c}
        OBVIOUS
      <3>4. u = (t \ {c}) \ {x}
        BY <3>3
      <3>5. r[t \ {c}] = f[x] + r[u]
        BY <3>1, <3>2, <3>4
      <3>6. r[t \ {x}] = f[c] + r[u]
        BY <3>1, <3>2, <3>3
      <3>7. r[u] \in Int
        <4>1. IsFiniteSet(t \ {x}) /\ Cardinality(t \ {x}) < n /\ t \ {x} \in SUBSET D
          BY <2>4, <2>7
        <4>2. Cardinality(u) = Cardinality(t \ {x}) - 1 /\ Cardinality(u) \in Nat
          BY <4>1, <3>2, <3>3, LessOne
        <4>3. u \in SUBSET D
          BY <3>3
        <4>4. Cardinality(u) < n
          BY <1>1, <4>1, <4>2
        <4>5. Holds(u)
          <5> HIDE DEF Holds
          <5> QED
            BY <2>3, <4>3, <4>4
        <4> QED
          BY <4>5
      <3>8. f[x] \in Int /\ f[c] \in Int
        BY <2>1, <2>7
      <3> QED
        BY <2>2, <3>5, <3>6, <3>7, <3>8
    <2> QED
      BY <1>4, <2>2, <2>6, <2>7
  <1> QED
    BY <1>6, <1>7

\* A function without one argument.
Less(f, x) == [y \in DOMAIN f \ {x} |-> f[y]]

LEMMA SumEmpty ==
  ASSUME NEW f, DOMAIN f = {}
  PROVE  SumFunction(f) = 0
  <1>1. PICK r : Sums(f, r) /\ SumFunction(f) = r[DOMAIN f]
    BY SumIs, FS_EmptySet
  <1> QED
    BY <1>1 DEF Sums, Round

LEMMA SumAdd ==
  ASSUME NEW D, IsFiniteSet(D), NEW f \in [D -> Int]
  PROVE  /\ SumFunction(f) \in Int
         /\ \A x \in D : /\ SumFunction(Less(f, x)) \in Int
                         /\ SumFunction(f) = f[x] + SumFunction(Less(f, x))
  <1>1. DOMAIN f = D
    OBVIOUS
  <1>2. PICK r : Sums(f, r) /\ SumFunction(f) = r[D]
    BY <1>1, SumIs
  <1>3. SumFunction(f) \in Int /\ \A x \in D : r[D] = f[x] + r[D \ {x}] /\ r[D \ {x}] \in Int
    BY <1>2, SumsAre
  <1>4. ASSUME NEW x \in D PROVE SumFunction(Less(f, x)) = r[D \ {x}]
    <2>1. PICK g : g = Less(f, x)
      OBVIOUS
    <2>2. DOMAIN g = D \ {x} /\ \A y \in D \ {x} : g[y] = f[y]
      BY <2>1 DEF Less
    <2>3. IsFiniteSet(DOMAIN g)
      BY <2>2, FS_Subset
    <2>4. PICK q : Sums(g, q) /\ SumFunction(g) = q[DOMAIN g]
      BY <2>3, SumIs
    <2>5. Sums(g, r)
      <3> SUFFICES ASSUME NEW s \in SUBSET DOMAIN g PROVE r[s] = Round(g, r, s)
        BY DEF Sums
      <3>1. r[s] = Round(f, r, s)
        BY <1>2, <2>2 DEF Sums
      <3>2. CASE s = {}
        BY <3>1, <3>2 DEF Round
      <3>3. CASE s # {}
        <4>1. PICK c \in s : c = CHOOSE y \in s : TRUE
          BY <3>3
        <4>2. g[c] = f[c]
          BY <2>2
        <4> QED
          BY <3>1, <3>3, <4>1, <4>2 DEF Round
      <3> QED
        BY <3>2, <3>3
    <2>6. q[DOMAIN g] = r[DOMAIN g]
      BY <2>3, <2>4, <2>5, SumsAgree
    <2> QED
      BY <2>1, <2>2, <2>4, <2>6
  <1> QED
    BY <1>2, <1>3, <1>4

LEMMA SumChange ==   \* what the sum of two functions that differ at one argument differs by
  ASSUME NEW D, IsFiniteSet(D), NEW f \in [D -> Int], NEW g \in [D -> Int], NEW x \in D,
         \A y \in D \ {x} : g[y] = f[y]
  PROVE  SumFunction(g) = SumFunction(f) + g[x] - f[x]
  <1>1. Less(f, x) = Less(g, x)
    BY DEF Less
  <1>2. PICK n : n = SumFunction(Less(f, x))
    OBVIOUS
  <1>3. SumFunction(f) = f[x] + n /\ n \in Int /\ SumFunction(g) = g[x] + n
    BY <1>1, <1>2, SumAdd
  <1> QED
    BY <1>3

LEMMA SumExtend ==   \* one argument more
  ASSUME NEW D, IsFiniteSet(D), NEW x, x \notin D, NEW f \in [D -> Int],
         NEW g \in [D \cup {x} -> Int], \A y \in D : g[y] = f[y]
  PROVE  SumFunction(g) = SumFunction(f) + g[x]
  <1>1. Less(g, x) = f
    <2>1. (D \cup {x}) \ {x} = D
      OBVIOUS
    <2>2. DOMAIN g \ {x} = D
      BY <2>1
    <2>3. Less(g, x) = [y \in D |-> g[y]]
      BY <2>2 DEF Less
    <2> QED
      BY <2>3
  <1>2. IsFiniteSet(D \cup {x})
    BY FS_AddElement
  <1>3. SumFunction(f) \in Int
    BY SumAdd
  <1>4. SumFunction(g) = g[x] + SumFunction(Less(g, x))
    BY <1>2, SumAdd
  <1> QED
    BY <1>1, <1>3, <1>4

LEMMA SumSingle ==
  ASSUME NEW q, NEW f \in [{q} -> Int]
  PROVE  SumFunction(f) = f[q]
  <1>1. IsFiniteSet({q})
    BY FS_Singleton
  <1>2. SumFunction(Less(f, q)) = 0
    <2>1. DOMAIN Less(f, q) = {}
      BY DEF Less
    <2> QED
      BY <2>1, SumEmpty
  <1> QED
    BY <1>1, <1>2, SumAdd
=============================================================================
