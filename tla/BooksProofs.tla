------------------------------ MODULE BooksProofs ------------------------------
(***************************************************************************)
(* The books and their reports, for any payloads, number of rows and       *)
(* number of requests in flight.                                           *)
(*                                                                         *)
(* What an update commits it checked against a row that may have changed   *)
(* since, so the invariant (IInv) says of each request in flight what it   *)
(* holds whatever became of the row: a pair of due date and term that      *)
(* agrees with the issue date (TermsPending), evidence of different        *)
(* invoices named in rows that were read (EvidencePending). The issue date *)
(* and the number of an invoice never change (Kept), which is why what was *)
(* agreed on remains agreed.                                               *)
(*                                                                         *)
(* That the reports agree follows from the shape of the tables alone, and  *)
(* is shown for every state of that shape: what one report counts or sums  *)
(* by classes another counts or sums as a whole. It rests on what a sum    *)
(* over a set is (SumTwo, SumParts, CountParts). A sum is a recursion, and *)
(* what it yields is shown by induction over the subsets of a finite set,  *)
(* as a well-founded order: the set of those for which a fact holds takes  *)
(* the place of a predicate (FiniteInduction).                             *)
(***************************************************************************)
EXTENDS BooksReports, FiniteSetTheorems, SequenceTheorems, WellFoundedInduction, TLAPS

-----------------------------------------------------------------------------
(* Sums *)

\* A set of numbers has a least.
LEMMA LeastNumber ==
  ASSUME NEW T \in SUBSET Nat, T # {}
  PROVE  \E n \in T : \A m \in T : n <= m
  <1>1. PICK n \in T : \A m \in T : <<m, n>> \notin OpToRel(<, Nat)
    BY NatLessThanWellFounded, WFMin
  <1>2. \A m \in T : ~(m < n)
    BY <1>1 DEF OpToRel
  <1> QED BY <1>2

\* Induction over the subsets of a finite set: what holds of a set whenever it
\* holds of its proper subsets, holds.
LEMMA FiniteInduction ==
  ASSUME NEW D, IsFiniteSet(D), NEW Good,
         \A S \in SUBSET D : (\A R \in SUBSET S : R # S => R \in Good) => S \in Good
  PROVE  D \in Good
  <1> DEFINE Bad == (SUBSET D) \ Good
  <1>1. ASSUME Bad # {} PROVE FALSE
    <2>1. Bad \subseteq FiniteSubsetsOf(D)
      BY FS_FiniteSubsetsOfFinite
    <2>2. PICK S \in Bad : \A R \in Bad : <<R, S>> \notin StrictSubsetOrdering(D)
      <3>1. IsWellFoundedOn(StrictSubsetOrdering(D), FiniteSubsetsOf(D))
        BY FS_StrictSubsetOrderingWellFounded
      <3> HIDE DEF Bad
      <3> QED BY ONLY <1>1, <2>1, <3>1, WFMin
    <2>3. \A R \in SUBSET S : R # S => R \in Good
      BY <2>2 DEF StrictSubsetOrdering
    <2> QED BY <2>2, <2>3
  <1> QED BY <1>1

\* The recursion by which a sum goes through a set, on the sets up to a size.
Pick(S) == CHOOSE x \in S : TRUE
Adds(g, f, family) ==
    g = [s \in family |-> IF s = {} THEN 0 ELSE f[Pick(s)] + g[s \ {Pick(s)}]]
UpTo(n, D) == {s \in SUBSET D : Cardinality(s) <= n}

LEMMA Smaller ==
  ASSUME NEW D, IsFiniteSet(D), NEW S \in SUBSET D
  PROVE  /\ IsFiniteSet(S) /\ Cardinality(S) \in Nat
         /\ Cardinality(S) <= 0 <=> S = {}
         /\ \A x \in S : Cardinality(S \ {x}) = Cardinality(S) - 1
         /\ S # {} => Pick(S) \in S
  <1>1. IsFiniteSet(S) /\ Cardinality(S) \in Nat
    BY FS_Subset, FS_CardinalityType
  <1>2. \A x \in S : Cardinality(S \ {x}) = Cardinality(S) - 1
    BY <1>1, FS_RemoveElement
  <1>3. Cardinality(S) <= 0 <=> S = {}
    BY <1>1, FS_EmptySet
  <1>4. S # {} => Pick(S) \in S
    BY DEF Pick
  <1> QED BY <1>1, <1>2, <1>3, <1>4

LEMMA AddsExists ==
  ASSUME NEW f, NEW D, IsFiniteSet(D)
  PROVE  \E g : Adds(g, f, SUBSET D)
  <1> DEFINE Missing == {n \in Nat : \A g : ~Adds(g, f, UpTo(n, D))}
  <1>1. ASSUME Missing # {} PROVE FALSE
    <2>1. PICK n \in Missing : \A m \in Missing : n <= m
      BY <1>1, LeastNumber
    <2>2. CASE n = 0
      <3> DEFINE g == [s \in UpTo(0, D) |-> 0]
      <3>1. \A s \in UpTo(0, D) : s = {}
        BY Smaller DEF UpTo
      <3>2. g = [s \in UpTo(0, D) |-> IF s = {} THEN 0 ELSE f[Pick(s)] + g[s \ {Pick(s)}]]
        BY <3>1
      <3> HIDE DEF g
      <3> QED BY <2>1, <2>2, <3>2 DEF Adds
    <2>3. CASE n # 0
      <3>1. n - 1 \in Nat /\ n - 1 \notin Missing
        BY <2>1, <2>3
      <3>2. PICK h : Adds(h, f, UpTo(n - 1, D))
        BY <3>1
      <3> DEFINE g == [s \in UpTo(n, D) |-> IF s = {} THEN 0 ELSE f[Pick(s)] + h[s \ {Pick(s)}]]
      <3>3. ASSUME NEW s \in UpTo(n - 1, D)
            PROVE  s \in UpTo(n, D) /\ g[s] = h[s]
        <4>1. s \in UpTo(n, D)
          BY <3>1, Smaller DEF UpTo
        <4>2. h[s] = IF s = {} THEN 0 ELSE f[Pick(s)] + h[s \ {Pick(s)}]
          BY <3>2 DEF Adds
        <4> QED BY <4>1, <4>2
      <3>4. ASSUME NEW s \in UpTo(n, D), s # {}
            PROVE  s \ {Pick(s)} \in UpTo(n - 1, D)
        BY <3>1, <3>4, Smaller DEF UpTo
      <3>5. \A s \in UpTo(n, D) : s # {} => g[s \ {Pick(s)}] = h[s \ {Pick(s)}]
        BY <3>3, <3>4
      <3>6. g = [s \in UpTo(n, D) |-> IF s = {} THEN 0 ELSE f[Pick(s)] + g[s \ {Pick(s)}]]
        BY <3>5
      <3> HIDE DEF g
      <3> QED BY <2>1, <3>6 DEF Adds
    <2> QED BY <2>2, <2>3
  <1>2. Cardinality(D) \in Nat /\ UpTo(Cardinality(D), D) = SUBSET D
    BY FS_Subset, FS_CardinalityType DEF UpTo
  <1>3. PICK g : Adds(g, f, UpTo(Cardinality(D), D))
    BY <1>1, <1>2
  <1> QED BY <1>2, <1>3

SumWithin(f, D) == CHOOSE g : Adds(g, f, SUBSET D)

LEMMA SumRecursion ==
  ASSUME NEW f, NEW D, IsFiniteSet(D)
  PROVE  /\ SumFunctionOnSet(f, D) = SumWithin(f, D)[D]
         /\ \A s \in SUBSET D : SumWithin(f, D)[s] =
               IF s = {} THEN 0 ELSE f[Pick(s)] + SumWithin(f, D)[s \ {Pick(s)}]
  <1>1. SumFunctionOnSet(f, D) = SumWithin(f, D)[D]
    BY DEF SumFunctionOnSet, FoldFunctionOnSet, MapThenFoldSet, SumWithin, Adds, Pick
  <1>2. Adds(SumWithin(f, D), f, SUBSET D)
    BY AddsExists DEF SumWithin
  <1> QED BY <1>1, <1>2 DEF Adds

\* The sum over a subset does not depend on the set it was taken from, nor on
\* what the function is elsewhere.
LEMMA SumWithinSame ==
  ASSUME NEW f, NEW g, NEW D, IsFiniteSet(D), NEW C \in SUBSET D, \A x \in C : f[x] = g[x]
  PROVE  SumWithin(f, D)[C] = SumWithin(g, C)[C]
  <1>1. IsFiniteSet(C)
    BY FS_Subset
  <1>4. \A s \in SUBSET D : SumWithin(f, D)[s] =
          IF s = {} THEN 0 ELSE f[Pick(s)] + SumWithin(f, D)[s \ {Pick(s)}]
    BY ONLY IsFiniteSet(D), SumRecursion
  <1>5. \A s \in SUBSET C : SumWithin(g, C)[s] =
          IF s = {} THEN 0 ELSE g[Pick(s)] + SumWithin(g, C)[s \ {Pick(s)}]
    BY ONLY <1>1, SumRecursion
  <1> DEFINE Good == {S \in SUBSET C : SumWithin(f, D)[S] = SumWithin(g, C)[S]}
  <1>2. ASSUME NEW S \in SUBSET C, \A R \in SUBSET S : R # S => R \in Good
        PROVE  S \in Good
    <2>1. CASE S = {}
      BY <1>4, <1>5, <2>1
    <2>2. CASE S # {}
      <3>1. Pick(S) \in S /\ S \ {Pick(S)} \in Good
        BY <1>2, <2>2 DEF Pick
      <3>2. /\ SumWithin(f, D)[S] = f[Pick(S)] + SumWithin(f, D)[S \ {Pick(S)}]
            /\ SumWithin(g, C)[S] = g[Pick(S)] + SumWithin(g, C)[S \ {Pick(S)}]
        BY <1>4, <1>5, <2>2
      <3> QED BY <3>1, <3>2
    <2> QED BY <2>1, <2>2
  <1>3. C \in Good
    <2> HIDE DEF Good
    <2> QED BY <1>1, <1>2, FiniteInduction
  <1> QED BY <1>3

LEMMA SumSame ==
  ASSUME NEW f, NEW g, NEW C, IsFiniteSet(C), \A x \in C : f[x] = g[x]
  PROVE  SumFunctionOnSet(f, C) = SumFunctionOnSet(g, C)
  BY SumWithinSame, SumRecursion

LEMMA SumStep ==
  ASSUME NEW f, NEW C, IsFiniteSet(C), C # {}
  PROVE  Pick(C) \in C /\ SumFunctionOnSet(f, C) = f[Pick(C)] + SumFunctionOnSet(f, C \ {Pick(C)})
  <1>1. Pick(C) \in C /\ IsFiniteSet(C \ {Pick(C)})
    BY FS_Subset DEF Pick
  <1>2. SumFunctionOnSet(f, C) = f[Pick(C)] + SumWithin(f, C)[C \ {Pick(C)}]
    BY SumRecursion
  <1>3. SumWithin(f, C)[C \ {Pick(C)}] = SumWithin(f, C \ {Pick(C)})[C \ {Pick(C)}]
    BY SumWithinSame
  <1> QED BY <1>1, <1>2, <1>3, SumRecursion

LEMMA SumNone == \A f : SumFunctionOnSet(f, {}) = 0
  BY SumRecursion, FS_EmptySet

LEMMA SumInt ==
  ASSUME NEW f, NEW C, IsFiniteSet(C), \A x \in C : f[x] \in Int
  PROVE  SumFunctionOnSet(f, C) \in Int
  <1> DEFINE Good == {S \in SUBSET C : SumFunctionOnSet(f, S) \in Int}
  <1>2. ASSUME NEW S \in SUBSET C, \A R \in SUBSET S : R # S => R \in Good
        PROVE  S \in Good
    <2>1. CASE S = {}
      BY <2>1, SumNone
    <2>2. CASE S # {}
      <3>1. IsFiniteSet(S)
        BY FS_Subset
      <3>2. Pick(S) \in S /\ SumFunctionOnSet(f, S) = f[Pick(S)] + SumFunctionOnSet(f, S \ {Pick(S)})
        BY <2>2, <3>1, SumStep
      <3>3. S \ {Pick(S)} \in Good
        BY <1>2, <3>2
      <3> QED BY <3>2, <3>3
    <2> QED BY <2>1, <2>2
  <1>3. C \in Good
    <2> HIDE DEF Good
    <2> QED BY <1>2, FiniteInduction
  <1> QED BY <1>3

\* Any element of a set may be added first.
LEMMA SumAny ==
  ASSUME NEW f, NEW C, IsFiniteSet(C), \A x \in C : f[x] \in Int, NEW x \in C
  PROVE  SumFunctionOnSet(f, C) = f[x] + SumFunctionOnSet(f, C \ {x})
  <1> DEFINE Good == {S \in SUBSET C : \A y \in S :
                        SumFunctionOnSet(f, S) = f[y] + SumFunctionOnSet(f, S \ {y})}
  <1>1. \A S \in SUBSET C : IsFiniteSet(S) /\ SumFunctionOnSet(f, S) \in Int
    BY FS_Subset, SumInt
  <1>2. ASSUME NEW S \in SUBSET C, \A R \in SUBSET S : R # S => R \in Good
        PROVE  S \in Good
    <2> SUFFICES ASSUME NEW y \in S
                 PROVE  SumFunctionOnSet(f, S) = f[y] + SumFunctionOnSet(f, S \ {y})
      OBVIOUS
    <2> DEFINE z == Pick(S)
               rest == S \ {y, z}
    <2>1. z \in S /\ SumFunctionOnSet(f, S) = f[z] + SumFunctionOnSet(f, S \ {z})
      BY <1>1, SumStep
    <2>2. CASE y = z
      BY <2>1, <2>2
    <2>3. CASE y # z
      <3>1. /\ S \ {z} \in Good /\ y \in S \ {z} /\ (S \ {z}) \ {y} = rest
            /\ S \ {y} \in Good /\ z \in S \ {y} /\ (S \ {y}) \ {z} = rest
        BY <1>2, <2>1, <2>3
      <3>2. /\ SumFunctionOnSet(f, S \ {z}) = f[y] + SumFunctionOnSet(f, rest)
            /\ SumFunctionOnSet(f, S \ {y}) = f[z] + SumFunctionOnSet(f, rest)
        BY <3>1
      <3>3. f[y] \in Int /\ f[z] \in Int /\ SumFunctionOnSet(f, rest) \in Int
        BY <1>1, <2>1
      <3> HIDE DEF z, rest, Good
      <3> QED BY <2>1, <3>2, <3>3
    <2> QED BY <2>2, <2>3
  <1>3. C \in Good
    <2> HIDE DEF Good
    <2> QED BY <1>2, FiniteInduction
  <1> QED BY <1>3

\* The sum over two sets with nothing in common.
LEMMA SumTwo ==
  ASSUME NEW f, NEW A, NEW B, IsFiniteSet(A), IsFiniteSet(B), A \cap B = {},
         \A x \in A \cup B : f[x] \in Int
  PROVE  SumFunctionOnSet(f, A \cup B) = SumFunctionOnSet(f, A) + SumFunctionOnSet(f, B)
  <1> DEFINE Good == {S \in SUBSET B :
        SumFunctionOnSet(f, A \cup S) = SumFunctionOnSet(f, A) + SumFunctionOnSet(f, S)}
  <1>1. SumFunctionOnSet(f, A) \in Int
    BY SumInt
  <1>2. \A S \in SUBSET B : /\ IsFiniteSet(S) /\ SumFunctionOnSet(f, S) \in Int
                            /\ IsFiniteSet(A \cup S) /\ SumFunctionOnSet(f, A \cup S) \in Int
    <2> SUFFICES ASSUME NEW S \in SUBSET B
                 PROVE  /\ IsFiniteSet(S) /\ SumFunctionOnSet(f, S) \in Int
                        /\ IsFiniteSet(A \cup S) /\ SumFunctionOnSet(f, A \cup S) \in Int
      OBVIOUS
    <2>1. IsFiniteSet(S) /\ IsFiniteSet(A \cup S)
      BY FS_Subset, FS_Union
    <2>2. \A x \in A \cup S : f[x] \in Int
      OBVIOUS
    <2> QED BY <2>1, <2>2, SumInt
  <1>3. ASSUME NEW S \in SUBSET B, \A R \in SUBSET S : R # S => R \in Good
        PROVE  S \in Good
    <2>1. CASE S = {}
      BY <1>1, <2>1, SumNone
    <2>2. CASE S # {}
      <3>1. PICK x \in S : TRUE
        BY <2>2
      <3>2. (A \cup S) \ {x} = A \cup (S \ {x}) /\ S \ {x} \in Good /\ S \ {x} \in SUBSET B
        BY <1>3, <3>1
      <3>3. SumFunctionOnSet(f, A \cup S) = f[x] + SumFunctionOnSet(f, A \cup (S \ {x}))
        <4>1. IsFiniteSet(A \cup S) /\ x \in A \cup S /\ \A y \in A \cup S : f[y] \in Int
          BY <1>2, <3>1
        <4>2. SumFunctionOnSet(f, A \cup S) = f[x] + SumFunctionOnSet(f, (A \cup S) \ {x})
          BY ONLY <4>1, SumAny
        <4> QED BY <3>2, <4>2
      <3>4. SumFunctionOnSet(f, S) = f[x] + SumFunctionOnSet(f, S \ {x})
        <4>1. IsFiniteSet(S) /\ x \in S /\ \A y \in S : f[y] \in Int
          BY <1>2, <3>1
        <4> QED BY ONLY <4>1, SumAny
      <3>5. f[x] \in Int /\ SumFunctionOnSet(f, S \ {x}) \in Int
        BY <1>2, <3>1, <3>2
      <3>6. SumFunctionOnSet(f, A \cup (S \ {x})) = SumFunctionOnSet(f, A) + SumFunctionOnSet(f, S \ {x})
        BY <3>2
      <3>7. SumFunctionOnSet(f, A \cup S) = SumFunctionOnSet(f, A) + SumFunctionOnSet(f, S)
        <4> HIDE DEF Good
        <4> QED BY ONLY <1>1, <3>3, <3>4, <3>5, <3>6
      <3> QED BY <3>7
    <2> QED BY <2>1, <2>2
  <1>4. B \in Good
    <2> HIDE DEF Good
    <2> QED BY <1>3, FiniteInduction
  <1> QED BY <1>4

LEMMA SumNat ==
  ASSUME NEW f, NEW C, IsFiniteSet(C), \A x \in C : f[x] \in Nat
  PROVE  SumFunctionOnSet(f, C) \in Nat
  <1> DEFINE Good == {S \in SUBSET C : SumFunctionOnSet(f, S) \in Nat}
  <1>1. ASSUME NEW S \in SUBSET C, \A R \in SUBSET S : R # S => R \in Good
        PROVE  S \in Good
    <2>1. CASE S = {}
      BY <2>1, SumNone
    <2>2. CASE S # {}
      <3>1. IsFiniteSet(S)
        BY FS_Subset
      <3>2. Pick(S) \in S /\ SumFunctionOnSet(f, S) = f[Pick(S)] + SumFunctionOnSet(f, S \ {Pick(S)})
        BY <2>2, <3>1, SumStep
      <3>3. S \ {Pick(S)} \in Good
        BY <1>1, <3>2
      <3> QED BY <3>2, <3>3
    <2> QED BY <2>1, <2>2
  <1>2. C \in Good
    <2> HIDE DEF Good
    <2> QED BY <1>1, FiniteInduction
  <1> QED BY <1>2

\* More of what is not negative is not less.
LEMMA SumGrows ==
  ASSUME NEW f, NEW C, IsFiniteSet(C), \A x \in C : f[x] \in Nat, NEW B \in SUBSET C
  PROVE  SumFunctionOnSet(f, B) <= SumFunctionOnSet(f, C)
  <1>1. IsFiniteSet(B) /\ IsFiniteSet(C \ B)
    BY FS_Subset
  <1>2. SumFunctionOnSet(f, B \cup (C \ B)) = SumFunctionOnSet(f, B) + SumFunctionOnSet(f, C \ B)
    BY <1>1, SumTwo
  <1>3. SumFunctionOnSet(f, B) \in Nat /\ SumFunctionOnSet(f, C \ B) \in Nat
    BY <1>1, SumNat
  <1>4. B \cup (C \ B) = C
    OBVIOUS
  <1>5. SumFunctionOnSet(f, C) = SumFunctionOnSet(f, B) + SumFunctionOnSet(f, C \ B)
    BY ONLY <1>2, <1>4, Zenon
  <1> QED BY ONLY <1>3, <1>5

LEMMA SumTenfold ==
  ASSUME NEW f, NEW g, NEW C, IsFiniteSet(C), \A x \in C : g[x] \in Int /\ f[x] = 10 * g[x]
  PROVE  SumFunctionOnSet(f, C) = 10 * SumFunctionOnSet(g, C)
  <1> DEFINE Good == {S \in SUBSET C : SumFunctionOnSet(f, S) = 10 * SumFunctionOnSet(g, S)}
  <1>1. ASSUME NEW S \in SUBSET C, \A R \in SUBSET S : R # S => R \in Good
        PROVE  S \in Good
    <2>1. CASE S = {}
      BY <2>1, SumNone
    <2>2. CASE S # {}
      <3>1. IsFiniteSet(S)
        BY FS_Subset
      <3>2. /\ Pick(S) \in S
            /\ SumFunctionOnSet(f, S) = f[Pick(S)] + SumFunctionOnSet(f, S \ {Pick(S)})
            /\ SumFunctionOnSet(g, S) = g[Pick(S)] + SumFunctionOnSet(g, S \ {Pick(S)})
        BY <2>2, <3>1, SumStep
      <3>3. SumFunctionOnSet(g, S \ {Pick(S)}) \in Int /\ g[Pick(S)] \in Int
        BY <3>1, <3>2, FS_Subset, SumInt
      <3>4. SumFunctionOnSet(f, S \ {Pick(S)}) = 10 * SumFunctionOnSet(g, S \ {Pick(S)})
        BY <1>1, <3>2
      <3>5. f[Pick(S)] = 10 * g[Pick(S)]
        BY <3>2
      <3>6. SumFunctionOnSet(f, S) = 10 * SumFunctionOnSet(g, S)
        BY ONLY <3>2, <3>3, <3>4, <3>5
      <3> QED BY <3>6
    <2> QED BY <2>1, <2>2
  <1>2. C \in Good
    <2> HIDE DEF Good
    <2> QED BY <1>1, FiniteInduction
  <1> QED BY <1>2

\* A sum may be taken part by part.
Part(C, k, b) == {x \in C : k[x] = b}

LEMMA SumParts ==
  ASSUME NEW f, NEW C, IsFiniteSet(C), \A x \in C : f[x] \in Int,
         NEW B, IsFiniteSet(B), NEW k, NEW h,
         \A b \in B : h[b] = SumFunctionOnSet(f, Part(C, k, b))
  PROVE  SumFunctionOnSet(f, {x \in C : k[x] \in B}) = SumFunctionOnSet(h, B)
  <1> DEFINE In(S) == {x \in C : k[x] \in S}
             Good == {S \in SUBSET B : SumFunctionOnSet(f, In(S)) = SumFunctionOnSet(h, S)}
  <1>1. \A S : IsFiniteSet(In(S)) /\ IsFiniteSet(Part(C, k, S))
    <2> SUFFICES ASSUME NEW S PROVE IsFiniteSet(In(S)) /\ IsFiniteSet(Part(C, k, S))
      OBVIOUS
    <2>1. In(S) \in SUBSET C /\ Part(C, k, S) \in SUBSET C
      BY DEF Part
    <2> QED BY <2>1, FS_Subset
  <1>2. \A b \in B : h[b] \in Int
    <2> SUFFICES ASSUME NEW b \in B PROVE SumFunctionOnSet(f, Part(C, k, b)) \in Int
      OBVIOUS
    <2>1. \A x \in Part(C, k, b) : f[x] \in Int
      BY DEF Part
    <2> QED BY <1>1, <2>1, SumInt
  <1>3. ASSUME NEW S \in SUBSET B, \A R \in SUBSET S : R # S => R \in Good
        PROVE  S \in Good
    <2>1. CASE S = {}
      <3>1. In(S) = {}
        BY <2>1
      <3> QED BY <2>1, <3>1, SumNone
    <2>2. CASE S # {}
      <3>1. PICK b \in S : TRUE
        BY <2>2
      <3>2. S \ {b} \in SUBSET S /\ S \ {b} # S
        BY <3>1
      <3>3. SumFunctionOnSet(f, In(S \ {b})) = SumFunctionOnSet(h, S \ {b})
        BY <1>3, <3>2
      <3>4. SumFunctionOnSet(h, S) = h[b] + SumFunctionOnSet(h, S \ {b})
        <4>1. IsFiniteSet(S) /\ \A c \in S : h[c] \in Int
          BY <1>2, FS_Subset
        <4> QED BY ONLY <3>1, <4>1, SumAny
      <3>5. SumFunctionOnSet(f, In(S)) = SumFunctionOnSet(f, Part(C, k, b)) + SumFunctionOnSet(f, In(S \ {b}))
        <4>1. /\ In(S) = Part(C, k, b) \cup In(S \ {b})
              /\ Part(C, k, b) \cap In(S \ {b}) = {}
              /\ \A x \in Part(C, k, b) \cup In(S \ {b}) : f[x] \in Int
          BY <3>1 DEF Part
        <4>2. IsFiniteSet(Part(C, k, b)) /\ IsFiniteSet(In(S \ {b}))
          BY <1>1
        <4> HIDE DEF In
        <4>3. SumFunctionOnSet(f, Part(C, k, b) \cup In(S \ {b}))
                = SumFunctionOnSet(f, Part(C, k, b)) + SumFunctionOnSet(f, In(S \ {b}))
          BY ONLY <4>1, <4>2, SumTwo
        <4> QED BY ONLY <4>1, <4>3, Zenon
      <3>6. h[b] = SumFunctionOnSet(f, Part(C, k, b))
        BY <3>1
      <3>7. SumFunctionOnSet(f, In(S)) = SumFunctionOnSet(h, S)
        <4> HIDE DEF In
        <4> QED BY ONLY <3>3, <3>4, <3>5, <3>6
      <3> QED BY <3>7
    <2> QED BY <2>1, <2>2
  <1>4. B \in Good
    <2> HIDE DEF Good
    <2> QED BY <1>3, FiniteInduction
  <1> QED BY <1>4

LEMMA CountIsSum ==
  ASSUME NEW C, IsFiniteSet(C), NEW one, \A x \in C : one[x] = 1
  PROVE  Cardinality(C) = SumFunctionOnSet(one, C)
  <1> DEFINE Good == {S \in SUBSET C : Cardinality(S) = SumFunctionOnSet(one, S)}
  <1>1. ASSUME NEW S \in SUBSET C, \A R \in SUBSET S : R # S => R \in Good
        PROVE  S \in Good
    <2>1. CASE S = {}
      BY <2>1, SumNone, FS_EmptySet
    <2>2. CASE S # {}
      <3>1. IsFiniteSet(S) /\ Cardinality(S) \in Nat
        BY FS_Subset, FS_CardinalityType
      <3>2. /\ Pick(S) \in S /\ SumFunctionOnSet(one, S) = one[Pick(S)] + SumFunctionOnSet(one, S \ {Pick(S)})
            /\ Cardinality(S \ {Pick(S)}) = Cardinality(S) - 1
        BY <2>2, <3>1, SumStep, FS_RemoveElement
      <3>3. Cardinality(S \ {Pick(S)}) = SumFunctionOnSet(one, S \ {Pick(S)}) /\ one[Pick(S)] = 1
        BY <1>1, <3>2
      <3>4. Cardinality(S) = SumFunctionOnSet(one, S)
        BY ONLY <3>1, <3>2, <3>3
      <3> QED BY <3>4
    <2> QED BY <2>1, <2>2
  <1>2. C \in Good
    <2> HIDE DEF Good
    <2> QED BY <1>1, FiniteInduction
  <1> QED BY <1>2

\* So may a count.
LEMMA CountParts ==
  ASSUME NEW C, IsFiniteSet(C), NEW B, IsFiniteSet(B), NEW k, NEW h,
         \A b \in B : h[b] = Cardinality(Part(C, k, b))
  PROVE  Cardinality({x \in C : k[x] \in B}) = SumFunctionOnSet(h, B)
  <1> DEFINE one == [x \in C |-> 1]
  <1>1. \A S \in SUBSET C : Cardinality(S) = SumFunctionOnSet(one, S)
    BY FS_Subset, CountIsSum
  <1>2. \A x \in C : one[x] \in Int
    OBVIOUS
  <1>3. \A b \in B : h[b] = SumFunctionOnSet(one, Part(C, k, b))
    BY <1>1 DEF Part
  <1>4. SumFunctionOnSet(one, {x \in C : k[x] \in B}) = SumFunctionOnSet(h, B)
    <2> HIDE DEF one
    <2> QED BY ONLY IsFiniteSet(C), IsFiniteSet(B), <1>2, <1>3, SumParts
  <1> QED BY <1>1, <1>4

-----------------------------------------------------------------------------
(* Tables: sequences of rows *)

Table(t) == t \in Seq({t[n] : n \in DOMAIN t})

LEMMA TableOf ==
  ASSUME NEW S, NEW t \in Seq(S)
  PROVE  Table(t) /\ Len(t) \in Nat /\ DOMAIN t = 1..Len(t)
  <1> DEFINE T == {t[n] : n \in DOMAIN t}
  <1>1. Len(t) \in Nat /\ DOMAIN t = 1..Len(t)
    OBVIOUS
  <1>2. t \in [1..Len(t) -> T]
    BY <1>1
  <1>3. t \in Seq(T)
    <2> HIDE DEF T
    <2> QED BY <1>1, <1>2, SeqDef
  <1> QED BY <1>1, <1>3 DEF Table

LEMMA EmptyTable == Table(<<>>) /\ DOMAIN <<>> = {} /\ Len(<<>>) = 0
  <1>1. <<>> \in Seq({})
    BY EmptySeq
  <1>2. Len(<<>>) = 0 /\ DOMAIN <<>> = {}
    OBVIOUS
  <1> QED BY <1>1, <1>2, TableOf

LEMMA TableShape ==
  ASSUME NEW t, Table(t)
  PROVE  Len(t) \in Nat /\ DOMAIN t = 1..Len(t)
  BY DEF Table

LEMMA TableAppend ==
  ASSUME NEW t, Table(t), NEW e
  PROVE  /\ Table(Append(t, e)) /\ Len(t) + 1 \in DOMAIN Append(t, e)
         /\ DOMAIN Append(t, e) = DOMAIN t \cup {Len(t) + 1} /\ Len(t) + 1 \notin DOMAIN t
         /\ Append(t, e)[Len(t) + 1] = e
         /\ \A i \in DOMAIN t : Append(t, e)[i] = t[i]
  <1> DEFINE S == {t[n] : n \in DOMAIN t} \cup {e}
  <1>1. t \in Seq(S)
    BY SeqDef DEF Table
  <1>2. /\ Append(t, e) \in Seq(S) /\ DOMAIN Append(t, e) = 1..(Len(t) + 1)
        /\ Append(t, e)[Len(t) + 1] = e /\ Len(t) \in Nat /\ DOMAIN t = 1..Len(t)
        /\ \A i \in 1..Len(t) : Append(t, e)[i] = t[i]
    <2>1. e \in S
      OBVIOUS
    <2> HIDE DEF S
    <2> QED BY <1>1, <2>1
  <1>3. Table(Append(t, e))
    <2> HIDE DEF S
    <2> QED BY <1>2, TableOf
  <1> QED BY <1>2, <1>3

LEMMA TableConcat ==
  ASSUME NEW t, Table(t), NEW u, Table(u)
  PROVE  /\ Table(t \o u)
         /\ Len(t \o u) = Len(t) + Len(u) /\ DOMAIN (t \o u) = 1..(Len(t) + Len(u))
         /\ \A i \in DOMAIN t : (t \o u)[i] = t[i]
         /\ \A i \in DOMAIN u : (t \o u)[Len(t) + i] = u[i]
  <1> DEFINE S == {t[n] : n \in DOMAIN t} \cup {u[n] : n \in DOMAIN u}
  <1>1. t \in Seq(S) /\ u \in Seq(S)
    BY SeqDef DEF Table
  <1> HIDE DEF S
  <1>2. t \o u \in Seq(S)
    BY <1>1
  <1>3. /\ Len(t \o u) = Len(t) + Len(u) /\ DOMAIN (t \o u) = 1..(Len(t) + Len(u))
        /\ \A i \in 1..Len(t) : (t \o u)[i] = t[i]
        /\ \A i \in 1..Len(u) : (t \o u)[Len(t) + i] = u[i]
    BY <1>1, ConcatProperties
  <1> QED BY <1>2, <1>3, TableOf, TableShape

LEMMA TableMap ==
  ASSUME NEW t, Table(t), NEW u, u = [i \in DOMAIN t |-> u[i]]
  PROVE  Table(u) /\ Len(u) = Len(t)
  <1> DEFINE S == {u[n] : n \in DOMAIN u}
  <1>1. DOMAIN t = 1..Len(t) /\ Len(t) \in Nat /\ DOMAIN u = 1..Len(t)
    BY DEF Table
  <1>2. u \in [1..Len(t) -> S]
    BY <1>1
  <1>3. u \in Seq(S)
    <2> HIDE DEF S
    <2> QED BY <1>1, <1>2, SeqDef
  <1> QED BY <1>1, <1>3 DEF Table

-----------------------------------------------------------------------------
(* The inductive invariant of the books *)

Optional == Int \cup {None}
InvoiceColumns == {"type", "number", "party", "issue", "due", "terms", "currency", "subtotal",
                   "tax", "withholding", "total", "lines", "exact", "status", "reference"}
Kept == InvoiceColumns \ {"due", "terms", "status", "reference"}
FollowUpColumns == {"invoice", "status", "date", "updated"}
EvidenceFields == {"op", "file", "next", "accepted", "duplicates", "rejected"}

\* The sum of the lines of an invoice, in cents, and of one side of a journal.
LinesOf(row) ==
    Rounded(SumFunction([n \in DOMAIN row.lines |-> row.lines[n].quantity * row.lines[n].price]),
            1000000)
DebitOf(row) == SumFunction([n \in DOMAIN row.lines |-> row.lines[n].debit])
CreditOf(row) == SumFunction([n \in DOMAIN row.lines |-> row.lines[n].credit])

\* What no update of an invoice writes, and what a capture has computed of it.
InvoiceSound(row) ==
    /\ row.type \in InvoiceTypes /\ row.party \in BOOLEAN /\ row.issue \in Int
    /\ row.total \in Nat /\ row.subtotal \in Nat /\ row.tax \in Nat /\ row.withholding \in Nat
    /\ row.lines \in Seq([quantity : Nat, price : Nat])
    /\ row.total = row.subtotal + row.tax - row.withholding
    /\ row.exact => row.subtotal = LinesOf(row)
InvoicesSound ==
    /\ Table(invoices)
    /\ \A i \in DOMAIN invoices : DOMAIN invoices[i] = InvoiceColumns /\ InvoiceSound(invoices[i])

PaymentsSound ==
    /\ Table(payments)
    /\ \A p \in DOMAIN payments : /\ payments[p].invoice \in DOMAIN invoices \cup {None}
                                  /\ payments[p].amount \in Nat \ {0} /\ payments[p].date \in Int

JournalSound(row) ==
    /\ row.lines # <<>>
    /\ \A n \in DOMAIN row.lines : /\ row.lines[n].debit \in Nat /\ row.lines[n].credit \in Nat
                                   /\ row.lines[n].debit = 0 \/ row.lines[n].credit = 0
    /\ row.exact => DebitOf(row) = CreditOf(row)
JournalsSound == Table(journals) /\ \A j \in DOMAIN journals : JournalSound(journals[j])

PartiesSound == Table(parties) /\ \A p \in DOMAIN parties : parties[p].has \subseteq PartyFields

\* A due date and a term that say the same of an invoice.
DueLater(issue, due) == due # None => due >= issue
Agreed(issue, due, terms) ==
    DueLater(issue, due) /\ (terms # None => terms \in Nat /\ due = issue + terms)
TermsSound ==
    \A i \in DOMAIN invoices :
        LET row == invoices[i]
        IN  /\ row.due \in Optional /\ row.terms \in Optional
            /\ DueLater(row.issue, row.due)
            /\ <<"terms", i>> \notin stale => Agreed(row.issue, row.due, row.terms)

\* An update of terms has columns to write that come from a pair that agrees.
TermsPending(q) ==
    /\ q.id \in DOMAIN invoices /\ DOMAIN q.loaded = {"due", "terms"}
    /\ \E due, terms \in Optional :
          /\ Agreed(invoices[q.id].issue, due, terms)
          /\ q.changes = Changes(q.loaded, [due |-> due, terms |-> terms])

\* No two follow-ups were written last by one transaction.
FollowUpsSound ==
    /\ Table(followups) /\ stamps \in Nat
    /\ \A f \in DOMAIN followups :
          LET row == followups[f]
          IN  /\ DOMAIN row = FollowUpColumns
              /\ row.invoice \in OfType("sale") /\ row.date \in Optional
              /\ PromiseDateValid(row.status, row.date)
              /\ row.updated \in 1..stamps
    /\ \A f, g \in DOMAIN followups : followups[f].updated = followups[g].updated => f = g
FollowUpPending(q) ==
    /\ q.id \in DOMAIN followups
    /\ DOMAIN q.changes \subseteq {"status", "date"}
    /\ "date" \in DOMAIN q.changes => q.changes["date"] \in Optional

\* A transaction that has not written yet has a now() no row and no other has.
StampsApart ==
    \A r \in Requests : requests[r].op = "followup" =>
        /\ requests[r].stamp \in 1..stamps
        /\ \A f \in DOMAIN followups : followups[f].updated # requests[r].stamp
        /\ \A s \in Requests : (/\ requests[s].op = "followup"
                                /\ requests[s].stamp = requests[r].stamp) => s = r

\* The rows an import has accepted are of different invoices, each named in a row
\* it has read.
AcceptedRow(row, file, next) ==
    /\ row.invoice \in DOMAIN invoices /\ invoices[row.invoice].number = row.number
    /\ row.new = Columns(row.new, {"status", "reference"})
    /\ \E m \in 1..(next - 1) : file[m].number = row.number
EvidencePending(q) ==
    /\ DOMAIN q = EvidenceFields /\ q.next \in Nat \ {0} /\ Table(q.accepted)
    /\ q.file \in EvidenceFiles /\ q.duplicates \in Nat /\ q.rejected \in Nat
    /\ Len(q.accepted) + q.duplicates + q.rejected = q.next - 1
    /\ \A n \in DOMAIN q.accepted : AcceptedRow(q.accepted[n], q.file, q.next)
    /\ \A n, m \in DOMAIN q.accepted : q.accepted[n].number = q.accepted[m].number => n = m

\* The evidence an invoice shows is that of its last row.
EvidenceSound ==
    /\ Table(audit)
    /\ \A n \in DOMAIN audit : audit[n].invoice \in DOMAIN invoices
    /\ EvidenceIsAudited

SnapshotsSound ==
    /\ Table(accounts)
    /\ \A s \in snapshots : /\ s = <<s[1], s[2]>> /\ s[1] \in DOMAIN accounts
                            /\ s[2] \in Int /\ s[2] <= 0

RequestSound(q) ==
    /\ q.op \in {"none", "terms", "followup", "evidence", "treasury"}
    /\ q.op = "terms" => TermsPending(q)
    /\ q.op = "followup" => FollowUpPending(q)
    /\ q.op = "evidence" => EvidencePending(q)
    /\ q.op = "treasury" => q.accounts \subseteq DOMAIN accounts
RequestsSound == DOMAIN requests = Requests /\ \A r \in Requests : RequestSound(requests[r])

IInv ==
    /\ InvoicesSound /\ PaymentsSound /\ JournalsSound /\ PartiesSound
    /\ TermsSound /\ FollowUpsSound /\ StampsApart /\ EvidenceSound /\ SnapshotsSound
    /\ RequestsSound /\ BalanceCoversAccounts

-----------------------------------------------------------------------------
(* Which operations write which variable *)

InvoicesMove == \/ UNCHANGED <<invoices, stale>>
                \/ \E form \in InvoiceForms : RecordInvoice(form)
                \/ \E r \in Requests : CommitTerms(r) \/ CommitEvidence(r)
PaymentsMove == \/ UNCHANGED payments
                \/ \E form \in PaymentForms, i \in DOMAIN invoices \cup {None} : RecordPayment(form, i)
JournalsMove == UNCHANGED journals \/ \E lines \in JournalForms : RecordJournal(lines)
PartiesMove == UNCHANGED parties \/ \E form \in PartyForms : RecordParty(form)
FollowUpsMove == \/ UNCHANGED followups /\ stamps' \in {stamps, stamps + 1}
                 \/ \E form \in FollowUpForms, i \in DOMAIN invoices : RecordFollowUp(form, i)
                 \/ \E r \in Requests : CommitFollowUp(r)
StampsMove ==
    \/ UNCHANGED <<followups, stamps, requests>>
    \/ \E form \in FollowUpForms, i \in DOMAIN invoices : RecordFollowUp(form, i)
    \/ \E r \in Requests :
          \/ CommitFollowUp(r)
          \/ \E f \in DOMAIN followups, patch \in FollowUpPatches : BeginFollowUp(r, f, patch)
          \/ /\ UNCHANGED <<followups, stamps>>
             /\ \/ Done(r)
                \/ \E i \in DOMAIN invoices, patch \in TermsPatches : BeginTerms(r, i, patch)
                \/ \E file \in EvidenceFiles : BeginEvidence(r, file)
                \/ BeginTreasury(r)
                \/ ReadEvidence(r)
AuditMove == UNCHANGED audit \/ \E r \in Requests : CommitEvidence(r)
SnapshotsMove == \/ UNCHANGED <<accounts, snapshots>>
                 \/ RecordAccount
                 \/ \E a \in DOMAIN accounts, day \in SnapshotDates : RecordSnapshot(a, day)
ReportsMove == UNCHANGED reports \/ \E r \in Requests : EndTreasury(r)
RequestsMove ==
    \/ UNCHANGED requests
    \/ \E r \in Requests :
          \/ Done(r)
          \/ \E i \in DOMAIN invoices, patch \in TermsPatches : BeginTerms(r, i, patch)
          \/ \E f \in DOMAIN followups, patch \in FollowUpPatches : BeginFollowUp(r, f, patch)
          \/ \E file \in EvidenceFiles : BeginEvidence(r, file)
          \/ BeginTreasury(r)
          \/ ReadEvidence(r)

LEMMA Moves ==
  ASSUME [Next]_vars
  PROVE  /\ InvoicesMove /\ PaymentsMove /\ JournalsMove /\ PartiesMove /\ FollowUpsMove
         /\ StampsMove /\ AuditMove /\ SnapshotsMove /\ ReportsMove /\ RequestsMove
  <1> USE DEF InvoicesMove, PaymentsMove, JournalsMove, PartiesMove, FollowUpsMove, StampsMove,
              AuditMove, SnapshotsMove, ReportsMove, RequestsMove, tables
  <1>1. CASE UNCHANGED vars
    BY <1>1 DEF vars
  <1>2. CASE Capture
    <2>1. CASE \E form \in PartyForms : RecordParty(form)
      BY <2>1 DEF RecordParty
    <2>2. CASE \E form \in InvoiceForms : RecordInvoice(form)
      BY <2>2 DEF RecordInvoice
    <2>3. CASE \E form \in PaymentForms, i \in DOMAIN invoices \cup {None} : RecordPayment(form, i)
      BY <2>3 DEF RecordPayment
    <2>4. CASE \E lines \in JournalForms : RecordJournal(lines)
      BY <2>4 DEF RecordJournal
    <2>5. CASE RecordAccount
      BY <2>5 DEF RecordAccount
    <2>6. CASE \E a \in DOMAIN accounts, day \in SnapshotDates : RecordSnapshot(a, day)
      BY <2>6 DEF RecordSnapshot
    <2>7. CASE \E form \in FollowUpForms, i \in DOMAIN invoices : RecordFollowUp(form, i)
      BY <2>7 DEF RecordFollowUp
    <2> QED BY <1>2, <2>1, <2>2, <2>3, <2>4, <2>5, <2>6, <2>7 DEF Capture
  <1>3. ASSUME NEW r \in Requests, Update(r) PROVE
           /\ InvoicesMove /\ PaymentsMove /\ JournalsMove /\ PartiesMove /\ FollowUpsMove
           /\ StampsMove /\ AuditMove /\ SnapshotsMove /\ ReportsMove /\ RequestsMove
    <2>1. CASE \E i \in DOMAIN invoices, patch \in TermsPatches : BeginTerms(r, i, patch)
      BY <2>1 DEF BeginTerms, Begin
    <2>2. CASE \E f \in DOMAIN followups, patch \in FollowUpPatches : BeginFollowUp(r, f, patch)
      BY <2>2 DEF BeginFollowUp, Begin
    <2>3. CASE \E file \in EvidenceFiles : BeginEvidence(r, file)
      BY <2>3 DEF BeginEvidence, Begin
    <2>4. CASE BeginTreasury(r)
      BY <2>4 DEF BeginTreasury, Begin
    <2>5. CASE CommitTerms(r)
      BY <2>5 DEF CommitTerms
    <2>6. CASE CommitFollowUp(r)
      BY <2>6 DEF CommitFollowUp
    <2>7. CASE ReadEvidence(r)
      BY <2>7 DEF ReadEvidence
    <2>8. CASE CommitEvidence(r)
      BY <2>8 DEF CommitEvidence
    <2>9. CASE EndTreasury(r)
      BY <2>9 DEF EndTreasury
    <2>10. CASE Abandon(r)
      BY <2>10 DEF Abandon
    <2> QED BY <1>3, <2>1, <2>2, <2>3, <2>4, <2>5, <2>6, <2>7, <2>8, <2>9, <2>10 DEF Update
  <1> QED BY <1>1, <1>2, <1>3 DEF Next

-----------------------------------------------------------------------------
(* Updates of a row *)

LEMMA ChangesFacts ==
  ASSUME NEW old, NEW new
  PROVE  /\ DOMAIN Changes(old, new) \subseteq DOMAIN new
         /\ \A c \in DOMAIN Changes(old, new) : Changes(old, new)[c] = new[c]
         /\ \A c \in DOMAIN new : new[c] # old[c] => c \in DOMAIN Changes(old, new)
  BY DEF Changes

LEMMA MergedFacts ==
  ASSUME NEW row, NEW changes
  PROVE  /\ DOMAIN Merged(row, changes) = DOMAIN row
         /\ \A c \in DOMAIN row : Merged(row, changes)[c] =
               IF c \in DOMAIN changes THEN changes[c] ELSE row[c]
  BY DEF Merged

\* A row of which the loaded columns are what they were becomes what was meant.
LEMMA MergedAsMeant ==
  ASSUME NEW row, NEW loaded, NEW new, DOMAIN new \subseteq DOMAIN row,
         \A c \in DOMAIN new : row[c] = loaded[c]
  PROVE  \A c \in DOMAIN new : Merged(row, Changes(loaded, new))[c] = new[c]
  BY ChangesFacts, MergedFacts

-----------------------------------------------------------------------------
(* What a capture stores *)

LEMMA MoneyFacts ==
  /\ \A x \in Int : Money(x) \in Int
  /\ \A x \in Nat : Money(x) \in Nat
  /\ \A x \in Int : x % 10 = 0 => x = 10 * Money(x)
  /\ \A x \in Int : Money(10 * x) = x
  /\ Money(0) = 0
  BY DEF Money, Rounded

\* A sum of products as sent, a hundred times that of the columns, rounds alike.
LEMMA RoundedFacts ==
  /\ \A x \in Nat : Rounded(x, 100000000) \in Nat /\ Rounded(x, 10) \in Nat
  /\ \A x \in Int : Rounded(100 * x, 100000000) = Rounded(x, 1000000)
  /\ \A x \in Int : x % 10 = 0 => x = 10 * Rounded(x, 10)
  BY DEF Rounded

LEMMA LineIndices ==
  ASSUME NEW S, NEW lines \in Seq(S)
  PROVE  /\ IsFiniteSet(DOMAIN lines) /\ \A n \in DOMAIN lines : lines[n] \in S
         /\ Len(lines) \in Nat /\ DOMAIN lines = 1..Len(lines)
  <1>1. DOMAIN lines = 1..Len(lines) /\ Len(lines) \in Nat /\ \A n \in 1..Len(lines) : lines[n] \in S
    OBVIOUS
  <1> QED BY <1>1, FS_Interval

LEMMA SeqOfIndices ==
  ASSUME NEW S, NEW n \in Nat, NEW f \in [1..n -> S]
  PROVE  f \in Seq(S)
  OBVIOUS

\* Ten times a sum of cents is a sum of tenths of a cent.
LEMMA SumOfWhole ==
  ASSUME NEW C, IsFiniteSet(C), NEW f, NEW g, DOMAIN f = C, DOMAIN g = C,
         \A n \in C : g[n] \in Int /\ f[n] = 10 * g[n]
  PROVE  SumFunction(g) = Money(SumFunction(f))
  <1>1. SumFunctionOnSet(f, C) = 10 * SumFunctionOnSet(g, C) /\ SumFunctionOnSet(g, C) \in Int
    BY SumTenfold, SumInt
  <1> QED BY <1>1, MoneyFacts DEF SumFunction

LEMMA SumOfHundredfold ==
  ASSUME NEW C, IsFiniteSet(C), NEW f, NEW g, DOMAIN f = C, DOMAIN g = C,
         \A n \in C : g[n] \in Int /\ f[n] = 100 * g[n]
  PROVE  SumFunction(f) = 100 * SumFunction(g) /\ SumFunction(g) \in Int
  <1> DEFINE tens == [n \in C |-> 10 * g[n]]
  <1>1. \A n \in C : tens[n] \in Int /\ tens[n] = 10 * g[n] /\ f[n] = 10 * tens[n]
    OBVIOUS
  <1> HIDE DEF tens
  <1>2. /\ SumFunctionOnSet(f, C) = 10 * SumFunctionOnSet(tens, C)
        /\ SumFunctionOnSet(tens, C) = 10 * SumFunctionOnSet(g, C)
        /\ SumFunctionOnSet(g, C) \in Int
    BY <1>1, SumTenfold, SumInt
  <1> QED BY <1>2 DEF SumFunction

LEMMA TimesHundred == \A q, p \in Int : (10 * q) * (10 * p) = 100 * (q * p)
  OBVIOUS

LEMMA InvoiceCaptured ==
  ASSUME InvoicesSound, NEW form \in InvoiceForms, RecordInvoice(form)
  PROVE  LET row == invoices'[Len(invoices) + 1]
         IN  /\ invoices' = Append(invoices, row)
             /\ DOMAIN row = InvoiceColumns /\ InvoiceSound(row)
             /\ row.issue = form.issue /\ row.terms = form.terms
             /\ row.due = Resolved(form.issue, form.due, form.terms)
  <1> DEFINE lines == form.lines
             kept == [n \in DOMAIN lines |-> [quantity |-> Rounded(lines[n].quantity, 10),
                                             price |-> Money(lines[n].price)]]
             whole == \A n \in DOMAIN lines : /\ lines[n].quantity % 10 = 0
                                              /\ lines[n].price % 10 = 0
             sent == [n \in DOMAIN lines |-> lines[n].quantity * lines[n].price]
             row == [type |-> form.type, number |-> form.number, party |-> form.party,
                     issue |-> form.issue, due |-> Resolved(form.issue, form.due, form.terms),
                     terms |-> form.terms, currency |-> form.currency,
                     subtotal |-> Subtotal(lines), tax |-> Money(form.tax),
                     withholding |-> Money(form.withholding), total |-> InvoiceTotal(form),
                     lines |-> kept,
                     exact |-> whole,
                     status |-> form.status, reference |-> form.reference]
  <1>1. invoices' = Append(invoices, row) /\ InvoiceTotal(form) >= 0
    BY DEF RecordInvoice
  <1>2. /\ form.type \in InvoiceTypes /\ form.party \in BOOLEAN /\ form.issue \in Int
        /\ lines \in Seq([quantity : Nat \ {0}, price : Nat])
        /\ form.tax \in Nat /\ form.withholding \in Nat
    BY FormsAssumption
  <1>3. /\ IsFiniteSet(DOMAIN lines)
        /\ \A n \in DOMAIN lines : lines[n] \in [quantity : Nat \ {0}, price : Nat]
    BY <1>2, LineIndices
  <1>4. \A n \in DOMAIN lines : sent[n] \in Nat
    BY <1>3
  <1>5. Subtotal(lines) \in Nat
    <2>1. SumFunctionOnSet(sent, DOMAIN lines) \in Nat
      <3> HIDE DEF sent, lines
      <3> QED BY <1>3, <1>4, SumNat
    <2>2. Subtotal(lines) = Rounded(SumFunctionOnSet(sent, DOMAIN lines), 100000000)
      BY DEF Subtotal, SumFunction
    <2> QED BY <2>1, <2>2, RoundedFacts
  <1>6. /\ Money(form.tax) \in Nat /\ Money(form.withholding) \in Nat
        /\ InvoiceTotal(form) = Subtotal(lines) + Money(form.tax) - Money(form.withholding)
    <2>1. Money(form.tax) \in Nat /\ Money(form.withholding) \in Nat
      BY <1>2, MoneyFacts
    <2> QED BY <2>1 DEF InvoiceTotal
  <1>7. InvoiceTotal(form) \in Nat
    BY <1>1, <1>5, <1>6
  <1>8. ASSUME whole
        PROVE  Subtotal(lines) = LinesOf(row)
    <2> DEFINE stored == [n \in DOMAIN lines |-> kept[n].quantity * kept[n].price]
    <2>1. ASSUME NEW n \in DOMAIN lines
          PROVE  stored[n] \in Int /\ sent[n] = 100 * stored[n]
      <3>1. /\ lines[n].quantity \in Nat /\ lines[n].price \in Nat
            /\ kept[n].quantity = Rounded(lines[n].quantity, 10)
            /\ kept[n].price = Money(lines[n].price)
        BY <1>3
      <3>2. lines[n].price = 10 * kept[n].price /\ kept[n].price \in Nat
        BY <1>8, <3>1, MoneyFacts
      <3>3. lines[n].quantity = 10 * kept[n].quantity /\ kept[n].quantity \in Nat
        BY <1>8, <3>1, RoundedFacts
      <3>4. stored[n] = kept[n].quantity * kept[n].price
            /\ sent[n] = (10 * kept[n].quantity) * (10 * kept[n].price)
        BY <3>2, <3>3
      <3> HIDE DEF kept, stored, sent, lines
      <3> QED BY <3>2, <3>3, <3>4, TimesHundred
    <2>2. SumFunction(sent) = 100 * SumFunction(stored) /\ SumFunction(stored) \in Int
      <3>1. DOMAIN stored = DOMAIN lines /\ DOMAIN sent = DOMAIN lines
        OBVIOUS
      <3> HIDE DEF stored, sent, lines
      <3> QED BY <1>3, <2>1, <3>1, SumOfHundredfold
    <2>3. LinesOf(row) = Rounded(SumFunction(stored), 1000000)
      BY DEF LinesOf
    <2>4. Subtotal(lines) = Rounded(SumFunction(sent), 100000000)
      BY DEF Subtotal
    <2> HIDE DEF stored, sent, row, lines
    <2> QED BY <2>2, <2>3, <2>4, RoundedFacts
  <1>9. DOMAIN row = InvoiceColumns
    BY DEF InvoiceColumns
  <1>10. /\ row.type = form.type /\ row.party = form.party /\ row.issue = form.issue
         /\ row.due = Resolved(form.issue, form.due, form.terms) /\ row.terms = form.terms
         /\ row.subtotal = Subtotal(lines) /\ row.tax = Money(form.tax)
         /\ row.withholding = Money(form.withholding) /\ row.total = InvoiceTotal(form)
         /\ row.lines = kept /\ (row.exact <=> whole)
    OBVIOUS
  <1>13. kept \in Seq([quantity : Nat, price : Nat])
    <2>1. Len(lines) \in Nat /\ DOMAIN lines = 1..Len(lines)
      BY <1>2, LineIndices
    <2>2. ASSUME NEW n \in DOMAIN lines
          PROVE  Rounded(lines[n].quantity, 10) \in Nat /\ Money(lines[n].price) \in Nat
      <3>1. lines[n].quantity \in Nat /\ lines[n].price \in Nat
        BY <1>3
      <3>2. \A q, p \in Nat : Rounded(q, 10) \in Nat /\ Money(p) \in Nat
        BY ONLY DEF Rounded, Money
      <3> QED BY ONLY <3>1, <3>2
    <2> HIDE DEF lines, row, sent, whole
    <2>3. kept \in [1..Len(lines) -> [quantity : Nat, price : Nat]]
      BY <2>1, <2>2
    <2> HIDE DEF kept
    <2> QED BY ONLY <2>1, <2>3, SeqOfIndices
  <1> HIDE DEF row, sent, kept, whole, lines
  <1>11. InvoiceSound(row)
    BY <1>2, <1>5, <1>6, <1>7, <1>8, <1>10, <1>13 DEF InvoiceSound
  <1>12. invoices'[Len(invoices) + 1] = row
    BY <1>1, TableAppend DEF InvoicesSound
  <1> QED BY <1>1, <1>9, <1>10, <1>11, <1>12

-----------------------------------------------------------------------------
(* Invoices *)

LEMMA SoundByKept ==
  ASSUME NEW old, NEW new, InvoiceSound(old), \A c \in Kept : new[c] = old[c]
  PROVE  InvoiceSound(new)
  <1>1. /\ new.type = old.type /\ new.party = old.party /\ new.issue = old.issue
        /\ new.total = old.total /\ new.subtotal = old.subtotal /\ new.tax = old.tax
        /\ new.withholding = old.withholding /\ new.exact = old.exact /\ new.lines = old.lines
    BY DEF Kept, InvoiceColumns
  <1> QED BY <1>1 DEF InvoiceSound, LinesOf

LEMMA TermsCommitted ==
  ASSUME InvoicesSound, RequestsSound, NEW r \in Requests, CommitTerms(r)
  PROVE  LET q == requests[r]
         IN  /\ Table(invoices') /\ DOMAIN invoices' = DOMAIN invoices /\ q.id \in DOMAIN invoices
             /\ invoices'[q.id] = Merged(invoices[q.id], q.changes)
             /\ \A i \in DOMAIN invoices : i # q.id => invoices'[i] = invoices[i]
             /\ \A i \in DOMAIN invoices :
                   /\ DOMAIN invoices'[i] = InvoiceColumns
                   /\ \A c \in InvoiceColumns \ {"due", "terms"} : invoices'[i][c] = invoices[i][c]
  <1> DEFINE q == requests[r]
  <1>1. /\ q.op = "terms" /\ invoices' = [invoices EXCEPT ![q.id] = Merged(@, q.changes)]
        /\ TermsPending(q)
    BY DEF CommitTerms, RequestsSound, RequestSound
  <1>2. q.id \in DOMAIN invoices /\ DOMAIN q.changes \subseteq {"due", "terms"}
    <2>1. PICK due, terms \in Optional : q.changes = Changes(q.loaded, [due |-> due, terms |-> terms])
      BY <1>1 DEF TermsPending
    <2>2. DOMAIN q.changes \subseteq DOMAIN [due |-> due, terms |-> terms]
      BY <2>1, ChangesFacts
    <2> QED BY <1>1, <2>2 DEF TermsPending
  <1>3. \A i \in DOMAIN invoices : DOMAIN invoices[i] = InvoiceColumns
    BY DEF InvoicesSound
  <1> HIDE DEF q
  <1>4. invoices' = [i \in DOMAIN invoices |-> invoices'[i]] /\ Table(invoices)
    BY <1>1 DEF InvoicesSound
  <1>5. Table(invoices')
    BY <1>4, TableMap
  <1>6. /\ invoices'[q.id] = Merged(invoices[q.id], q.changes)
        /\ \A i \in DOMAIN invoices : i # q.id => invoices'[i] = invoices[i]
    BY <1>1, <1>2
  <1>7. ASSUME NEW i \in DOMAIN invoices
        PROVE  /\ DOMAIN invoices'[i] = InvoiceColumns
               /\ \A c \in InvoiceColumns \ {"due", "terms"} : invoices'[i][c] = invoices[i][c]
    <2>1. CASE i = q.id
      BY <1>2, <1>3, <1>6, <2>1, MergedFacts
    <2>2. CASE i # q.id
      BY <1>3, <1>6, <2>2
    <2> QED BY <2>1, <2>2
  <1> QED BY <1>2, <1>4, <1>5, <1>6, <1>7 DEF q

\* The row an import has accepted for an invoice.
Rows(q, i) == {n \in DOMAIN q.accepted : q.accepted[n].invoice = i}

LEMMA EvidenceCommitted ==
  ASSUME InvoicesSound, RequestsSound, NEW r \in Requests, CommitEvidence(r)
  PROVE  LET q == requests[r]
         IN  /\ EvidencePending(q)
             /\ Table(invoices') /\ DOMAIN invoices' = DOMAIN invoices
             /\ \A i \in DOMAIN invoices : Rows(q, i) = {} => invoices'[i] = invoices[i]
             /\ \A n \in DOMAIN q.accepted :
                   invoices'[q.accepted[n].invoice] =
                      Merged(invoices[q.accepted[n].invoice],
                             Changes(q.accepted[n].loaded, q.accepted[n].new))
             /\ \A i \in DOMAIN invoices :
                   /\ DOMAIN invoices'[i] = InvoiceColumns
                   /\ \A c \in InvoiceColumns \ {"status", "reference"} :
                         invoices'[i][c] = invoices[i][c]
             /\ audit' = audit \o q.accepted
             /\ \A i : <<"evidence", i>> \notin stale' =>
                   /\ <<"evidence", i>> \notin stale
                   /\ \A n \in DOMAIN q.accepted : q.accepted[n].invoice = i =>
                         Columns(invoices[i], {"status", "reference"}) = q.accepted[n].loaded
             /\ \A i : <<"terms", i>> \in stale' <=> <<"terms", i>> \in stale
  <1> DEFINE q == requests[r]
             row(i) == q.accepted[CHOOSE n \in Rows(q, i) : TRUE]
  <1>1. /\ q.op = "evidence" /\ EvidencePending(q)
        /\ invoices' = [i \in DOMAIN invoices |->
               IF Rows(q, i) = {} THEN invoices[i] ELSE Evidenced(invoices[i], row(i))]
        /\ audit' = audit \o q.accepted
        /\ stale' = stale \cup {<<"evidence", i>> : i \in {j \in DOMAIN invoices :
               /\ Rows(q, j) # {}
               /\ Columns(invoices[j], {"status", "reference"}) # row(j).loaded}}
    BY DEF CommitEvidence, RequestsSound, RequestSound, Rows
  <1>2. \A i \in DOMAIN invoices : DOMAIN invoices[i] = InvoiceColumns
    BY DEF InvoicesSound
  <1>3. ASSUME NEW n \in DOMAIN q.accepted
        PROVE  /\ q.accepted[n].invoice \in DOMAIN invoices
               /\ Rows(q, q.accepted[n].invoice) = {n}
               /\ row(q.accepted[n].invoice) = q.accepted[n]
    <2>1. Rows(q, q.accepted[n].invoice) = {n}
      <3>1. \A m \in DOMAIN q.accepted :
              /\ invoices[q.accepted[m].invoice].number = q.accepted[m].number
              /\ q.accepted[n].number = q.accepted[m].number => n = m
        BY <1>1 DEF EvidencePending, AcceptedRow
      <3>2. \A m \in DOMAIN q.accepted : q.accepted[m].invoice = q.accepted[n].invoice => m = n
        BY <3>1
      <3> QED BY <3>2 DEF Rows
    <2>2. q.accepted[n].invoice \in DOMAIN invoices
      BY <1>1 DEF EvidencePending, AcceptedRow
    <2>3. row(q.accepted[n].invoice) = q.accepted[n]
      BY <2>1
    <2> QED BY <2>1, <2>2, <2>3
  <1>4. \A n \in DOMAIN q.accepted : DOMAIN q.accepted[n].new = {"status", "reference"}
    <2> SUFFICES ASSUME NEW n \in DOMAIN q.accepted
                 PROVE  DOMAIN q.accepted[n].new = {"status", "reference"}
      OBVIOUS
    <2>1. AcceptedRow(q.accepted[n], q.file, q.next)
      BY <1>1 DEF EvidencePending
    <2>2. q.accepted[n].new = Columns(q.accepted[n].new, {"status", "reference"})
      BY ONLY <2>1 DEF AcceptedRow
    <2>3. DOMAIN Columns(q.accepted[n].new, {"status", "reference"}) = {"status", "reference"}
      BY DEF Columns
    <2> QED BY ONLY <2>2, <2>3, Zenon
  <1>5. Table(invoices') /\ DOMAIN invoices' = DOMAIN invoices
    <2>1. invoices' = [i \in DOMAIN invoices |-> invoices'[i]] /\ Table(invoices)
      BY <1>1 DEF InvoicesSound
    <2> QED BY <2>1, TableMap
  <1>6. \A i \in DOMAIN invoices : Rows(q, i) = {} => invoices'[i] = invoices[i]
    BY <1>1
  <1>7. ASSUME NEW n \in DOMAIN q.accepted
        PROVE  invoices'[q.accepted[n].invoice] =
                  Merged(invoices[q.accepted[n].invoice],
                         Changes(q.accepted[n].loaded, q.accepted[n].new))
    <2>1. invoices'[q.accepted[n].invoice] = Evidenced(invoices[q.accepted[n].invoice], q.accepted[n])
      BY <1>1, <1>3
    <2> QED BY <2>1 DEF Evidenced
  <1>8. ASSUME NEW i \in DOMAIN invoices
        PROVE  /\ DOMAIN invoices'[i] = InvoiceColumns
               /\ \A c \in InvoiceColumns \ {"status", "reference"} : invoices'[i][c] = invoices[i][c]
    <2>1. CASE Rows(q, i) = {}
      BY <1>2, <1>6, <2>1
    <2>2. CASE Rows(q, i) # {}
      <3>1. PICK n \in DOMAIN q.accepted : q.accepted[n].invoice = i
        BY <2>2 DEF Rows
      <3>2. DOMAIN Changes(q.accepted[n].loaded, q.accepted[n].new) \subseteq {"status", "reference"}
        BY <1>4, <3>1, ChangesFacts
      <3> DEFINE changes == Changes(q.accepted[n].loaded, q.accepted[n].new)
      <3>3. invoices'[i] = Merged(invoices[i], changes)
        BY <1>7, <3>1
      <3> HIDE DEF changes, q
      <3>4. DOMAIN changes \subseteq {"status", "reference"}
        BY <3>2 DEF changes
      <3> QED BY <1>2, <3>3, <3>4, MergedFacts
    <2> QED BY <2>1, <2>2
  <1>9. ASSUME NEW i, <<"evidence", i>> \notin stale'
        PROVE  /\ <<"evidence", i>> \notin stale
               /\ \A n \in DOMAIN q.accepted : q.accepted[n].invoice = i =>
                     Columns(invoices[i], {"status", "reference"}) = q.accepted[n].loaded
    <2>1. <<"evidence", i>> \notin stale
      BY <1>1, <1>9
    <2>2. ASSUME NEW n \in DOMAIN q.accepted, q.accepted[n].invoice = i
          PROVE  Columns(invoices[i], {"status", "reference"}) = q.accepted[n].loaded
      <3>1. i \in DOMAIN invoices /\ Rows(q, i) # {} /\ row(i) = q.accepted[n]
        BY <1>3, <2>2
      <3> QED BY <1>1, <1>9, <3>1
    <2> QED BY <2>1, <2>2
  <1>10. \A i : <<"terms", i>> \in stale' <=> <<"terms", i>> \in stale
    BY <1>1
  <1> QED BY <1>1, <1>5, <1>6, <1>7, <1>8, <1>9, <1>10

\* Rows of invoices are never taken away, and what is kept of them never changes.
LEMMA InvoicesKept ==
  ASSUME IInv, [Next]_vars
  PROVE  /\ InvoicesSound' /\ DOMAIN invoices \subseteq DOMAIN invoices'
         /\ \A i \in DOMAIN invoices : \A c \in Kept : invoices'[i][c] = invoices[i][c]
  <1> USE DEF IInv
  <1>1. CASE UNCHANGED invoices
    BY <1>1 DEF InvoicesSound
  <1>2. ASSUME NEW form \in InvoiceForms, RecordInvoice(form)
        PROVE  /\ InvoicesSound' /\ DOMAIN invoices \subseteq DOMAIN invoices'
               /\ \A i \in DOMAIN invoices : invoices'[i] = invoices[i]
    <2>1. PICK row : /\ invoices' = Append(invoices, row) /\ DOMAIN row = InvoiceColumns
                     /\ InvoiceSound(row)
      BY <1>2, InvoiceCaptured
    <2>2. /\ Table(invoices') /\ DOMAIN invoices' = DOMAIN invoices \cup {Len(invoices) + 1}
          /\ invoices'[Len(invoices) + 1] = row
          /\ \A i \in DOMAIN invoices : invoices'[i] = invoices[i]
      BY <2>1, TableAppend DEF InvoicesSound
    <2>3. \A i \in DOMAIN invoices' : DOMAIN invoices'[i] = InvoiceColumns /\ InvoiceSound(invoices'[i])
      BY <2>1, <2>2 DEF InvoicesSound
    <2> QED BY <2>2, <2>3 DEF InvoicesSound
  <1>3. ASSUME NEW r \in Requests, CommitTerms(r) \/ CommitEvidence(r)
        PROVE  /\ InvoicesSound' /\ DOMAIN invoices \subseteq DOMAIN invoices'
               /\ \A i \in DOMAIN invoices : \A c \in Kept : invoices'[i][c] = invoices[i][c]
    <2>1. /\ Table(invoices') /\ DOMAIN invoices' = DOMAIN invoices
          /\ \A i \in DOMAIN invoices :
                /\ DOMAIN invoices'[i] = InvoiceColumns
                /\ \A c \in Kept : invoices'[i][c] = invoices[i][c]
      BY <1>3, TermsCommitted, EvidenceCommitted DEF Kept
    <2>2. \A i \in DOMAIN invoices : InvoiceSound(invoices'[i])
      BY <2>1, SoundByKept DEF InvoicesSound
    <2> QED BY <2>1, <2>2 DEF InvoicesSound
  <1> QED BY <1>1, <1>2, <1>3, Moves DEF InvoicesMove

-----------------------------------------------------------------------------
(* Payments, journals and parties *)

LEMMA PaymentsStep ==
  ASSUME IInv, [Next]_vars
  PROVE  PaymentsSound'
  <1>1. CASE UNCHANGED payments
    BY <1>1, InvoicesKept DEF IInv, PaymentsSound
  <1>2. ASSUME NEW form \in PaymentForms, NEW i \in DOMAIN invoices \cup {None},
               RecordPayment(form, i)
        PROVE  PaymentsSound'
    <2> DEFINE row == [invoice |-> i, amount |-> Money(form.amount), currency |-> form.currency,
                       date |-> form.date]
    <2>1. payments' = Append(payments, row) /\ UNCHANGED invoices /\ Table(payments)
      BY <1>2 DEF RecordPayment, IInv, PaymentsSound
    <2>2. row.invoice = i /\ row.amount \in Nat \ {0} /\ row.date \in Int
      <3>1. form.amount \in Nat /\ form.date \in Int /\ Money(form.amount) > 0
        BY <1>2, FormsAssumption DEF RecordPayment
      <3> QED BY <3>1, MoneyFacts
    <2> HIDE DEF row
    <2>3. /\ Table(payments') /\ DOMAIN payments' = DOMAIN payments \cup {Len(payments) + 1}
          /\ payments'[Len(payments) + 1] = row
          /\ \A p \in DOMAIN payments : payments'[p] = payments[p]
      BY <2>1, TableAppend
    <2> QED BY <2>1, <2>2, <2>3 DEF IInv, PaymentsSound
  <1> QED BY <1>1, <1>2, Moves DEF PaymentsMove

\* A journal that balances has lines, and with whole cents the lines balance.
LEMMA JournalCaptured ==
  ASSUME NEW lines \in JournalForms, RecordJournal(lines)
  PROVE  \E row : journals' = Append(journals, row) /\ JournalSound(row)
  <1> DEFINE stored == [n \in DOMAIN lines |-> [debit |-> Money(lines[n].debit),
                                                credit |-> Money(lines[n].credit)]]
             row == [lines |-> stored,
                     exact |-> \A n \in DOMAIN lines : /\ lines[n].debit % 10 = 0
                                                       /\ lines[n].credit % 10 = 0]
             debits == [n \in DOMAIN lines |-> lines[n].debit]
             credits == [n \in DOMAIN lines |-> lines[n].credit]
  <1>1. journals' = Append(journals, row) /\ Balanced(lines)
    BY DEF RecordJournal
  <1>2. /\ IsFiniteSet(DOMAIN lines) /\ DOMAIN lines = 1..Len(lines) /\ Len(lines) \in Nat
        /\ \A n \in DOMAIN lines : lines[n].debit \in Nat /\ lines[n].credit \in Nat
    <2>1. lines \in Seq([debit : Nat, credit : Nat])
      BY FormsAssumption
    <2>2. DOMAIN lines = 1..Len(lines) /\ Len(lines) \in Nat
      BY <2>1
    <2>3. IsFiniteSet(DOMAIN lines) /\ \A n \in DOMAIN lines : lines[n] \in [debit : Nat, credit : Nat]
      BY <2>1, LineIndices
    <2> QED BY <2>2, <2>3
  <1>3. /\ Money(SumFunction(debits)) = Money(SumFunction(credits)) /\ Money(SumFunction(debits)) > 0
        /\ \A n \in DOMAIN lines : lines[n].debit = 0 \/ lines[n].credit = 0
    BY <1>1 DEF Balanced
  <1>4. row.lines = stored /\ DOMAIN stored = DOMAIN lines
    OBVIOUS
  <1>5. row.lines # <<>>
    <2> SUFFICES ASSUME row.lines = <<>> PROVE FALSE
      OBVIOUS
    <2>1. DOMAIN debits = {}
      BY <1>4
    <2>2. SumFunction(debits) = 0
      <3> HIDE DEF debits
      <3> QED BY <2>1, SumNone DEF SumFunction
    <2> QED BY <1>3, <2>2, MoneyFacts
  <1>6. ASSUME NEW n \in DOMAIN lines
        PROVE  /\ stored[n].debit \in Nat /\ stored[n].credit \in Nat
               /\ stored[n].debit = 0 \/ stored[n].credit = 0
    <2>1. stored[n].debit = Money(lines[n].debit) /\ stored[n].credit = Money(lines[n].credit)
      OBVIOUS
    <2> HIDE DEF stored
    <2> QED BY <1>2, <1>3, <2>1, MoneyFacts
  <1>7. ASSUME row.exact
        PROVE  DebitOf(row) = CreditOf(row)
    <2> DEFINE left == [n \in DOMAIN lines |-> stored[n].debit]
               right == [n \in DOMAIN lines |-> stored[n].credit]
    <2>1. \A n \in DOMAIN lines : /\ lines[n].debit % 10 = 0 /\ lines[n].credit % 10 = 0
      BY <1>7
    <2>2. \A n \in DOMAIN lines : left[n] = Money(lines[n].debit) /\ right[n] = Money(lines[n].credit)
      OBVIOUS
    <2>3. \A n \in DOMAIN lines : debits[n] = lines[n].debit /\ credits[n] = lines[n].credit
      OBVIOUS
    <2>4. /\ DOMAIN left = DOMAIN lines /\ DOMAIN right = DOMAIN lines
          /\ DOMAIN debits = DOMAIN lines /\ DOMAIN credits = DOMAIN lines
      OBVIOUS
    <2>5. DebitOf(row) = SumFunction(left) /\ CreditOf(row) = SumFunction(right)
      BY DEF DebitOf, CreditOf
    <2> HIDE DEF left, right, debits, credits, stored, row
    <2>6. \A n \in DOMAIN lines : /\ left[n] \in Int /\ debits[n] = 10 * left[n]
                                  /\ right[n] \in Int /\ credits[n] = 10 * right[n]
      <3> SUFFICES ASSUME NEW n \in DOMAIN lines
                   PROVE  /\ left[n] \in Int /\ debits[n] = 10 * left[n]
                          /\ right[n] \in Int /\ credits[n] = 10 * right[n]
        OBVIOUS
      <3>1. /\ lines[n].debit \in Int /\ lines[n].debit % 10 = 0
            /\ lines[n].credit \in Int /\ lines[n].credit % 10 = 0
        BY <1>2, <2>1
      <3>2. /\ Money(lines[n].debit) \in Int /\ lines[n].debit = 10 * Money(lines[n].debit)
            /\ Money(lines[n].credit) \in Int /\ lines[n].credit = 10 * Money(lines[n].credit)
        BY ONLY <3>1, MoneyFacts
      <3> QED BY <2>2, <2>3, <3>2
    <2>7. SumFunction(left) = Money(SumFunction(debits))
      BY ONLY <1>2, <2>4, <2>6, SumOfWhole
    <2>8. SumFunction(right) = Money(SumFunction(credits))
      BY ONLY <1>2, <2>4, <2>6, SumOfWhole
    <2> QED BY <1>3, <2>5, <2>7, <2>8
  <1> HIDE DEF stored
  <1>8. JournalSound(row)
    BY <1>4, <1>5, <1>6, <1>7 DEF JournalSound
  <1> QED BY <1>1, <1>8

LEMMA JournalsStep ==
  ASSUME IInv, [Next]_vars
  PROVE  JournalsSound'
  <1>1. CASE UNCHANGED journals
    BY <1>1 DEF IInv, JournalsSound
  <1>2. ASSUME NEW lines \in JournalForms, RecordJournal(lines)
        PROVE  JournalsSound'
    <2>1. PICK row : journals' = Append(journals, row) /\ JournalSound(row)
      BY <1>2, JournalCaptured
    <2>2. /\ Table(journals') /\ DOMAIN journals' = DOMAIN journals \cup {Len(journals) + 1}
          /\ journals'[Len(journals) + 1] = row
          /\ \A j \in DOMAIN journals : journals'[j] = journals[j]
      BY <2>1, TableAppend DEF IInv, JournalsSound
    <2> QED BY <2>1, <2>2 DEF IInv, JournalsSound
  <1> QED BY <1>1, <1>2, Moves DEF JournalsMove

LEMMA PartiesStep ==
  ASSUME IInv, [Next]_vars
  PROVE  PartiesSound'
  <1>1. CASE UNCHANGED parties
    BY <1>1 DEF IInv, PartiesSound
  <1>2. ASSUME NEW form \in PartyForms, RecordParty(form)
        PROVE  PartiesSound'
    <2>1. parties' = Append(parties, form) /\ Table(parties) /\ form.has \subseteq PartyFields
      BY <1>2, PartiesAssumption DEF RecordParty, IInv, PartiesSound
    <2>2. /\ Table(parties') /\ DOMAIN parties' = DOMAIN parties \cup {Len(parties) + 1}
          /\ parties'[Len(parties) + 1] = form
          /\ \A p \in DOMAIN parties : parties'[p] = parties[p]
      BY <2>1, TableAppend
    <2> QED BY <2>1, <2>2 DEF IInv, PartiesSound
  <1> QED BY <1>1, <1>2, Moves DEF PartiesMove

-----------------------------------------------------------------------------
(* Terms of payment *)

LEMMA ResolvedAgrees ==
  ASSUME NEW issue \in Int, NEW due \in Optional, NEW terms \in Optional,
         Resolvable(issue, due, terms)
  PROVE  Resolved(issue, due, terms) \in Optional /\ Agreed(issue, Resolved(issue, due, terms), terms)
  <1>1. CASE terms # None
    <2>1. terms \in Nat /\ Resolved(issue, due, terms) = issue + terms
      BY <1>1, LimitsAssumption DEF Resolvable, Resolved
    <2> QED BY <2>1 DEF Optional, Agreed, DueLater
  <1>2. CASE terms = None
    BY <1>2 DEF Resolvable, Resolved, Agreed, DueLater
  <1> QED BY <1>1, <1>2

LEMMA TermsStep ==
  ASSUME IInv, [Next]_vars
  PROVE  TermsSound'
  <1>1. CASE UNCHANGED <<invoices, stale>>
    BY <1>1 DEF IInv, TermsSound
  <1>2. ASSUME NEW form \in InvoiceForms, RecordInvoice(form)
        PROVE  TermsSound'
    <2>1. PICK row : /\ invoices' = Append(invoices, row)
                     /\ row.issue = form.issue /\ row.terms = form.terms
                     /\ row.due = Resolved(form.issue, form.due, form.terms)
      BY <1>2, InvoiceCaptured DEF IInv
    <2>2. /\ DOMAIN invoices' = DOMAIN invoices \cup {Len(invoices) + 1}
          /\ invoices'[Len(invoices) + 1] = row
          /\ \A i \in DOMAIN invoices : invoices'[i] = invoices[i]
      BY <2>1, TableAppend DEF IInv, InvoicesSound
    <2>3. /\ form.issue \in Int /\ form.due \in Optional /\ form.terms \in Optional
          /\ Resolvable(form.issue, form.due, form.terms) /\ UNCHANGED stale
      BY <1>2, FormsAssumption DEF RecordInvoice, Optional
    <2>4. row.due \in Optional /\ row.terms \in Optional /\ Agreed(row.issue, row.due, row.terms)
      BY <2>1, <2>3, ResolvedAgrees
    <2> QED BY <2>2, <2>3, <2>4 DEF IInv, TermsSound, Agreed
  <1>3. ASSUME NEW r \in Requests, CommitTerms(r)
        PROVE  TermsSound'
    <2> DEFINE q == requests[r]
               old == invoices[q.id]
               new == invoices'[q.id]
    <2>1. /\ DOMAIN invoices' = DOMAIN invoices /\ q.id \in DOMAIN invoices
          /\ new = Merged(old, q.changes)
          /\ \A i \in DOMAIN invoices : i # q.id => invoices'[i] = invoices[i]
          /\ \A i \in DOMAIN invoices : \A c \in InvoiceColumns \ {"due", "terms"} :
                invoices'[i][c] = invoices[i][c]
      BY <1>3, TermsCommitted DEF IInv
    <2>2. TermsPending(q)
      BY <1>3 DEF IInv, RequestsSound, RequestSound, CommitTerms
    <2>3. PICK due, terms \in Optional :
             /\ Agreed(old.issue, due, terms)
             /\ q.changes = Changes(q.loaded, [due |-> due, terms |-> terms])
      BY <2>2 DEF TermsPending
    <2>4. /\ new.issue = old.issue /\ DOMAIN old = InvoiceColumns
          /\ old.due \in Optional /\ old.terms \in Optional /\ DueLater(old.issue, old.due)
      BY <2>1 DEF IInv, InvoicesSound, InvoiceColumns, TermsSound
    <2> DEFINE meant == [due |-> due, terms |-> terms]
    <2>5. /\ DOMAIN meant = {"due", "terms"} /\ meant["due"] = due /\ meant["terms"] = terms
          /\ q.changes = Changes(q.loaded, meant)
      BY <2>3
    <2>6. stale \subseteq stale' /\ (Columns(old, DOMAIN q.loaded) = q.loaded
                                        \/ <<"terms", q.id>> \in stale')
      BY <1>3 DEF CommitTerms, MarkStale
    <2>7. DOMAIN q.loaded = {"due", "terms"}
      BY <2>2 DEF TermsPending
    <2> HIDE DEF q, old, new, meant
    <2>8. /\ new["due"] \in {due, old["due"]} /\ new["terms"] \in {terms, old["terms"]}
      <3>1. "due" \in DOMAIN old /\ "terms" \in DOMAIN old
        BY <2>4 DEF InvoiceColumns
      <3>2. \A c \in DOMAIN q.changes : q.changes[c] = meant[c]
        BY <2>5, ChangesFacts
      <3> QED BY <2>1, <2>5, <3>1, <3>2, MergedFacts
    <2>9. ASSUME <<"terms", q.id>> \notin stale'
          PROVE  new["due"] = due /\ new["terms"] = terms
      <3>1. \A c \in DOMAIN meant : old[c] = q.loaded[c]
        BY <2>5, <2>6, <2>7, <2>9 DEF Columns
      <3>2. DOMAIN meant \subseteq DOMAIN old
        BY <2>4, <2>5 DEF InvoiceColumns
      <3>3. \A c \in DOMAIN meant : new[c] = meant[c]
        BY <2>1, <2>5, <3>1, <3>2, MergedAsMeant
      <3> QED BY <2>5, <3>3
    <2>10. /\ new.due \in Optional /\ new.terms \in Optional /\ DueLater(new.issue, new.due)
           /\ <<"terms", q.id>> \notin stale' => Agreed(new.issue, new.due, new.terms)
      BY <2>3, <2>4, <2>8, <2>9 DEF Agreed
    <2>11. ASSUME NEW i \in DOMAIN invoices', i # q.id
           PROVE  /\ invoices'[i].due \in Optional /\ invoices'[i].terms \in Optional
                  /\ DueLater(invoices'[i].issue, invoices'[i].due)
                  /\ <<"terms", i>> \notin stale' =>
                        Agreed(invoices'[i].issue, invoices'[i].due, invoices'[i].terms)
      BY <2>1, <2>6, <2>11 DEF IInv, TermsSound
    <2> QED BY <2>10, <2>11 DEF TermsSound, new
  <1>4. ASSUME NEW r \in Requests, CommitEvidence(r)
        PROVE  TermsSound'
    <2>1. /\ DOMAIN invoices' = DOMAIN invoices
          /\ \A i \in DOMAIN invoices : \A c \in InvoiceColumns \ {"status", "reference"} :
                invoices'[i][c] = invoices[i][c]
          /\ \A i : <<"terms", i>> \in stale' <=> <<"terms", i>> \in stale
      BY <1>4, EvidenceCommitted DEF IInv
    <2>2. \A i \in DOMAIN invoices : /\ invoices'[i].issue = invoices[i].issue
                                     /\ invoices'[i].due = invoices[i].due
                                     /\ invoices'[i].terms = invoices[i].terms
      BY <2>1 DEF InvoiceColumns
    <2> QED BY <2>1, <2>2 DEF IInv, TermsSound
  <1> QED BY <1>1, <1>2, <1>3, <1>4, Moves DEF InvoicesMove

-----------------------------------------------------------------------------
(* Collection follow-ups *)

LEMMA FollowUpsStep ==
  ASSUME IInv, [Next]_vars
  PROVE  FollowUpsSound' /\ DOMAIN followups \subseteq DOMAIN followups'
  <1>0. FollowUpsSound /\ OfType("sale") \subseteq OfType("sale")'
    <2>1. /\ DOMAIN invoices \subseteq DOMAIN invoices'
          /\ \A i \in DOMAIN invoices : \A c \in Kept : invoices'[i][c] = invoices[i][c]
      BY InvoicesKept
    <2>2. \A i \in DOMAIN invoices : invoices'[i].type = invoices[i].type
      BY <2>1 DEF Kept, InvoiceColumns
    <2> QED BY <2>1, <2>2 DEF IInv, OfType
  <1>1. CASE UNCHANGED followups /\ stamps' \in {stamps, stamps + 1}
    BY <1>0, <1>1 DEF FollowUpsSound
  <1>2. ASSUME NEW form \in FollowUpForms, NEW i \in DOMAIN invoices, RecordFollowUp(form, i)
        PROVE  FollowUpsSound' /\ DOMAIN followups \subseteq DOMAIN followups'
    <2> DEFINE row == [invoice |-> i, status |-> form.status, date |-> form.date,
                       updated |-> stamps']
    <2>1. /\ followups' = Append(followups, row) /\ stamps' = stamps + 1 /\ stamps \in Nat
          /\ PromiseDateValid(form.status, form.date) /\ form.date \in Optional
          /\ i \in OfType("sale")
      BY <1>0, <1>2, FormsAssumption DEF RecordFollowUp, FollowUpsSound, Optional, Collectable, OfType
    <2>2. /\ DOMAIN row = FollowUpColumns /\ row.invoice = i /\ row.date = form.date
          /\ row.status = form.status /\ row.updated = stamps + 1
      BY <2>1 DEF FollowUpColumns
    <2> HIDE DEF row
    <2>3. /\ Table(followups') /\ DOMAIN followups' = DOMAIN followups \cup {Len(followups) + 1}
          /\ followups'[Len(followups) + 1] = row
          /\ \A f \in DOMAIN followups : followups'[f] = followups[f]
      BY <1>0, <2>1, TableAppend DEF FollowUpsSound
    <2>4. ASSUME NEW f \in DOMAIN followups'
          PROVE  LET new == followups'[f]
                 IN  /\ DOMAIN new = FollowUpColumns
                     /\ new.invoice \in OfType("sale")' /\ new.date \in Optional
                     /\ PromiseDateValid(new.status, new.date)
                     /\ new.updated \in 1..stamps'
      BY <1>0, <2>1, <2>2, <2>3 DEF FollowUpsSound
    <2>5. \A f \in DOMAIN followups : followups'[f].updated # stamps + 1
      BY <1>0, <2>1, <2>3 DEF FollowUpsSound
    <2>6. \A f, g \in DOMAIN followups' : followups'[f].updated = followups'[g].updated => f = g
      BY <1>0, <2>2, <2>3, <2>5 DEF FollowUpsSound
    <2> QED BY <2>1, <2>3, <2>4, <2>6 DEF FollowUpsSound
  <1>3. ASSUME NEW r \in Requests, CommitFollowUp(r)
        PROVE  FollowUpsSound' /\ DOMAIN followups \subseteq DOMAIN followups'
    <2> DEFINE q == requests[r]
               old == followups[q.id]
               new == Merged(old, q.changes)
               row == [new EXCEPT !.updated = q.stamp]
    <2>1. /\ FollowUpPending(q) /\ stamps \in Nat /\ stamps' = stamps
          /\ q.stamp \in 1..stamps /\ \A f \in DOMAIN followups : followups[f].updated # q.stamp
          /\ \/ CheckConstraint(new.status, new.date) /\ followups' = [followups EXCEPT ![q.id] = row]
             \/ UNCHANGED followups
      BY <1>0, <1>3 DEF CommitFollowUp, IInv, RequestsSound, RequestSound, FollowUpsSound, StampsApart
    <2>2. CASE /\ CheckConstraint(new.status, new.date)
               /\ followups' = [followups EXCEPT ![q.id] = row]
      <3>1. q.id \in DOMAIN followups
        BY <2>1 DEF FollowUpPending
      <3>2. /\ DOMAIN old = FollowUpColumns /\ old.invoice \in OfType("sale") /\ old.date \in Optional
        BY <1>0, <3>1 DEF FollowUpsSound
      <3>3. /\ DOMAIN q.changes \subseteq {"status", "date"}
            /\ "date" \in DOMAIN q.changes => q.changes["date"] \in Optional
        BY <2>1 DEF FollowUpPending
      <3> HIDE DEF q, old
      <3>4. DOMAIN new = FollowUpColumns /\ new["invoice"] = old["invoice"] /\ new["date"] \in Optional
        <4>1. DOMAIN new = DOMAIN old
          BY MergedFacts
        <4>2. \A c \in DOMAIN old : new[c] = IF c \in DOMAIN q.changes THEN q.changes[c] ELSE old[c]
          BY MergedFacts
        <4>3. "invoice" \in DOMAIN old /\ "date" \in DOMAIN old
          BY <3>2 DEF FollowUpColumns
        <4> HIDE DEF new
        <4> QED BY <3>2, <3>3, <4>1, <4>2, <4>3
      <3> HIDE DEF new
      <3>5. /\ DOMAIN row = FollowUpColumns /\ row.updated = q.stamp
            /\ row.invoice = new.invoice /\ row.status = new.status /\ row.date = new.date
        BY <3>4 DEF FollowUpColumns
      <3>6. PromiseDateValid(row.status, row.date)
        BY <2>2, <3>5 DEF CheckConstraint
      <3> HIDE DEF row
      <3>7. /\ DOMAIN followups' = DOMAIN followups /\ followups'[q.id] = row
            /\ \A f \in DOMAIN followups : f # q.id => followups'[f] = followups[f]
        BY <2>2, <3>1
      <3>8. Table(followups')
        <4>1. followups' = [f \in DOMAIN followups |-> followups'[f]] /\ Table(followups)
          BY <1>0, <2>2 DEF FollowUpsSound
        <4> QED BY <4>1, TableMap
      <3>9. ASSUME NEW f \in DOMAIN followups'
            PROVE  LET kept == followups'[f]
                   IN  /\ DOMAIN kept = FollowUpColumns
                       /\ kept.invoice \in OfType("sale")' /\ kept.date \in Optional
                       /\ PromiseDateValid(kept.status, kept.date)
                       /\ kept.updated \in 1..stamps'
        <4>1. CASE f = q.id
          BY <1>0, <2>1, <3>1, <3>2, <3>4, <3>5, <3>6, <3>7, <4>1
        <4>2. CASE f # q.id
          BY <1>0, <2>1, <3>7, <4>2 DEF FollowUpsSound
        <4> QED BY <4>1, <4>2
      <3>10. \A f \in DOMAIN followups : f # q.id => followups'[f].updated # q.stamp
        BY <2>1, <3>7
      <3>11. \A f, g \in DOMAIN followups' : followups'[f].updated = followups'[g].updated => f = g
        BY <1>0, <3>5, <3>7, <3>10 DEF FollowUpsSound
      <3> QED BY <2>1, <3>7, <3>8, <3>9, <3>11 DEF FollowUpsSound
    <2>3. CASE UNCHANGED followups
      BY <1>1, <2>1, <2>3
    <2> QED BY <2>1, <2>2, <2>3
  <1> QED BY <1>1, <1>2, <1>3, Moves DEF FollowUpsMove

-----------------------------------------------------------------------------
(* Electronic evidence *)

LEMMA EvidenceStep ==
  ASSUME IInv, [Next]_vars
  PROVE  EvidenceSound'
  <1>0. /\ Table(audit) /\ \A n \in DOMAIN audit : audit[n].invoice \in DOMAIN invoices
        /\ EvidenceIsAudited /\ DOMAIN audit = 1..Len(audit) /\ Len(audit) \in Nat
    BY TableShape DEF IInv, EvidenceSound
  \* Of a row of the audit that no operation here adds to, only the columns of
  \* its invoice matter.
  <1>1. ASSUME UNCHANGED audit, DOMAIN invoices \subseteq DOMAIN invoices',
               \A i \in DOMAIN invoices : /\ invoices'[i].number = invoices[i].number
                                          /\ invoices'[i].status = invoices[i].status
                                          /\ invoices'[i].reference = invoices[i].reference,
               \A i : <<"evidence", i>> \notin stale' => <<"evidence", i>> \notin stale
        PROVE  EvidenceSound'
    <2>1. \A i \in DOMAIN invoices : Columns(invoices'[i], {"status", "reference"})
                                        = Columns(invoices[i], {"status", "reference"})
      BY <1>1 DEF Columns
    <2>2. EvidenceIsAudited'
      BY <1>0, <1>1, <2>1 DEF EvidenceIsAudited
    <2> QED BY <1>0, <1>1, <2>2 DEF EvidenceSound
  <1>2. CASE UNCHANGED <<invoices, stale>> /\ UNCHANGED audit
    BY <1>1, <1>2
  <1>3. ASSUME NEW form \in InvoiceForms, RecordInvoice(form)
        PROVE  EvidenceSound'
    <2>1. PICK row : invoices' = Append(invoices, row)
      BY <1>3, InvoiceCaptured DEF IInv
    <2>2. /\ DOMAIN invoices \subseteq DOMAIN invoices'
          /\ \A i \in DOMAIN invoices : invoices'[i] = invoices[i]
      BY <2>1, TableAppend DEF IInv, InvoicesSound
    <2>3. UNCHANGED <<audit, stale>>
      BY <1>3 DEF RecordInvoice
    <2> QED BY <1>1, <2>2, <2>3
  <1>4. ASSUME NEW r \in Requests, CommitTerms(r)
        PROVE  EvidenceSound'
    <2>1. /\ DOMAIN invoices' = DOMAIN invoices
          /\ \A i \in DOMAIN invoices : \A c \in InvoiceColumns \ {"due", "terms"} :
                invoices'[i][c] = invoices[i][c]
      BY <1>4, TermsCommitted DEF IInv
    <2>2. \A i \in DOMAIN invoices : /\ invoices'[i].number = invoices[i].number
                                     /\ invoices'[i].status = invoices[i].status
                                     /\ invoices'[i].reference = invoices[i].reference
      BY <2>1 DEF InvoiceColumns
    <2>3. UNCHANGED audit /\ \A i : <<"evidence", i>> \notin stale' => <<"evidence", i>> \notin stale
      BY <1>4 DEF CommitTerms, MarkStale
    <2> QED BY <1>1, <2>1, <2>2, <2>3
  <1>5. ASSUME NEW r \in Requests, CommitEvidence(r)
        PROVE  EvidenceSound'
    <2>1. PICK q : q = requests[r]
      OBVIOUS
    <2>2. /\ EvidencePending(q) /\ DOMAIN invoices' = DOMAIN invoices
          /\ \A i \in DOMAIN invoices : Rows(q, i) = {} => invoices'[i] = invoices[i]
          /\ \A n \in DOMAIN q.accepted :
                invoices'[q.accepted[n].invoice] =
                   Merged(invoices[q.accepted[n].invoice],
                          Changes(q.accepted[n].loaded, q.accepted[n].new))
          /\ \A i \in DOMAIN invoices : \A c \in InvoiceColumns \ {"status", "reference"} :
                invoices'[i][c] = invoices[i][c]
          /\ audit' = audit \o q.accepted
          /\ \A i : <<"evidence", i>> \notin stale' =>
                /\ <<"evidence", i>> \notin stale
                /\ \A n \in DOMAIN q.accepted : q.accepted[n].invoice = i =>
                      Columns(invoices[i], {"status", "reference"}) = q.accepted[n].loaded
      BY <1>5, <2>1, EvidenceCommitted DEF IInv
    <2>3. /\ Table(q.accepted) /\ DOMAIN q.accepted = 1..Len(q.accepted) /\ Len(q.accepted) \in Nat
          /\ \A n \in DOMAIN q.accepted :
                LET row == q.accepted[n]
                IN  /\ row.invoice \in DOMAIN invoices /\ invoices[row.invoice].number = row.number
                    /\ row.new = Columns(row.new, {"status", "reference"})
      BY <2>2, TableShape DEF EvidencePending, AcceptedRow
    <2>4. \A i \in DOMAIN invoices : invoices'[i].number = invoices[i].number
      BY <2>2 DEF InvoiceColumns
    <2>5. /\ Table(audit') /\ Len(audit') = Len(audit) + Len(q.accepted)
          /\ DOMAIN audit' = 1..(Len(audit) + Len(q.accepted))
          /\ \A n \in DOMAIN audit : audit'[n] = audit[n]
          /\ \A n \in DOMAIN q.accepted : audit'[Len(audit) + n] = q.accepted[n]
      BY <1>0, <2>2, <2>3, TableConcat
    <2>6. ASSUME NEW n \in DOMAIN audit'
          PROVE  n \in DOMAIN audit \/ \E m \in DOMAIN q.accepted : n = Len(audit) + m
      <3>1. n \in 1..(Len(audit) + Len(q.accepted))
        BY <2>5
      <3>2. CASE n <= Len(audit)
        BY <1>0, <3>1, <3>2
      <3>3. CASE n > Len(audit)
        <4>1. n - Len(audit) \in 1..Len(q.accepted) /\ n = Len(audit) + (n - Len(audit))
          BY <1>0, <2>3, <3>1, <3>3
        <4> QED BY <2>3, <4>1
      <3> QED BY <1>0, <3>1, <3>2, <3>3
    <2>7. ASSUME NEW n \in DOMAIN audit
          PROVE  LET i == audit'[n].invoice
                 IN  /\ i \in DOMAIN invoices' /\ invoices'[i].number = audit'[n].number
                     /\ ((\A m \in (n + 1)..Len(audit') : audit'[m].invoice # i)
                            /\ <<"evidence", i>> \notin stale')
                           => Columns(invoices'[i], {"status", "reference"}) = audit'[n].new
      <3>1. PICK i : i = audit[n].invoice
        OBVIOUS
      <3>2. i = audit'[n].invoice /\ i \in DOMAIN invoices /\ audit'[n] = audit[n]
        BY <1>0, <2>5, <3>1
      <3>3. invoices'[i].number = audit'[n].number
        BY <1>0, <2>4, <3>1, <3>2 DEF EvidenceIsAudited
      <3>4. ASSUME \A m \in (n + 1)..Len(audit') : audit'[m].invoice # i,
                   <<"evidence", i>> \notin stale'
            PROVE  Columns(invoices'[i], {"status", "reference"}) = audit'[n].new
        <4>1. \A m \in (n + 1)..Len(audit) : audit[m].invoice # i
          BY <1>0, <2>3, <2>5, <3>4
        <4>2. ASSUME NEW m \in DOMAIN q.accepted PROVE q.accepted[m].invoice # i
          <5>1. Len(audit) + m \in (n + 1)..Len(audit')
            BY <1>0, <2>3, <2>5
          <5> QED BY <2>5, <3>4, <5>1
        <4>3. Rows(q, i) = {}
          BY <4>2 DEF Rows
        <4>4. invoices'[i] = invoices[i] /\ <<"evidence", i>> \notin stale
          BY <2>2, <3>2, <3>4, <4>3
        <4> QED BY <1>0, <3>1, <3>2, <4>1, <4>4 DEF EvidenceIsAudited
      <3> QED BY <2>2, <3>2, <3>3, <3>4
    <2>8. ASSUME NEW n \in DOMAIN q.accepted
          PROVE  LET row == q.accepted[n]
                 IN  /\ row.invoice \in DOMAIN invoices' /\ invoices'[row.invoice].number = row.number
                     /\ <<"evidence", row.invoice>> \notin stale'
                           => Columns(invoices'[row.invoice], {"status", "reference"}) = row.new
      <3>1. PICK row : row = q.accepted[n]
        OBVIOUS
      <3>2. /\ row.invoice \in DOMAIN invoices /\ invoices'[row.invoice].number = row.number
            /\ row.new = [c \in {"status", "reference"} |-> row.new[c]]
            /\ DOMAIN invoices[row.invoice] = InvoiceColumns
        BY <2>3, <2>4, <3>1 DEF IInv, InvoicesSound, Columns
      <3>3. invoices'[row.invoice] = Merged(invoices[row.invoice], Changes(row.loaded, row.new))
        BY <2>2, <3>1
      <3>4. ASSUME <<"evidence", row.invoice>> \notin stale'
            PROVE  Columns(invoices'[row.invoice], {"status", "reference"}) = row.new
        <4>1. Columns(invoices[row.invoice], {"status", "reference"}) = row.loaded
          BY <2>2, <3>1, <3>4
        <4>2. \A c \in DOMAIN row.new : invoices[row.invoice][c] = row.loaded[c]
          BY <3>2, <4>1 DEF Columns
        <4>3. DOMAIN row.new \subseteq DOMAIN invoices[row.invoice]
          BY <3>2 DEF InvoiceColumns
        <4>4. \A c \in DOMAIN row.new : invoices'[row.invoice][c] = row.new[c]
          BY <3>3, <4>2, <4>3, MergedAsMeant
        <4> QED BY <3>2, <4>4 DEF Columns
      <3> QED BY <2>2, <3>1, <3>2, <3>4
    <2>9. ASSUME NEW n \in DOMAIN audit'
          PROVE  LET i == audit'[n].invoice
                 IN  /\ i \in DOMAIN invoices' /\ invoices'[i].number = audit'[n].number
                     /\ ((\A m \in (n + 1)..Len(audit') : audit'[m].invoice # i)
                            /\ <<"evidence", i>> \notin stale')
                           => Columns(invoices'[i], {"status", "reference"}) = audit'[n].new
      <3>1. CASE n \in DOMAIN audit
        BY <2>7, <3>1
      <3>2. ASSUME NEW m \in DOMAIN q.accepted, n = Len(audit) + m
            PROVE  LET i == audit'[n].invoice
                   IN  /\ i \in DOMAIN invoices' /\ invoices'[i].number = audit'[n].number
                       /\ <<"evidence", i>> \notin stale'
                             => Columns(invoices'[i], {"status", "reference"}) = audit'[n].new
        <4>1. audit'[n] = q.accepted[m]
          BY <2>5, <3>2
        <4> QED BY <2>8, <4>1
      <3> QED BY <2>6, <3>1, <3>2
    <2>10. EvidenceIsAudited'
      BY <2>9 DEF EvidenceIsAudited
    <2> QED BY <2>5, <2>9, <2>10 DEF EvidenceSound
  <1>6. UNCHANGED audit \/ \E r \in Requests : CommitEvidence(r)
    BY Moves DEF AuditMove
  <1> QED BY <1>2, <1>3, <1>4, <1>5, <1>6, Moves DEF InvoicesMove

-----------------------------------------------------------------------------
(* Bank balances *)

LEMMA SnapshotsStep ==
  ASSUME IInv, [Next]_vars
  PROVE  SnapshotsSound' /\ DOMAIN accounts \subseteq DOMAIN accounts'
  <1>0. SnapshotsSound
    BY DEF IInv
  <1>1. CASE UNCHANGED <<accounts, snapshots>>
    BY <1>0, <1>1 DEF SnapshotsSound
  <1>2. CASE RecordAccount
    <2>1. accounts' = Append(accounts, [status |-> "active"]) /\ UNCHANGED snapshots
      BY <1>2 DEF RecordAccount
    <2>2. Table(accounts') /\ DOMAIN accounts' = DOMAIN accounts \cup {Len(accounts) + 1}
      BY <1>0, <2>1, TableAppend DEF SnapshotsSound
    <2> QED BY <1>0, <2>1, <2>2 DEF SnapshotsSound
  <1>3. ASSUME NEW a \in DOMAIN accounts, NEW day \in SnapshotDates, RecordSnapshot(a, day)
        PROVE  SnapshotsSound' /\ DOMAIN accounts \subseteq DOMAIN accounts'
    <2>1. snapshots' = snapshots \cup {<<a, day>>} /\ UNCHANGED accounts /\ day \in Int /\ day <= 0
      BY <1>3, SnapshotsAssumption DEF RecordSnapshot, tables
    <2> QED BY <1>0, <2>1 DEF SnapshotsSound
  <1> QED BY <1>1, <1>2, <1>3, Moves DEF SnapshotsMove

\* An account with a verified balance has a latest one.
LEMMA LatestDayExists ==
  ASSUME SnapshotsSound, NEW s \in snapshots
  PROVE  <<s[1], LatestDay(s[1])>> \in snapshots
  <1> DEFINE a == s[1]
             days == {t[2] : t \in {u \in snapshots : u[1] = a}}
             ago == {-d : d \in days}
  <1>1. \A d \in days : d \in Int /\ d <= 0 /\ <<a, d>> \in snapshots
    BY DEF SnapshotsSound
  <1>2. ago \in SUBSET Nat /\ ago # {}
    <2>1. s[2] \in days
      OBVIOUS
    <2>2. \A d \in days : -d \in Nat
      <3> SUFFICES ASSUME NEW d \in days PROVE -d \in Nat
        OBVIOUS
      <3>1. d \in Int /\ d <= 0
        BY <1>1
      <3> HIDE DEF days
      <3> QED BY <3>1
    <2> QED BY <2>1, <2>2
  <1>3. PICK n \in ago : \A m \in ago : n <= m
    <2> HIDE DEF ago
    <2> QED BY <1>2, LeastNumber
  <1>4. PICK d \in days : n = -d
    BY <1>3
  <1>5. ASSUME NEW e \in days PROVE e <= d
    <2>1. -e \in ago /\ e \in Int /\ d \in Int
      BY <1>1
    <2> HIDE DEF ago, days
    <2> QED BY <1>3, <1>4, <2>1
  <1>6. LatestDay(a) \in days
    BY <1>5 DEF LatestDay
  <1> QED BY <1>1, <1>6

LEMMA TreasuryReported ==
  ASSUME IInv, NEW r \in Requests, EndTreasury(r), NEW report \in reports' \ reports
  PROVE  (report.cutoff # None /\ ~report.grown) =>
            /\ report.balances = report.active \X {report.cutoff}
            /\ report.active # {}
  <1> SUFFICES ASSUME report.cutoff # None, ~report.grown
               PROVE  /\ report.balances = report.active \X {report.cutoff}
                      /\ report.active # {}
    OBVIOUS
  <1> DEFINE active == requests[r].accounts
             covered == IF active = {} THEN {}
                        ELSE {s[1] : s \in {t \in snapshots : accounts[t[1]].status = "active"}}
             cutoff == IF covered # {} /\ Aligned(active, covered)
                       THEN LatestDay(CHOOSE a \in covered : TRUE) ELSE None
             balances == {s \in snapshots : s[1] \in covered /\ s[2] = LatestDay(s[1])}
             grown == active # {a \in DOMAIN accounts : accounts[a].status = "active"}
  <1>1. /\ report.active = active /\ report.cutoff = cutoff /\ report.balances = balances
        /\ report.grown = grown
    <2> DEFINE said == [active |-> active, covered |-> covered, cutoff |-> cutoff,
                        balances |-> balances, grown |-> grown]
    <2>1. reports' = reports \cup {said}
      BY DEF EndTreasury
    <2>2. report = said
      BY <2>1
    <2>3. /\ said.active = active /\ said.cutoff = cutoff /\ said.balances = balances
          /\ said.grown = grown
      OBVIOUS
    <2> HIDE DEF said
    <2> QED BY <2>2, <2>3
  <1>2. covered # {} /\ Aligned(active, covered) /\ cutoff = LatestDay(CHOOSE a \in covered : TRUE)
    BY <1>1
  <1>3. active = {a \in DOMAIN accounts : accounts[a].status = "active"}
    BY <1>1
  <1>4. SnapshotsSound /\ IsFiniteSet(DOMAIN accounts)
    <2>1. SnapshotsSound
      BY DEF IInv
    <2>2. DOMAIN accounts = 1..Len(accounts) /\ Len(accounts) \in Nat
      BY <2>1, TableShape DEF SnapshotsSound
    <2> QED BY <2>1, <2>2, FS_Interval
  <1>5. covered = active
    <2>1. covered \in SUBSET active
      BY <1>3, <1>4 DEF SnapshotsSound
    <2>2. IsFiniteSet(active)
      <3>1. active \in SUBSET DOMAIN accounts
        BY <1>3
      <3> HIDE DEF active
      <3> QED BY <1>4, <3>1, FS_Subset
    <2>3. Cardinality(covered) = Cardinality(active)
      BY <1>2 DEF Aligned
    <2> HIDE DEF covered, active
    <2> QED BY <2>1, <2>2, <2>3, FS_Subset
  <1>6. \A a \in covered : <<a, LatestDay(a)>> \in snapshots
    <2> SUFFICES ASSUME NEW a \in covered PROVE <<a, LatestDay(a)>> \in snapshots
      OBVIOUS
    <2>1. PICK s \in snapshots : s[1] = a
      OBVIOUS
    <2> QED BY <1>4, <2>1, LatestDayExists
  <1>7. \A a \in covered : LatestDay(a) = cutoff
    <2> DEFINE days == {LatestDay(a) : a \in covered}
    <2>1. Cardinality(days) = 1
      BY <1>2 DEF Aligned
    <2>2. IsFiniteSet(days)
      <3> DEFINE f == [a \in covered |-> LatestDay(a)]
      <3>2. f \in Surjection(covered, days)
        BY DEF Surjection
      <3>3. IsFiniteSet(covered)
        <4>1. covered \in SUBSET DOMAIN accounts
          BY <1>3, <1>5
        <4> HIDE DEF covered
        <4> QED BY <1>4, <4>1, FS_Subset
      <3> HIDE DEF f, days, covered
      <3> QED BY <3>2, <3>3, FS_Surjection
    <2>3. PICK day : days = {day}
      <3> HIDE DEF days
      <3> QED BY <2>1, <2>2, FS_Singleton
    <2>4. \A a \in covered : LatestDay(a) = day
      BY <2>3
    <2> HIDE DEF days, covered
    <2> QED BY <1>2, <2>4
  <1>8. balances = active \X {cutoff}
    <2>1. \A s \in snapshots : s = <<s[1], s[2]>>
      BY <1>4 DEF SnapshotsSound
    <2>2. \A s \in snapshots : s[1] \in covered /\ s[2] = LatestDay(s[1]) =>
             s[1] \in active /\ s[2] = cutoff
      <3> HIDE DEF covered, active, cutoff
      <3> QED BY <1>5, <1>7
    <2>3. \A a \in active : <<a, cutoff>> \in snapshots /\ a \in covered /\ cutoff = LatestDay(a)
      <3> HIDE DEF covered, active, cutoff
      <3> QED BY <1>5, <1>6, <1>7
    <2> HIDE DEF covered, active, cutoff
    <2> QED BY <2>1, <2>2, <2>3
  <1> QED BY <1>1, <1>2, <1>5, <1>8

LEMMA ReportsStep ==
  ASSUME IInv, [Next]_vars
  PROVE  BalanceCoversAccounts'
  <1>1. CASE UNCHANGED reports
    BY <1>1 DEF IInv, BalanceCoversAccounts
  <1>2. ASSUME NEW r \in Requests, EndTreasury(r)
        PROVE  BalanceCoversAccounts'
    BY <1>2, TreasuryReported DEF IInv, BalanceCoversAccounts
  <1> QED BY <1>1, <1>2, Moves DEF ReportsMove

-----------------------------------------------------------------------------
(* Requests in flight *)

\* What a request has loaded stays where it was.
LEMMA RequestKeeps ==
  ASSUME IInv, [Next]_vars, NEW q, RequestSound(q)
  PROVE  RequestSound(q)'
  <1>1. /\ DOMAIN invoices \subseteq DOMAIN invoices'
        /\ DOMAIN followups \subseteq DOMAIN followups'
        /\ DOMAIN accounts \subseteq DOMAIN accounts'
    BY InvoicesKept, FollowUpsStep, SnapshotsStep
  <1>2. \A i \in DOMAIN invoices : /\ invoices'[i].issue = invoices[i].issue
                                   /\ invoices'[i].number = invoices[i].number
    <2>1. \A i \in DOMAIN invoices : \A c \in Kept : invoices'[i][c] = invoices[i][c]
      BY InvoicesKept
    <2> QED BY <2>1 DEF Kept, InvoiceColumns
  <1>3. ASSUME TermsPending(q) PROVE TermsPending(q)'
    BY <1>1, <1>2, <1>3 DEF TermsPending
  <1>4. ASSUME FollowUpPending(q) PROVE FollowUpPending(q)'
    BY <1>1, <1>4 DEF FollowUpPending
  <1>5. ASSUME EvidencePending(q) PROVE EvidencePending(q)'
    BY <1>1, <1>2, <1>5 DEF EvidencePending, AcceptedRow
  <1>6. ASSUME q.accounts \subseteq DOMAIN accounts PROVE q.accounts \subseteq DOMAIN accounts'
    BY <1>1, <1>6
  <1> QED BY <1>3, <1>4, <1>5, <1>6 DEF RequestSound

LEMMA TermsBegun ==
  ASSUME InvoicesSound, TermsSound, NEW i \in DOMAIN invoices, NEW patch \in TermsPatches,
         Resolvable(invoices[i].issue, patch.due, patch.terms)
  PROVE  \E due, terms \in Optional :
            /\ TermsAfter(invoices[i], patch) = [due |-> due, terms |-> terms]
            /\ Agreed(invoices[i].issue, due, terms)
  <1>1. /\ invoices[i].issue \in Int /\ invoices[i].due \in Optional
        /\ DueLater(invoices[i].issue, invoices[i].due)
    BY DEF InvoicesSound, InvoiceSound, TermsSound
  <1>2. patch.due \in Optional /\ patch.terms \in Optional
    BY FormsAssumption DEF Optional
  <1>3. /\ Resolved(invoices[i].issue, patch.due, patch.terms) \in Optional
        /\ Agreed(invoices[i].issue, Resolved(invoices[i].issue, patch.due, patch.terms), patch.terms)
    BY <1>1, <1>2, ResolvedAgrees
  <1>4. CASE patch.fields = {"terms"} /\ patch.terms = None
    BY <1>1, <1>2, <1>4 DEF TermsAfter, Agreed
  <1>5. CASE ~(patch.fields = {"terms"} /\ patch.terms = None)
    BY <1>2, <1>3, <1>5 DEF TermsAfter
  <1> QED BY <1>4, <1>5

\* A row of the file is counted, or accepted for an invoice none of the rows
\* before it named.
LEMMA RowRead ==
  ASSUME InvoicesSound, NEW r \in Requests, requests[r].op = "evidence",
         EvidencePending(requests[r]), requests[r].next <= Len(requests[r].file),
         NEW q, q = [EvidenceRow(r, requests[r].file[requests[r].next]) EXCEPT !.next = @ + 1]
  PROVE  q.op = "evidence" /\ EvidencePending(q)
  <1> DEFINE p == requests[r]
             row == p.file[p.next]
             i == CHOOSE j \in Named(row.number) : TRUE
             loaded == Columns(invoices[i], {"status", "reference"})
             new == Columns(row, {"status", "reference"})
             taken == [invoice |-> i, number |-> row.number, loaded |-> loaded, new |-> new]
             read == EvidenceRow(r, row)
             Seen == \E m \in 1..(p.next - 1) : p.file[m].number = row.number
             Unclear == row.status \notin KnownStatuses \/ Cardinality(Named(row.number)) # 1
  <1>1. read = CASE row.number = None -> [p EXCEPT !.rejected = @ + 1]
                 [] Seen -> [p EXCEPT !.duplicates = @ + 1]
                 [] Unclear -> [p EXCEPT !.rejected = @ + 1]
                 [] loaded = new -> [p EXCEPT !.duplicates = @ + 1]
                 [] OTHER -> [p EXCEPT !.accepted = Append(@, taken)]
    BY DEF EvidenceRow
  <1>2. /\ DOMAIN p = EvidenceFields /\ p.next \in Nat \ {0} /\ Table(p.accepted)
        /\ p.op = "evidence" /\ q = [read EXCEPT !.next = @ + 1]
        /\ p.file \in EvidenceFiles /\ p.duplicates \in Nat /\ p.rejected \in Nat
        /\ Len(p.accepted) + p.duplicates + p.rejected = p.next - 1
    BY DEF EvidencePending
  <1>3. ASSUME NEW n \in DOMAIN p.accepted
        PROVE  AcceptedRow(p.accepted[n], p.file, p.next)
    BY DEF EvidencePending
  <1>4. \A n, m \in DOMAIN p.accepted : p.accepted[n].number = p.accepted[m].number => n = m
    BY DEF EvidencePending
  <1>5. /\ taken.invoice = i /\ taken.number = row.number
        /\ taken.new = Columns(taken.new, {"status", "reference"})
    BY DEF Columns
  <1>6. ~Unclear => i \in DOMAIN invoices /\ invoices[i].number = row.number
    <2> SUFFICES ASSUME ~Unclear PROVE i \in Named(row.number)
      BY DEF Named
    <2>1. Cardinality(Named(row.number)) = 1 /\ 0 # 1
      OBVIOUS
    <2>2. Named(row.number) # {}
      <3> HIDE DEF row
      <3> QED BY <2>1, FS_EmptySet
    <2> QED BY <2>2
  <1> HIDE DEF read, taken, loaded, new, p, row, i, Seen, Unclear
  <1>7. \/ read = [p EXCEPT !.rejected = @ + 1]
        \/ read = [p EXCEPT !.duplicates = @ + 1]
        \/ ~Seen /\ ~Unclear /\ read = [p EXCEPT !.accepted = Append(@, taken)]
    BY <1>1
  <1>8. /\ DOMAIN read = EvidenceFields /\ read.next = p.next /\ read.file = p.file
        /\ read.op = p.op
        /\ \/ /\ read.accepted = p.accepted
              /\ \/ read.duplicates = p.duplicates /\ read.rejected = p.rejected + 1
                 \/ read.duplicates = p.duplicates + 1 /\ read.rejected = p.rejected
           \/ /\ ~Seen /\ ~Unclear /\ read.accepted = Append(p.accepted, taken)
              /\ read.duplicates = p.duplicates /\ read.rejected = p.rejected
    <2>1. DOMAIN p = EvidenceFields
      BY <1>2
    <2>2. CASE read = [p EXCEPT !.rejected = @ + 1]
      BY ONLY <2>1, <2>2 DEF EvidenceFields
    <2>3. CASE read = [p EXCEPT !.duplicates = @ + 1]
      BY ONLY <2>1, <2>3 DEF EvidenceFields
    <2>4. CASE ~Seen /\ ~Unclear /\ read = [p EXCEPT !.accepted = Append(@, taken)]
      BY ONLY <2>1, <2>4 DEF EvidenceFields
    <2> QED BY <1>7, <2>2, <2>3, <2>4
  <1>9. /\ DOMAIN q = EvidenceFields /\ q.next = p.next + 1 /\ q.file = p.file /\ q.op = p.op
        /\ q.accepted = read.accepted /\ q.duplicates = read.duplicates
        /\ q.rejected = read.rejected
    <2>1. q = [read EXCEPT !.next = @ + 1] /\ DOMAIN read = EvidenceFields
      BY ONLY <1>2, <1>8
    <2>2. /\ DOMAIN q = EvidenceFields /\ q.next = read.next + 1 /\ q.file = read.file
          /\ q.op = read.op /\ q.accepted = read.accepted
          /\ q.duplicates = read.duplicates /\ q.rejected = read.rejected
      BY ONLY <2>1 DEF EvidenceFields
    <2> QED BY <1>8, <2>2
  <1>10. /\ q.next \in Nat \ {0} /\ p.next \in 1..(q.next - 1)
         /\ \A m \in 1..(p.next - 1) : m \in 1..(q.next - 1)
    BY <1>2, <1>9
  <1>11. ASSUME NEW n \in DOMAIN p.accepted
         PROVE  AcceptedRow(p.accepted[n], q.file, q.next)
    BY <1>3, <1>9, <1>10 DEF AcceptedRow
  <1>12. /\ q.file \in EvidenceFiles /\ q.duplicates \in Nat /\ q.rejected \in Nat
         /\ Len(q.accepted) + q.duplicates + q.rejected = q.next - 1
    <2>1. Len(p.accepted) \in Nat /\ Len(Append(p.accepted, taken)) = Len(p.accepted) + 1
      BY <1>2, TableShape, TableAppend
    <2>2. PICK n \in Nat, m \in Nat, d \in Nat, e \in Nat :
             n = Len(p.accepted) /\ m = p.next /\ d = p.duplicates /\ e = p.rejected
      BY <1>2, <2>1
    <2>3. n + d + e = m - 1 /\ q.next = m + 1
      BY <1>2, <1>9, <2>2
    <2>4. \/ Len(q.accepted) = n /\ q.duplicates = d /\ q.rejected = e + 1
          \/ Len(q.accepted) = n /\ q.duplicates = d + 1 /\ q.rejected = e
          \/ Len(q.accepted) = n + 1 /\ q.duplicates = d /\ q.rejected = e
      BY ONLY <1>8, <1>9, <2>1, <2>2
    <2>5. /\ q.duplicates \in Nat /\ q.rejected \in Nat
          /\ Len(q.accepted) + q.duplicates + q.rejected = q.next - 1
      BY ONLY <2>3, <2>4, n \in Nat, m \in Nat, d \in Nat, e \in Nat, SMTT(30)
    <2> QED BY <1>2, <1>9, <2>5
  <1>13. CASE q.accepted = p.accepted
    <2>1. EvidencePending(q)
      <3>1. /\ Table(q.accepted)
            /\ \A n, m \in DOMAIN q.accepted : q.accepted[n].number = q.accepted[m].number => n = m
        BY <1>2, <1>4, <1>13
      <3>2. \A n \in DOMAIN q.accepted : AcceptedRow(q.accepted[n], q.file, q.next)
        BY <1>11, <1>13
      <3> QED BY <1>9, <1>10, <1>12, <3>1, <3>2 DEF EvidencePending
    <2> QED BY <1>2, <1>9, <2>1
  <1>14. CASE ~Seen /\ ~Unclear /\ q.accepted = Append(p.accepted, taken)
    <2>1. /\ Table(q.accepted)
          /\ DOMAIN q.accepted = DOMAIN p.accepted \cup {Len(p.accepted) + 1}
          /\ q.accepted[Len(p.accepted) + 1] = taken
          /\ \A n \in DOMAIN p.accepted : q.accepted[n] = p.accepted[n]
      <3> DEFINE more == Append(p.accepted, taken)
      <3>1. /\ Table(more) /\ DOMAIN more = DOMAIN p.accepted \cup {Len(p.accepted) + 1}
            /\ more[Len(p.accepted) + 1] = taken
            /\ \A n \in DOMAIN p.accepted : more[n] = p.accepted[n]
        BY <1>2, TableAppend
      <3>2. q.accepted = more
        BY <1>14
      <3> HIDE DEF more
      <3> QED BY ONLY <3>1, <3>2
    <2>2. AcceptedRow(taken, q.file, q.next)
      BY <1>5, <1>6, <1>9, <1>10, <1>14 DEF row, AcceptedRow
    <2>3. ASSUME NEW n \in DOMAIN q.accepted
          PROVE  AcceptedRow(q.accepted[n], q.file, q.next)
      <3>1. CASE n \in DOMAIN p.accepted
        BY <1>11, <2>1, <3>1
      <3>2. CASE n = Len(p.accepted) + 1
        BY <1>5, <2>1, <2>2, <3>2
      <3> QED BY <2>1, <3>1, <3>2
    <2>4. \A n \in DOMAIN p.accepted : p.accepted[n].number # taken.number
      BY <1>3, <1>5, <1>14 DEF Seen, AcceptedRow
    <2>5. \A n, m \in DOMAIN q.accepted : q.accepted[n].number = q.accepted[m].number => n = m
      <3> SUFFICES ASSUME NEW n \in DOMAIN q.accepted, NEW m \in DOMAIN q.accepted,
                          q.accepted[n].number = q.accepted[m].number
                   PROVE  n = m
        OBVIOUS
      <3>1. CASE n \in DOMAIN p.accepted /\ m \in DOMAIN p.accepted
        BY <1>4, <2>1, <3>1
      <3>2. CASE n \in DOMAIN p.accepted /\ m = Len(p.accepted) + 1
        BY <2>1, <2>4, <3>2
      <3>3. CASE n = Len(p.accepted) + 1 /\ m \in DOMAIN p.accepted
        BY <2>1, <2>4, <3>3
      <3>4. CASE n = Len(p.accepted) + 1 /\ m = Len(p.accepted) + 1
        BY <3>4
      <3> QED BY <2>1, <3>1, <3>2, <3>3, <3>4
    <2>6. EvidencePending(q)
      BY ONLY <1>9, <1>10, <1>12, <2>1, <2>3, <2>5 DEF EvidencePending
    <2> QED BY <1>2, <1>9, <2>6
  <1> QED BY <1>8, <1>9, <1>13, <1>14

LEMMA RequestsStep ==
  ASSUME IInv, [Next]_vars
  PROVE  RequestsSound'
  <1>0. /\ DOMAIN requests = Requests /\ \A r \in Requests : RequestSound(requests[r])
        /\ InvoicesSound /\ TermsSound /\ FollowUpsSound /\ SnapshotsSound
    BY DEF IInv, RequestsSound
  <1>1. CASE UNCHANGED requests
    <2>1. ASSUME NEW s \in Requests PROVE RequestSound(requests[s])'
      <3>1. PICK q : q = requests[s]
        OBVIOUS
      <3>2. RequestSound(q)'
        BY <1>0, <3>1, RequestKeeps
      <3> QED BY <1>1, <3>1, <3>2
    <2> QED BY <1>0, <1>1, <2>1 DEF RequestsSound
  <1>2. ASSUME NEW r \in Requests, NEW q, requests' = [requests EXCEPT ![r] = q], RequestSound(q)'
        PROVE  RequestsSound'
    <2>1. ASSUME NEW s \in Requests, s # r PROVE RequestSound(requests[s])'
      <3>1. PICK p : p = requests[s]
        OBVIOUS
      <3>2. RequestSound(p)'
        BY <1>0, <3>1, RequestKeeps
      <3>3. requests'[s] = p
        BY <1>0, <1>2, <2>1, <3>1
      <3> QED BY <3>2, <3>3
    <2>2. RequestSound(requests[r])'
      <3>1. requests'[r] = q
        BY <1>0, <1>2
      <3> QED BY <1>2, <3>1
    <2> QED BY <1>0, <1>2, <2>1, <2>2 DEF RequestsSound
  <1>3. ASSUME NEW r \in Requests, Done(r) PROVE RequestsSound'
    <2>1. RequestSound(NoRequest)'
      BY DEF RequestSound, NoRequest
    <2> QED BY <1>2, <1>3, <2>1 DEF Done
  <1>4. ASSUME NEW r \in Requests, NEW i \in DOMAIN invoices, NEW patch \in TermsPatches,
               BeginTerms(r, i, patch)
        PROVE  RequestsSound'
    <2> DEFINE loaded == Columns(invoices[i], {"due", "terms"})
    <2>1. PICK due, terms \in Optional :
             /\ TermsAfter(invoices[i], patch) = [due |-> due, terms |-> terms]
             /\ Agreed(invoices[i].issue, due, terms)
      BY <1>0, <1>4, TermsBegun DEF BeginTerms
    <2>2. PICK q : q = [op |-> "terms", id |-> i, loaded |-> loaded,
                        changes |-> Changes(loaded, [due |-> due, terms |-> terms])]
      OBVIOUS
    <2>3. /\ requests' = [requests EXCEPT ![r] = q] /\ UNCHANGED invoices
      BY <1>4, <2>1, <2>2 DEF BeginTerms, Begin, tables
    <2>4. q.op = "terms" /\ q.id = i /\ DOMAIN q.loaded = {"due", "terms"}
          /\ q.changes = Changes(q.loaded, [due |-> due, terms |-> terms])
      BY <2>2 DEF Columns
    <2>5. TermsPending(q)'
      BY <2>1, <2>3, <2>4 DEF TermsPending
    <2>6. RequestSound(q)'
      BY <2>4, <2>5 DEF RequestSound
    <2> QED BY <1>2, <2>3, <2>6
  <1>5. ASSUME NEW r \in Requests, NEW f \in DOMAIN followups, NEW patch \in FollowUpPatches,
               BeginFollowUp(r, f, patch)
        PROVE  RequestsSound'
    <2> DEFINE loaded == Columns(followups[f], {"status", "date"})
               new == [c \in {"status", "date"} |->
                         IF c \in patch.fields THEN patch[c] ELSE loaded[c]]
    <2>1. PICK q : q = [op |-> "followup", id |-> f, loaded |-> loaded,
                        changes |-> Changes(loaded, new), stamp |-> stamps']
      OBVIOUS
    <2>2. requests' = [requests EXCEPT ![r] = q] /\ UNCHANGED followups
      BY <1>5, <2>1 DEF BeginFollowUp, Begin
    <2>3. followups[f].date \in Optional /\ patch.date \in Optional
      BY <1>0, FormsAssumption DEF FollowUpsSound, Optional
    <2>4. DOMAIN new = {"status", "date"} /\ new["date"] \in Optional
      BY <2>3 DEF Columns
    <2>5. q.op = "followup" /\ q.id = f /\ q.changes = Changes(loaded, new)
      BY <2>1
    <2>6. FollowUpPending(q)'
      <3> HIDE DEF loaded, new
      <3> QED BY <2>2, <2>4, <2>5, ChangesFacts DEF FollowUpPending
    <2>7. RequestSound(q)'
      BY <2>5, <2>6 DEF RequestSound
    <2> QED BY <1>2, <2>2, <2>7
  <1>6. ASSUME NEW r \in Requests, NEW file \in EvidenceFiles, BeginEvidence(r, file)
        PROVE  RequestsSound'
    <2>1. PICK q : q = [op |-> "evidence", file |-> file, next |-> 1, accepted |-> <<>>,
                        duplicates |-> 0, rejected |-> 0]
      OBVIOUS
    <2>2. requests' = [requests EXCEPT ![r] = q]
      BY <1>6, <2>1 DEF BeginEvidence, Begin
    <2>3. DOMAIN q = EvidenceFields /\ q.op = "evidence" /\ q.next = 1 /\ q.accepted = <<>>
          /\ q.file = file /\ q.duplicates = 0 /\ q.rejected = 0
      BY <2>1 DEF EvidenceFields
    <2>4. Table(<<>>) /\ DOMAIN <<>> = {} /\ Len(<<>>) = 0
      BY EmptyTable
    <2>5. EvidencePending(q)'
      BY <2>3, <2>4 DEF EvidencePending
    <2>6. RequestSound(q)'
      BY <2>3, <2>5 DEF RequestSound
    <2> QED BY <1>2, <2>2, <2>6
  <1>7. ASSUME NEW r \in Requests, BeginTreasury(r) PROVE RequestsSound'
    <2>1. PICK q : q = [op |-> "treasury",
                        accounts |-> {a \in DOMAIN accounts : accounts[a].status = "active"}]
      OBVIOUS
    <2>2. requests' = [requests EXCEPT ![r] = q] /\ UNCHANGED accounts
      BY <1>7, <2>1 DEF BeginTreasury, Begin, tables
    <2>3. q.op = "treasury" /\ q.accounts \subseteq DOMAIN accounts
      BY <2>1
    <2>4. RequestSound(q)'
      BY <2>2, <2>3 DEF RequestSound
    <2> QED BY <1>2, <2>2, <2>4
  <1>8. ASSUME NEW r \in Requests, ReadEvidence(r) PROVE RequestsSound'
    <2>1. PICK q : q = [EvidenceRow(r, requests[r].file[requests[r].next]) EXCEPT !.next = @ + 1]
      OBVIOUS
    <2>2. /\ requests' = [requests EXCEPT ![r] = q] /\ UNCHANGED invoices
          /\ requests[r].op = "evidence" /\ requests[r].next <= Len(requests[r].file)
      BY <1>8, <2>1 DEF ReadEvidence, tables
    <2>3. EvidencePending(requests[r])
      BY <1>0, <2>2 DEF RequestSound
    <2>4. q.op = "evidence" /\ EvidencePending(q)
      BY <1>0, <2>1, <2>2, <2>3, RowRead
    <2>5. EvidencePending(q)'
      BY <2>2, <2>4 DEF EvidencePending, AcceptedRow
    <2>6. RequestSound(q)'
      BY <2>4, <2>5 DEF RequestSound
    <2> QED BY <1>2, <2>2, <2>6
  <1> QED BY <1>1, <1>3, <1>4, <1>5, <1>6, <1>7, <1>8, Moves DEF RequestsMove

LEMMA StampsStep ==
  ASSUME IInv, [Next]_vars
  PROVE  StampsApart'
  <1>0. /\ DOMAIN requests = Requests /\ \A r \in Requests : RequestSound(requests[r])
        /\ StampsApart /\ FollowUpsSound /\ stamps \in Nat
    BY DEF IInv, RequestsSound, FollowUpsSound
  <1>1. CASE UNCHANGED <<followups, stamps, requests>>
    BY <1>0, <1>1 DEF StampsApart
  <1>2. ASSUME NEW form \in FollowUpForms, NEW i \in DOMAIN invoices, RecordFollowUp(form, i)
        PROVE  StampsApart'
    <2> DEFINE row == [invoice |-> i, status |-> form.status, date |-> form.date,
                       updated |-> stamps']
    <2>1. followups' = Append(followups, row) /\ stamps' = stamps + 1 /\ UNCHANGED requests
      BY <1>2 DEF RecordFollowUp
    <2>2. row.updated = stamps + 1
      BY <2>1
    <2> HIDE DEF row
    <2>3. /\ DOMAIN followups' = DOMAIN followups \cup {Len(followups) + 1}
          /\ followups'[Len(followups) + 1] = row
          /\ \A f \in DOMAIN followups : followups'[f] = followups[f]
      BY <1>0, <2>1, TableAppend DEF FollowUpsSound
    <2> QED BY <1>0, <2>1, <2>2, <2>3 DEF StampsApart
  <1>3. ASSUME NEW r \in Requests, NEW q, requests' = [requests EXCEPT ![r] = q],
               q.op # "followup", UNCHANGED <<followups, stamps>>
        PROVE  StampsApart'
    <2>1. requests'[r] = q /\ \A s \in Requests : s # r => requests'[s] = requests[s]
      BY <1>0, <1>3
    <2> QED BY <1>0, <1>3, <2>1 DEF StampsApart
  <1>4. ASSUME NEW r \in Requests, CommitFollowUp(r) PROVE StampsApart'
    <2> DEFINE p == requests[r]
               new == Merged(followups[p.id], p.changes)
               row == [new EXCEPT !.updated = p.stamp]
    <2>1. /\ p.op = "followup" /\ FollowUpPending(p) /\ UNCHANGED stamps
          /\ requests' = [requests EXCEPT ![r] = NoRequest]
          /\ followups' = [followups EXCEPT ![p.id] = row] \/ UNCHANGED followups
      BY <1>0, <1>4 DEF CommitFollowUp, RequestSound, Done
    <2>2. NoRequest.op # "followup"
      BY DEF NoRequest
    <2>3. CASE UNCHANGED followups
      BY <1>3, <2>1, <2>2, <2>3
    <2>4. CASE followups' = [followups EXCEPT ![p.id] = row]
      <3>1. p.id \in DOMAIN followups /\ DOMAIN followups[p.id] = FollowUpColumns
        BY <1>0, <2>1 DEF FollowUpPending, FollowUpsSound
      <3>2. DOMAIN new = FollowUpColumns
        BY <3>1, MergedFacts
      <3> HIDE DEF new
      <3>3. row.updated = p.stamp
        BY <3>2 DEF FollowUpColumns
      <3> HIDE DEF row, p
      <3>4. /\ DOMAIN followups' = DOMAIN followups /\ followups'[p.id] = row
            /\ \A f \in DOMAIN followups : f # p.id => followups'[f] = followups[f]
        BY <2>4, <3>1
      <3>5. /\ requests'[r] = NoRequest
            /\ \A s \in Requests : s # r => requests'[s] = requests[s]
        BY <1>0, <2>1
      <3>6. \A s \in Requests : (s # r /\ requests[s].op = "followup") => requests[s].stamp # p.stamp
        BY <1>0, <2>1 DEF StampsApart, p
      <3>7. ASSUME NEW s \in Requests, requests'[s].op = "followup"
            PROVE  /\ requests'[s].stamp \in 1..stamps'
                   /\ \A f \in DOMAIN followups' : followups'[f].updated # requests'[s].stamp
                   /\ \A t \in Requests : (/\ requests'[t].op = "followup"
                                           /\ requests'[t].stamp = requests'[s].stamp) => t = s
        <4>1. s # r /\ requests'[s] = requests[s] /\ requests[s].op = "followup"
          BY <2>2, <3>5, <3>7
        <4>2. /\ requests[s].stamp \in 1..stamps
              /\ \A f \in DOMAIN followups : followups[f].updated # requests[s].stamp
          BY <1>0, <4>1 DEF StampsApart
        <4>3. \A f \in DOMAIN followups' : followups'[f].updated # requests'[s].stamp
          BY <3>3, <3>4, <3>6, <4>1, <4>2
        <4>4. \A t \in Requests : (/\ requests'[t].op = "followup"
                                   /\ requests'[t].stamp = requests'[s].stamp) => t = s
          BY <1>0, <2>2, <3>5, <4>1 DEF StampsApart
        <4> QED BY <2>1, <4>1, <4>2, <4>3, <4>4
      <3> QED BY <3>7 DEF StampsApart
    <2> QED BY <2>1, <2>3, <2>4
  <1>5. ASSUME NEW r \in Requests, NEW f \in DOMAIN followups, NEW patch \in FollowUpPatches,
               BeginFollowUp(r, f, patch)
        PROVE  StampsApart'
    <2>1. PICK q : /\ requests' = [requests EXCEPT ![r] = q] /\ q.op = "followup"
                   /\ q.stamp = stamps + 1 /\ stamps' = stamps + 1 /\ UNCHANGED followups
      BY <1>5 DEF BeginFollowUp, Begin
    <2>2. requests'[r] = q /\ \A s \in Requests : s # r => requests'[s] = requests[s]
      BY <1>0, <2>1
    <2>3. \A g \in DOMAIN followups : followups[g].updated \in 1..stamps
      BY <1>0 DEF FollowUpsSound
    <2> QED BY <1>0, <2>1, <2>2, <2>3 DEF StampsApart
  <1>6. ASSUME NEW r \in Requests, UNCHANGED <<followups, stamps>>, Done(r) PROVE StampsApart'
    <2>1. requests' = [requests EXCEPT ![r] = NoRequest] /\ NoRequest.op = "none"
      BY <1>6 DEF Done, NoRequest
    <2> HIDE DEF NoRequest
    <2> QED BY <1>3, <1>6, <2>1
  <1>7. ASSUME NEW r \in Requests, NEW i \in DOMAIN invoices, NEW patch \in TermsPatches,
               UNCHANGED <<followups, stamps>>, BeginTerms(r, i, patch)
        PROVE  StampsApart'
    <2> DEFINE loaded == Columns(invoices[i], {"due", "terms"})
    <2>1. PICK q : q = [op |-> "terms", id |-> i, loaded |-> loaded,
                        changes |-> Changes(loaded, TermsAfter(invoices[i], patch))]
      OBVIOUS
    <2>2. requests' = [requests EXCEPT ![r] = q] /\ q.op = "terms"
      BY <1>7, <2>1 DEF BeginTerms, Begin
    <2> QED BY <1>3, <1>7, <2>2
  <1>8. ASSUME NEW r \in Requests, NEW file \in EvidenceFiles, UNCHANGED <<followups, stamps>>,
               BeginEvidence(r, file)
        PROVE  StampsApart'
    <2>1. PICK q : q = [op |-> "evidence", file |-> file, next |-> 1, accepted |-> <<>>,
                        duplicates |-> 0, rejected |-> 0]
      OBVIOUS
    <2>2. requests' = [requests EXCEPT ![r] = q] /\ q.op = "evidence"
      BY <1>8, <2>1 DEF BeginEvidence, Begin
    <2> QED BY <1>3, <1>8, <2>2
  <1>9. ASSUME NEW r \in Requests, UNCHANGED <<followups, stamps>>, BeginTreasury(r)
        PROVE  StampsApart'
    <2>1. PICK q : q = [op |-> "treasury",
                        accounts |-> {a \in DOMAIN accounts : accounts[a].status = "active"}]
      OBVIOUS
    <2>2. requests' = [requests EXCEPT ![r] = q] /\ q.op = "treasury"
      BY <1>9, <2>1 DEF BeginTreasury, Begin
    <2> QED BY <1>3, <1>9, <2>2
  <1>10. ASSUME NEW r \in Requests, UNCHANGED <<followups, stamps>>, ReadEvidence(r)
         PROVE  StampsApart'
    <2>1. PICK q : q = [EvidenceRow(r, requests[r].file[requests[r].next]) EXCEPT !.next = @ + 1]
      OBVIOUS
    <2>2. /\ requests' = [requests EXCEPT ![r] = q]
          /\ requests[r].op = "evidence" /\ requests[r].next <= Len(requests[r].file)
      BY <1>10, <2>1 DEF ReadEvidence
    <2>3. EvidencePending(requests[r]) /\ InvoicesSound
      BY <1>0, <2>2 DEF RequestSound, IInv
    <2>4. q.op = "evidence"
      BY <2>1, <2>2, <2>3, RowRead
    <2> QED BY <1>3, <1>10, <2>2, <2>4
  <1> QED BY <1>1, <1>2, <1>4, <1>5, <1>6, <1>7, <1>8, <1>9, <1>10, Moves DEF StampsMove

-----------------------------------------------------------------------------
(* The invariant *)

LEMMA Initially == Init => IInv
  <1> SUFFICES ASSUME Init PROVE IInv
    OBVIOUS
  <1>1. Table(<<>>) /\ DOMAIN <<>> = {}
    BY EmptyTable
  <1>2. InvoicesSound /\ PaymentsSound /\ JournalsSound /\ PartiesSound /\ TermsSound
    BY <1>1 DEF Init, InvoicesSound, PaymentsSound, JournalsSound, PartiesSound, TermsSound
  <1>3. FollowUpsSound /\ SnapshotsSound /\ BalanceCoversAccounts
    BY <1>1 DEF Init, FollowUpsSound, SnapshotsSound, BalanceCoversAccounts
  <1>4. EvidenceSound
    BY <1>1 DEF Init, EvidenceSound, EvidenceIsAudited
  <1>5. RequestsSound /\ StampsApart
    BY DEF Init, RequestsSound, RequestSound, StampsApart, NoRequest
  <1> QED BY <1>2, <1>3, <1>4, <1>5 DEF IInv

LEMMA Inductive == IInv /\ [Next]_vars => IInv'
  <1> SUFFICES ASSUME IInv, [Next]_vars PROVE IInv'
    OBVIOUS
  <1>1. InvoicesSound' /\ PaymentsSound' /\ JournalsSound' /\ PartiesSound' /\ TermsSound'
    BY InvoicesKept, PaymentsStep, JournalsStep, PartiesStep, TermsStep
  <1>2. FollowUpsSound' /\ EvidenceSound' /\ SnapshotsSound' /\ RequestsSound'
    BY FollowUpsStep, EvidenceStep, SnapshotsStep, RequestsStep
  <1>3. StampsApart' /\ BalanceCoversAccounts'
    BY StampsStep, ReportsStep
  <1> QED BY <1>1, <1>2, <1>3 DEF IInv

THEOREM Invariant == Spec => []IInv
  BY Initially, Inductive, PTL DEF Spec

-----------------------------------------------------------------------------
(* Counts and amounts of the reports *)

LEMMA CountFacts ==
  ASSUME NEW S, IsFiniteSet(S)
  PROVE  Count(S) \in Nat /\ (Count(S) = 0 <=> S = {}) /\ (Count(S) > 0 <=> S # {})
  <1>1. Cardinality(S) \in Nat /\ (Cardinality(S) = 0 <=> S = {})
    BY FS_CardinalityType, FS_EmptySet
  <1> QED BY <1>1 DEF Count

LEMMA CountTwo ==
  ASSUME NEW S, IsFiniteSet(S), NEW T, IsFiniteSet(T), S \cap T = {}
  PROVE  Count(S \cup T) = Count(S) + Count(T)
  <1>1. /\ Cardinality(S \cup T) = Cardinality(S) + Cardinality(T) - Cardinality({})
        /\ Cardinality({}) = 0 /\ Cardinality(S) \in Nat /\ Cardinality(T) \in Nat
    BY FS_Union, FS_EmptySet, FS_CardinalityType
  <1> QED BY <1>1 DEF Count

LEMMA FiniteSeven == \A a, b, c, d, e, f, g : IsFiniteSet({a, b, c, d, e, f, g})
  <1> SUFFICES ASSUME NEW a, NEW b, NEW c, NEW d, NEW e, NEW f, NEW g
               PROVE  IsFiniteSet({a, b, c, d, e, f, g})
    OBVIOUS
  <1>1. IsFiniteSet({a}) /\ IsFiniteSet({b}) /\ IsFiniteSet({c}) /\ IsFiniteSet({d})
        /\ IsFiniteSet({e}) /\ IsFiniteSet({f}) /\ IsFiniteSet({g})
    BY FS_Singleton
  <1>2. IsFiniteSet({a} \cup {b}) /\ IsFiniteSet({c} \cup {d}) /\ IsFiniteSet({e} \cup {f})
    BY <1>1, FS_Union
  <1>3. IsFiniteSet(({a} \cup {b}) \cup ({c} \cup {d})) /\ IsFiniteSet(({e} \cup {f}) \cup {g})
    BY <1>1, <1>2, FS_Union
  <1>4. IsFiniteSet((({a} \cup {b}) \cup ({c} \cup {d})) \cup (({e} \cup {f}) \cup {g}))
    BY <1>3, FS_Union
  <1>5. {a, b, c, d, e, f, g} = (({a} \cup {b}) \cup ({c} \cup {d})) \cup (({e} \cup {f}) \cup {g})
    OBVIOUS
  <1> QED BY <1>4, <1>5

LEMMA FiniteTables ==
  ASSUME IInv
  PROVE  /\ IsFiniteSet(DOMAIN invoices) /\ IsFiniteSet(DOMAIN payments)
         /\ IsFiniteSet(DOMAIN followups)
         /\ DOMAIN invoices = 1..Len(invoices) /\ Len(invoices) \in Nat
  <1>1. /\ DOMAIN invoices = 1..Len(invoices) /\ Len(invoices) \in Nat
        /\ DOMAIN payments = 1..Len(payments) /\ Len(payments) \in Nat
        /\ DOMAIN followups = 1..Len(followups) /\ Len(followups) \in Nat
    BY TableShape DEF IInv, InvoicesSound, PaymentsSound, FollowUpsSound
  <1> QED BY <1>1, FS_Interval

\* What is paid of an invoice is never negative, and nothing without a payment.
LEMMA InvoiceFacts ==
  ASSUME IInv, NEW i \in DOMAIN invoices
  PROVE  /\ invoices[i].type \in InvoiceTypes /\ invoices[i].party \in BOOLEAN
         /\ invoices[i].issue \in Int /\ invoices[i].due \in Optional
         /\ invoices[i].total \in Nat /\ Paid(i) \in Nat
         /\ Outstanding(i) = invoices[i].total - Paid(i) /\ Outstanding(i) \in Int
         /\ Matching(i) = {} => Paid(i) = 0
  <1>1. /\ invoices[i].type \in InvoiceTypes /\ invoices[i].party \in BOOLEAN
        /\ invoices[i].issue \in Int /\ invoices[i].due \in Optional /\ invoices[i].total \in Nat
    BY DEF IInv, InvoicesSound, InvoiceSound, TermsSound
  <1>2. Paid(i) \in Nat
    <2>1. Matching(i) \in SUBSET DOMAIN payments
      BY DEF Matching
    <2>2. IsFiniteSet(Matching(i))
      BY <2>1, FiniteTables, FS_Subset
    <2>3. \A p \in Matching(i) : Amounts[p] \in Nat
      BY <2>1 DEF Amounts, IInv, PaymentsSound
    <2> QED BY <2>2, <2>3, SumNat DEF Paid
  <1>3. Matching(i) = {} => Paid(i) = 0
    BY SumNone DEF Paid
  <1> QED BY <1>1, <1>2, <1>3 DEF Outstanding

LEMMA OpenFacts ==
  ASSUME IInv, NEW type
  PROVE  LET S == OfType(type)
         IN  /\ IsFiniteSet(S) /\ S \subseteq DOMAIN invoices
             /\ OpenItems(type) = {i \in S : Outstanding(i) > 0}
             /\ OpenItems(type) = Unpaid(S) \cup Partial(S) /\ Unpaid(S) \cap Partial(S) = {}
             /\ Overpaid(S) = {i \in S : Paid(i) > invoices[i].total}
             /\ IsFiniteSet(OpenItems(type)) /\ IsFiniteSet(Unpaid(S)) /\ IsFiniteSet(Partial(S))
             /\ IsFiniteSet(Overpaid(S))
  <1> DEFINE S == OfType(type)
  <1>1. S \subseteq DOMAIN invoices
    BY DEF OfType
  <1>2. IsFiniteSet(S)
    BY <1>1, FiniteTables, FS_Subset
  <1>3. \A i \in S : /\ invoices[i].total \in Nat /\ Paid(i) \in Nat
                     /\ Outstanding(i) = invoices[i].total - Paid(i)
    BY <1>1, InvoiceFacts
  <1>4. OpenItems(type) = {i \in S : Paid(i) < invoices[i].total}
    BY DEF OpenItems
  <1> HIDE DEF S
  <1>5. OpenItems(type) = {i \in S : Outstanding(i) > 0}
    BY <1>3, <1>4
  <1>6. OpenItems(type) = Unpaid(S) \cup Partial(S) /\ Unpaid(S) \cap Partial(S) = {}
    BY <1>3, <1>4 DEF Unpaid, Partial
  <1>7. Overpaid(S) = {i \in S : Paid(i) > invoices[i].total}
    BY <1>3 DEF Unpaid, Partial, Overpaid
  <1>8. /\ OpenItems(type) \in SUBSET S /\ Unpaid(S) \in SUBSET S /\ Partial(S) \in SUBSET S
        /\ Overpaid(S) \in SUBSET S
    BY <1>4, <1>7 DEF Unpaid, Partial
  <1>9. /\ IsFiniteSet(OpenItems(type)) /\ IsFiniteSet(Unpaid(S)) /\ IsFiniteSet(Partial(S))
        /\ IsFiniteSet(Overpaid(S))
    BY <1>2, <1>8, FS_Subset
  <1> QED BY <1>1, <1>2, <1>5, <1>6, <1>7, <1>9 DEF S

Balance == [i \in DOMAIN invoices |-> Outstanding(i)]

LEMMA AmountIs ==
  ASSUME IInv, NEW S \in SUBSET DOMAIN invoices, NEW c
  PROVE  LET In == {i \in S : invoices[i].currency = c}
         IN  /\ Amount(S, c) = SumFunctionOnSet(Balance, In) /\ IsFiniteSet(In)
             /\ In \in SUBSET S
             /\ \A i \in In : Balance[i] \in Int /\ Balance[i] = Outstanding(i)
             /\ Amount(S, c) \in Int
  <1> DEFINE In == {i \in S : invoices[i].currency = c}
  <1>1. Amount(S, c) = SumFunctionOnSet(Balance, In)
    BY DEF Amount, Balance
  <1>2. In \in SUBSET S /\ In \in SUBSET DOMAIN invoices
    OBVIOUS
  <1>3. IsFiniteSet(In)
    BY <1>2, FiniteTables, FS_Subset
  <1>4. \A i \in In : Balance[i] \in Int /\ Balance[i] = Outstanding(i)
    BY InvoiceFacts DEF Balance
  <1>5. SumFunctionOnSet(Balance, In) \in Int
    <2> HIDE DEF In
    <2> QED BY <1>3, <1>4, SumInt
  <1> QED BY <1>1, <1>2, <1>3, <1>4, <1>5

\* The amounts of the parts of a set add up to that of the whole.
LEMMA AmountByPart ==
  ASSUME IInv, NEW S \in SUBSET DOMAIN invoices, NEW c, NEW B, IsFiniteSet(B), NEW k, NEW h,
         \A b \in B : h[b] = Amount(Part(S, k, b), c)
  PROVE  SumFunctionOnSet(h, B) = Amount({i \in S : k[i] \in B}, c)
  <1> DEFINE In == {i \in S : invoices[i].currency = c}
             whole == {i \in S : k[i] \in B}
  <1>1. IsFiniteSet(In) /\ \A i \in In : Balance[i] \in Int
    BY AmountIs
  <1>2. \A b \in B : h[b] = SumFunctionOnSet(Balance, Part(In, k, b))
    <2> SUFFICES ASSUME NEW b \in B PROVE h[b] = SumFunctionOnSet(Balance, Part(In, k, b))
      OBVIOUS
    <2>1. Part(S, k, b) \in SUBSET DOMAIN invoices
      BY DEF Part
    <2>2. {i \in Part(S, k, b) : invoices[i].currency = c} = Part(In, k, b)
      BY DEF Part
    <2>3. Amount(Part(S, k, b), c) =
             SumFunctionOnSet(Balance, {i \in Part(S, k, b) : invoices[i].currency = c})
      BY <2>1, AmountIs
    <2> QED BY <2>2, <2>3
  <1>3. SumFunctionOnSet(Balance, {i \in In : k[i] \in B}) = SumFunctionOnSet(h, B)
    <2> HIDE DEF In
    <2> QED BY <1>1, <1>2, SumParts
  <1>4. {i \in In : k[i] \in B} = {i \in whole : invoices[i].currency = c}
    OBVIOUS
  <1>5. Amount(whole, c) = SumFunctionOnSet(Balance, {i \in whole : invoices[i].currency = c})
    <2>1. whole \in SUBSET DOMAIN invoices
      OBVIOUS
    <2> HIDE DEF whole
    <2> QED BY <2>1, AmountIs
  <1> QED BY <1>3, <1>4, <1>5

LEMMA AmountTwo ==
  ASSUME IInv, NEW S \in SUBSET DOMAIN invoices, NEW T \in SUBSET DOMAIN invoices,
         S \cap T = {}, NEW c
  PROVE  Amount(S \cup T, c) = Amount(S, c) + Amount(T, c)
  <1> DEFINE In(U) == {i \in U : invoices[i].currency = c}
  <1>1. \A U \in SUBSET DOMAIN invoices :
           /\ Amount(U, c) = SumFunctionOnSet(Balance, In(U)) /\ IsFiniteSet(In(U))
           /\ \A i \in In(U) : Balance[i] \in Int
    <2> SUFFICES ASSUME NEW U \in SUBSET DOMAIN invoices
                 PROVE  /\ Amount(U, c) = SumFunctionOnSet(Balance, In(U)) /\ IsFiniteSet(In(U))
                        /\ \A i \in In(U) : Balance[i] \in Int
      OBVIOUS
    <2>1. /\ Amount(U, c) = SumFunctionOnSet(Balance, {i \in U : invoices[i].currency = c})
          /\ IsFiniteSet({i \in U : invoices[i].currency = c})
          /\ \A j \in {i \in U : invoices[i].currency = c} : Balance[j] \in Int
      BY ONLY IInv, U \in SUBSET DOMAIN invoices, AmountIs
    <2> QED BY <2>1
  <1>2. In(S \cup T) = In(S) \cup In(T) /\ In(S) \cap In(T) = {}
    OBVIOUS
  <1>3. S \cup T \in SUBSET DOMAIN invoices
    OBVIOUS
  <1> HIDE DEF In
  <1>4. \A i \in In(S) \cup In(T) : Balance[i] \in Int
    BY <1>1
  <1>5. SumFunctionOnSet(Balance, In(S) \cup In(T))
           = SumFunctionOnSet(Balance, In(S)) + SumFunctionOnSet(Balance, In(T))
    BY <1>1, <1>2, <1>4, SumTwo
  <1> QED BY <1>1, <1>2, <1>3, <1>5

\* More of what is open is not less.
LEMMA AmountGrows ==
  ASSUME IInv, NEW S \in SUBSET DOMAIN invoices, NEW T \in SUBSET S, NEW c,
         \A i \in S : Outstanding(i) > 0
  PROVE  Amount(T, c) <= Amount(S, c)
  <1> DEFINE In(U) == {i \in U : invoices[i].currency = c}
  <1>1. /\ Amount(S, c) = SumFunctionOnSet(Balance, In(S)) /\ IsFiniteSet(In(S))
        /\ In(S) \in SUBSET S /\ \A i \in In(S) : Balance[i] \in Int /\ Balance[i] = Outstanding(i)
    BY AmountIs
  <1>2. Amount(T, c) = SumFunctionOnSet(Balance, In(T))
    BY AmountIs
  <1>3. In(T) \in SUBSET In(S)
    OBVIOUS
  <1> HIDE DEF In
  <1>4. \A i \in In(S) : Balance[i] \in Nat
    BY <1>1
  <1>5. SumFunctionOnSet(Balance, In(T)) <= SumFunctionOnSet(Balance, In(S))
    BY <1>1, <1>3, <1>4, SumGrows
  <1> QED BY <1>1, <1>2, <1>5

-----------------------------------------------------------------------------
(* Buckets and periods *)

LEMMA BucketFacts ==
  ASSUME NEW due \in Optional
  PROVE  /\ Bucket(due) \in Buckets
         /\ Bucket(due) = "missing_due_date" <=> due = None
         /\ Bucket(due) = "due_today" <=> due # None /\ due = 0
         /\ Bucket(due) = "overdue_91_plus" <=> due # None /\ due < -90
         /\ due # None => due \in Int /\ (DaysOverdue(due) > 0 <=> due < 0)
                          /\ (DaysOverdue(due) > 90 <=> due < -90)
  <1>1. CASE due = None
    BY <1>1 DEF Bucket, Buckets
  <1>2. CASE due # None
    <2>1. due \in Int
      BY <1>2 DEF Optional
    <2>2. DaysOverdue(due) = IF due > 0 THEN 0 ELSE -due
      BY <1>2 DEF DaysOverdue
    <2>3. Bucket(due) \in Buckets
      BY <1>2, <2>1 DEF Bucket, Buckets
    <2>4. Bucket(due) # "missing_due_date"
      BY <1>2, <2>1 DEF Bucket
    <2>5. Bucket(due) = "due_today" <=> due = 0
      BY <1>2, <2>1 DEF Bucket
    <2>6. Bucket(due) = "overdue_91_plus" <=> due < -90
      BY <1>2, <2>1 DEF Bucket
    <2> QED BY <1>2, <2>1, <2>2, <2>3, <2>4, <2>5, <2>6
  <1> QED BY <1>1, <1>2

LEMMA PeriodFacts ==
  ASSUME NEW due \in Int
  PROVE  /\ Period(due) \in Periods /\ Covers(PeriodDates(Period(due)), due)
         /\ Period(due) = "overdue" <=> due < 0
         /\ Period(due) = "due_today" <=> due = 0
         /\ Period(due) \in ThirtyDays <=> due <= 30
         /\ Period(due) \in NinetyDays <=> due <= 90
  <1>1. CASE due < 0
    <2>1. Period(due) = "overdue"
      BY <1>1 DEF Period
    <2>2. Covers(PeriodDates("overdue"), due)
      <3>1. PeriodDates("overdue") = <<None, -1>>
        BY DEF PeriodDates
      <3> QED BY <1>1, <3>1, NoneAssumption DEF Covers
    <2> QED BY <1>1, <2>1, <2>2 DEF Periods, ThirtyDays, NinetyDays
  <1>2. CASE due = 0
    <2>1. Period(due) = "due_today"
      BY <1>2 DEF Period
    <2>2. Covers(PeriodDates("due_today"), due)
      <3>1. PeriodDates("due_today") = <<0, 0>>
        BY DEF PeriodDates
      <3> QED BY <1>2, <3>1, NoneAssumption DEF Covers
    <2> QED BY <1>2, <2>1, <2>2 DEF Periods, ThirtyDays, NinetyDays
  <1>3. CASE due \in 1..7
    <2>1. Period(due) = "next_7_days"
      BY <1>3 DEF Period
    <2>2. Covers(PeriodDates("next_7_days"), due)
      <3>1. PeriodDates("next_7_days") = <<1, 7>>
        BY DEF PeriodDates
      <3> QED BY <1>3, <3>1, NoneAssumption DEF Covers
    <2> QED BY <1>3, <2>1, <2>2 DEF Periods, ThirtyDays, NinetyDays
  <1>4. CASE due \in 8..30
    <2>1. Period(due) = "days_8_30"
      BY <1>4 DEF Period
    <2>2. Covers(PeriodDates("days_8_30"), due)
      <3>1. PeriodDates("days_8_30") = <<8, 30>>
        BY DEF PeriodDates
      <3> QED BY <1>4, <3>1, NoneAssumption DEF Covers
    <2> QED BY <1>4, <2>1, <2>2 DEF Periods, ThirtyDays, NinetyDays
  <1>5. CASE due \in 31..60
    <2>1. Period(due) = "days_31_60"
      BY <1>5 DEF Period
    <2>2. Covers(PeriodDates("days_31_60"), due)
      <3>1. PeriodDates("days_31_60") = <<31, 60>>
        BY DEF PeriodDates
      <3> QED BY <1>5, <3>1, NoneAssumption DEF Covers
    <2> QED BY <1>5, <2>1, <2>2 DEF Periods, ThirtyDays, NinetyDays
  <1>6. CASE due \in 61..90
    <2>1. Period(due) = "days_61_90"
      BY <1>6 DEF Period
    <2>2. Covers(PeriodDates("days_61_90"), due)
      <3>1. PeriodDates("days_61_90") = <<61, 90>>
        BY DEF PeriodDates
      <3> QED BY <1>6, <3>1, NoneAssumption DEF Covers
    <2> QED BY <1>6, <2>1, <2>2 DEF Periods, ThirtyDays, NinetyDays
  <1>7. CASE due > 90
    <2>1. Period(due) = "beyond_90"
      BY <1>7 DEF Period
    <2>2. Covers(PeriodDates("beyond_90"), due)
      <3>1. PeriodDates("beyond_90") = <<91, None>>
        BY DEF PeriodDates
      <3> QED BY <1>7, <3>1, NoneAssumption DEF Covers
    <2> QED BY <1>7, <2>1, <2>2 DEF Periods, ThirtyDays, NinetyDays
  <1> QED BY <1>1, <1>2, <1>3, <1>4, <1>5, <1>6, <1>7

LEMMA FlowIs ==
  ASSUME IInv, NEW type, NEW period
  PROVE  Flow(type, period) = {i \in OpenItems(type) : /\ invoices[i].due \in Int
                                                       /\ Period(invoices[i].due) = period}
  <1>1. \A i \in OpenItems(type) : invoices[i].due # None <=> invoices[i].due \in Int
    BY OpenFacts, InvoiceFacts, NoneAssumption DEF Optional
  <1> QED BY <1>1 DEF Flow

-----------------------------------------------------------------------------
(* The reports agree on what is open *)

BucketOf == [i \in DOMAIN invoices |-> Bucket(invoices[i].due)]
PeriodOf == [i \in DOMAIN invoices |-> Period(invoices[i].due)]
Dated(type) == {i \in OpenItems(type) : invoices[i].due \in Int}
Late(type, day) == {i \in OpenItems(type) : invoices[i].due \in Int /\ invoices[i].due < day}
Today(type) == {i \in OpenItems(type) : invoices[i].due \in Int /\ invoices[i].due = 0}

LEMMA DueFacts ==
  ASSUME IInv, NEW i \in DOMAIN invoices
  PROVE  LET due == invoices[i].due
         IN  /\ due # None <=> due \in Int
             /\ Bucket(due) \in Buckets
             /\ Bucket(due) = "due_today" <=> due \in Int /\ due = 0
             /\ Bucket(due) = "overdue_91_plus" <=> due \in Int /\ due < -90
             /\ (/\ Bucket(due) \notin {"due_today", "missing_due_date"} /\ DaysOverdue(due) > 0)
                   <=> due \in Int /\ due < 0
             /\ (/\ Bucket(due) \notin {"due_today", "missing_due_date"} /\ DaysOverdue(due) > 0
                 /\ DaysOverdue(due) > 90)
                   <=> due \in Int /\ due < -90
  <1>1. PICK due : due = invoices[i].due
    OBVIOUS
  <1>2. due \in Optional
    BY <1>1, InvoiceFacts
  <1>3. due # None <=> due \in Int
    BY <1>2, NoneAssumption DEF Optional
  <1>4. CASE due = None
    BY <1>1, <1>2, <1>3, <1>4, BucketFacts
  <1>5. CASE due # None
    <2>1. /\ Bucket(due) \in Buckets /\ Bucket(due) # "missing_due_date"
          /\ Bucket(due) = "due_today" <=> due = 0
          /\ Bucket(due) = "overdue_91_plus" <=> due < -90
          /\ due \in Int /\ (DaysOverdue(due) > 0 <=> due < 0) /\ (DaysOverdue(due) > 90 <=> due < -90)
      BY <1>2, <1>5, BucketFacts
    <2> QED BY <1>1, <1>5, <2>1
  <1> QED BY <1>4, <1>5

LEMMA BalancesAre ==
  ASSUME IInv, NEW type
  PROVE  LET m == Balances(type)
             S == OfType(type)
             open == OpenItems(type)
         IN  /\ m.unpaid = Count(Unpaid(S)) /\ m.partial = Count(Partial(S))
             /\ m.overpaid = Count(Overpaid(S)) /\ m.mismatched = Count(Mismatched(S))
             /\ m.missing = Count({i \in S : invoices[i].due = None})
             /\ m.open = Count(open)
             /\ m.overdue = Count(Late(type, 0)) /\ m.serious = Count(Late(type, -90))
             /\ m.dueToday = Count(Today(type))
             /\ m.aging = [b \in Buckets |-> Part(open, BucketOf, b)]
             /\ m.outstanding = [c \in Currencies |-> Amount(open, c)]
  <1> DEFINE m == Balances(type)
             S == OfType(type)
             open == OpenItems(type)
             found == {i \in S : Outstanding(i) > 0}
             late == {i \in found : /\ Bucket(invoices[i].due) \notin {"due_today", "missing_due_date"}
                                    /\ DaysOverdue(invoices[i].due) > 0}
  <1>1. /\ m.unpaid = Count(Unpaid(S)) /\ m.partial = Count(Partial(S))
        /\ m.overpaid = Count(Overpaid(S)) /\ m.mismatched = Count(Mismatched(S))
        /\ m.missing = Count({i \in S : invoices[i].due = None})
        /\ m.open = Count(Unpaid(S)) + Count(Partial(S))
        /\ m.overdue = Count(late)
        /\ m.serious = Count({i \in late : DaysOverdue(invoices[i].due) > 90})
        /\ m.dueToday = Count({i \in found : Bucket(invoices[i].due) = "due_today"})
        /\ m.aging = [b \in Buckets |-> {i \in found : Bucket(invoices[i].due) = b}]
        /\ m.outstanding = [c \in Currencies |-> Amount(found, c)]
    BY DEF Balances
  <1>2. found = open /\ open = Unpaid(S) \cup Partial(S) /\ Unpaid(S) \cap Partial(S) = {}
        /\ IsFiniteSet(Unpaid(S)) /\ IsFiniteSet(Partial(S)) /\ open \subseteq S
        /\ S \subseteq DOMAIN invoices
    BY OpenFacts
  <1>3. Count(open) = Count(Unpaid(S)) + Count(Partial(S))
    BY <1>2, CountTwo
  <1>4. \A i \in open : i \in DOMAIN invoices
    BY <1>2
  <1>5. late = Late(type, 0)
    BY <1>2, <1>4, DueFacts DEF Late
  <1>6. {i \in late : DaysOverdue(invoices[i].due) > 90} = Late(type, -90)
    BY <1>2, <1>4, DueFacts DEF Late
  <1>7. {i \in found : Bucket(invoices[i].due) = "due_today"} = Today(type)
    BY <1>2, <1>4, DueFacts DEF Today
  <1>8. \A b : {i \in found : Bucket(invoices[i].due) = b} = Part(open, BucketOf, b)
    BY <1>2, <1>4 DEF Part, BucketOf
  <1> HIDE DEF m, S, open, found, late
  <1> QED BY <1>1, <1>2, <1>3, <1>5, <1>6, <1>7, <1>8 DEF m, S, open

LEMMA PartsOfOpen ==
  ASSUME IInv, NEW type
  PROVE  LET open == OpenItems(type)
             dated == Dated(type)
         IN  /\ open \in SUBSET DOMAIN invoices /\ IsFiniteSet(open)
             /\ dated \in SUBSET open /\ IsFiniteSet(dated)
             /\ IsFiniteSet(Buckets) /\ IsFiniteSet(Periods)
             /\ {i \in open : BucketOf[i] \in Buckets} = open
             /\ Scheduled(type) = dated /\ Undated(type) = open \ dated
             /\ \A period : Flow(type, period) = Part(dated, PeriodOf, period)
             /\ Flow(type, "overdue") = Late(type, 0) /\ Flow(type, "due_today") = Today(type)
  <1> DEFINE open == OpenItems(type)
             dated == Dated(type)
  <1>1. open \in SUBSET DOMAIN invoices /\ IsFiniteSet(open)
    BY OpenFacts
  <1>2. dated \in SUBSET open /\ IsFiniteSet(dated)
    BY <1>1, FS_Subset DEF Dated
  <1>3. IsFiniteSet(Buckets) /\ IsFiniteSet(Periods)
    BY FiniteSeven DEF Buckets, Periods
  <1>4. {i \in open : BucketOf[i] \in Buckets} = open
    BY <1>1, DueFacts DEF BucketOf
  <1>5. \A i \in open : invoices[i].due # None <=> invoices[i].due \in Int
    BY <1>1, DueFacts
  <1>6. \A period : Flow(type, period) = {i \in dated : Period(invoices[i].due) = period}
    BY FlowIs DEF Dated
  <1>7. Undated(type) = open \ dated
    BY <1>5 DEF Undated, Dated
  <1>8. \A period : Flow(type, period) = Part(dated, PeriodOf, period)
    BY <1>1, <1>2, <1>6 DEF Part, PeriodOf
  <1>9. \A i \in dated : i \in Flow(type, Period(invoices[i].due))
                         /\ Period(invoices[i].due) \in Periods
    BY <1>6, PeriodFacts DEF Dated
  <1>10. Scheduled(type) = dated
    BY <1>6, <1>9 DEF Scheduled
  <1>11. Flow(type, "overdue") = Late(type, 0) /\ Flow(type, "due_today") = Today(type)
    BY <1>6, PeriodFacts DEF Late, Today, Dated
  <1> QED BY <1>1, <1>2, <1>3, <1>4, <1>7, <1>8, <1>10, <1>11

LEMMA OpenAgrees == ASSUME IInv PROVE OpenItemsAgree
  <1> SUFFICES ASSUME NEW type \in {"sale", "purchase"}
               PROVE  LET m == Balances(type)
                      IN  /\ m.open = Count(OpenItems(type))
                          /\ m.open = SumFunctionOnSet([b \in Buckets |-> Count(m.aging[b])], Buckets)
                          /\ \A c \in Currencies :
                                m.outstanding[c] = SumFunctionOnSet(
                                    [b \in Buckets |-> Amount(m.aging[b], c)], Buckets)
                          /\ Count(Scheduled(type)) + Count(Undated(type)) = m.open
                          /\ m.overdue = Count(Flow(type, "overdue"))
                          /\ m.dueToday = Count(Flow(type, "due_today"))
    BY DEF OpenItemsAgree
  <1> DEFINE m == Balances(type)
             open == OpenItems(type)
             counts == [b \in Buckets |-> Count(m.aging[b])]
  <1>1. /\ m.open = Count(open) /\ m.overdue = Count(Late(type, 0)) /\ m.dueToday = Count(Today(type))
        /\ m.aging = [b \in Buckets |-> Part(open, BucketOf, b)]
        /\ m.outstanding = [c \in Currencies |-> Amount(open, c)]
    BY BalancesAre
  <1>2. /\ open \in SUBSET DOMAIN invoices /\ IsFiniteSet(open) /\ IsFiniteSet(Buckets)
        /\ {i \in open : BucketOf[i] \in Buckets} = open
        /\ Scheduled(type) = Dated(type) /\ Undated(type) = open \ Dated(type)
        /\ Dated(type) \in SUBSET open /\ IsFiniteSet(Dated(type))
        /\ Flow(type, "overdue") = Late(type, 0) /\ Flow(type, "due_today") = Today(type)
    BY PartsOfOpen
  <1> HIDE DEF m, open
  <1>3. \A b \in Buckets : m.aging[b] = Part(open, BucketOf, b)
    BY <1>1
  <1>4. Count(open) = SumFunctionOnSet(counts, Buckets)
    <2>1. \A b \in Buckets : counts[b] = Cardinality(Part(open, BucketOf, b))
      BY <1>3 DEF Count
    <2> HIDE DEF counts
    <2>2. Cardinality({i \in open : BucketOf[i] \in Buckets}) = SumFunctionOnSet(counts, Buckets)
      BY ONLY <1>2, <2>1, CountParts
    <2> QED BY <1>2, <2>2 DEF Count
  <1>5. ASSUME NEW c \in Currencies
        PROVE  m.outstanding[c] = SumFunctionOnSet([b \in Buckets |-> Amount(m.aging[b], c)], Buckets)
    <2> DEFINE amounts == [b \in Buckets |-> Amount(m.aging[b], c)]
    <2>1. \A b \in Buckets : amounts[b] = Amount(Part(open, BucketOf, b), c)
      BY <1>3
    <2> HIDE DEF amounts
    <2>2. SumFunctionOnSet(amounts, Buckets) = Amount({i \in open : BucketOf[i] \in Buckets}, c)
      BY <1>2, <2>1, AmountByPart
    <2>3. m.outstanding[c] = Amount(open, c)
      BY <1>1
    <2> QED BY <1>2, <2>2, <2>3 DEF amounts
  <1>6. Count(Scheduled(type)) + Count(Undated(type)) = Count(open)
    <2>1. IsFiniteSet(open \ Dated(type)) /\ Dated(type) \cup (open \ Dated(type)) = open
      BY <1>2, FS_Subset
    <2>2. Count(Dated(type) \cup (open \ Dated(type)))
             = Count(Dated(type)) + Count(open \ Dated(type))
      BY <1>2, <2>1, CountTwo
    <2> QED BY <1>2, <2>1, <2>2
  <1> QED BY <1>1, <1>2, <1>4, <1>5, <1>6 DEF m, open

LEMMA StatusIs ==
  \A findings : /\ Status(findings) = "critical" <=> \E f \in findings : f[1] = "critical"
                /\ Status(findings) = "healthy" <=> \A f \in findings : f[1] \notin {"critical", "warning"}
  BY DEF Status

LEMMA LastBucketAgrees == ASSUME IInv PROVE SeriouslyOverdueIsLastBucket
  <1> SUFFICES ASSUME NEW type \in {"sale", "purchase"}
               PROVE  LET last == Balances(type).aging["overdue_91_plus"]
                      IN  /\ Balances(type).serious = Count(last)
                          /\ Status(BalanceFindings(type)) = "critical" <=> last # {}
    BY DEF SeriouslyOverdueIsLastBucket
  <1> DEFINE m == Balances(type)
             last == m.aging["overdue_91_plus"]
  <1>1. /\ m.serious = Count(Late(type, -90))
        /\ m.aging = [b \in Buckets |-> Part(OpenItems(type), BucketOf, b)]
    BY BalancesAre
  <1>2. OpenItems(type) \in SUBSET DOMAIN invoices /\ IsFiniteSet(OpenItems(type))
    BY PartsOfOpen
  <1> HIDE DEF m
  <1>3. last = Part(OpenItems(type), BucketOf, "overdue_91_plus")
    BY <1>1 DEF Buckets
  <1>4. last = Late(type, -90)
    BY <1>2, <1>3, DueFacts DEF Part, BucketOf, Late
  <1>5. IsFiniteSet(last) /\ (Count(last) > 0 <=> last # {})
    <2>1. IsFiniteSet(last)
      BY <1>2, <1>4, FS_Subset DEF Late
    <2> QED BY <2>1, CountFacts
  <1>6. (\E f \in BalanceFindings(type) : f[1] = "critical") <=> m.serious > 0
    <2>1. m.serious > 0 => <<"critical", "SERIOUSLY_OVERDUE">> \in BalanceFindings(type)
      BY DEF BalanceFindings, Finding, m
    <2>2. \A f \in BalanceFindings(type) : f[1] \in {"info", "warning"} \/ m.serious > 0
      BY DEF BalanceFindings, Finding, m
    <2> QED BY <2>1, <2>2
  <1> QED BY <1>1, <1>4, <1>5, <1>6, StatusIs DEF m

LEMMA CurrenciesAgree == ASSUME IInv PROVE PaymentsCountInTheirCurrency
  <1> DEFINE sales == Overpaid(OfType("sale"))
             purchases == Overpaid(OfType("purchase"))
             both == OverpaidInvoices \cap (OfType("sale") \cup OfType("purchase"))
  <1>1. \A i \in DOMAIN invoices : /\ invoices[i].total \in Nat /\ Paid(i) \in Nat
                                   /\ Matching(i) = {} => Paid(i) = 0
    BY InvoiceFacts
  <1>2. /\ sales = {i \in OfType("sale") : Paid(i) > invoices[i].total} /\ IsFiniteSet(sales)
        /\ purchases = {i \in OfType("purchase") : Paid(i) > invoices[i].total}
        /\ IsFiniteSet(purchases)
    BY OpenFacts
  <1>3. /\ Balances("sale").overpaid = Count(sales)
        /\ Balances("purchase").overpaid = Count(purchases)
    BY BalancesAre
  <1> HIDE DEF sales, purchases
  <1>4. both = sales \cup purchases /\ sales \cap purchases = {}
    BY <1>1, <1>2 DEF OverpaidInvoices, OfType
  <1>5. Count(both) = Count(sales) + Count(purchases)
    BY <1>2, <1>4, CountTwo
  <1>6. ASSUME NEW i \in DOMAIN invoices, i \in Settled({i}) \cup OverpaidInvoices
        PROVE  Paid(i) >= invoices[i].total
    BY <1>1, <1>6 DEF Settled, OverpaidInvoices
  <1>7. \A i : Paid(i) = SumFunctionOnSet(Amounts,
            {p \in DOMAIN payments : /\ payments[p].invoice = i
                                     /\ payments[p].currency = invoices[i].currency})
    BY DEF Paid, Matching
  <1> QED BY <1>3, <1>5, <1>6, <1>7 DEF PaymentsCountInTheirCurrency

\* What is projected over some periods is what falls due in one of them.
LEMMA ProjectedIs ==
  ASSUME IInv, NEW type, NEW periods \in SUBSET Periods, NEW c
  PROVE  Projected(type, periods, c)
            = Amount({i \in Dated(type) : Period(invoices[i].due) \in periods}, c)
  <1> DEFINE flows == [period \in Periods |-> Amount(Flow(type, period), c)]
  <1>1. /\ OpenItems(type) \in SUBSET DOMAIN invoices /\ Dated(type) \in SUBSET OpenItems(type)
        /\ IsFiniteSet(Periods) /\ \A period : Flow(type, period) = Part(Dated(type), PeriodOf, period)
    BY PartsOfOpen
  <1>2. Dated(type) \in SUBSET DOMAIN invoices /\ IsFiniteSet(periods)
    BY <1>1, FS_Subset
  <1>3. \A period \in periods : flows[period] = Amount(Part(Dated(type), PeriodOf, period), c)
    BY <1>1
  <1>4. Projected(type, periods, c) = SumFunctionOnSet(flows, periods)
    BY DEF Projected
  <1> HIDE DEF flows
  <1>5. SumFunctionOnSet(flows, periods) = Amount({i \in Dated(type) : PeriodOf[i] \in periods}, c)
    BY <1>2, <1>3, AmountByPart
  <1>6. {i \in Dated(type) : PeriodOf[i] \in periods}
           = {i \in Dated(type) : Period(invoices[i].due) \in periods}
    BY <1>2 DEF PeriodOf
  <1> QED BY <1>4, <1>5, <1>6

LEMMA HorizonsAgree == ASSUME IInv PROVE HorizonsNest
  <1> SUFFICES ASSUME NEW type \in {"sale", "purchase"}
               PROVE  LET open == OpenItems(type)
                      IN  /\ \A period \in Periods : \A i \in Flow(type, period) :
                                Covers(PeriodDates(period), invoices[i].due)
                          /\ \A c \in Currencies :
                                LET ninety == Projected(type, NinetyDays, c)
                                IN  /\ ninety <= Amount(open, c)
                                    /\ ninety - Projected(type, ThirtyDays, c)
                                          = Amount({i \in open : invoices[i].due \in 31..90}, c)
    BY DEF HorizonsNest
  <1> DEFINE open == OpenItems(type)
             To(n) == {i \in Dated(type) : invoices[i].due <= n}
             between == {i \in open : invoices[i].due \in 31..90}
  <1>1. ASSUME NEW period \in Periods, NEW i \in Flow(type, period)
        PROVE  Covers(PeriodDates(period), invoices[i].due)
    BY FlowIs, PeriodFacts
  <1>2. open \in SUBSET DOMAIN invoices /\ Dated(type) \in SUBSET open
    BY PartsOfOpen
  <1>3. \A i \in open : Outstanding(i) > 0
    BY OpenFacts
  <1>4. /\ To(90) = {i \in Dated(type) : Period(invoices[i].due) \in NinetyDays}
        /\ To(30) = {i \in Dated(type) : Period(invoices[i].due) \in ThirtyDays}
    BY PeriodFacts DEF Dated
  <1>5. NinetyDays \in SUBSET Periods /\ ThirtyDays \in SUBSET Periods
    BY DEF NinetyDays, ThirtyDays, Periods
  <1>6. To(90) = To(30) \cup between /\ To(30) \cap between = {}
        /\ To(90) \in SUBSET open /\ To(30) \in SUBSET DOMAIN invoices
        /\ between \in SUBSET DOMAIN invoices
    BY <1>2 DEF Dated
  <1> HIDE DEF To, between, open
  <1>7. ASSUME NEW c \in Currencies
        PROVE  /\ Projected(type, NinetyDays, c) <= Amount(open, c)
               /\ Projected(type, NinetyDays, c) - Projected(type, ThirtyDays, c)
                     = Amount(between, c)
    <2>1. /\ Projected(type, NinetyDays, c) = Amount(To(90), c)
          /\ Projected(type, ThirtyDays, c) = Amount(To(30), c)
      BY <1>4, <1>5, ProjectedIs
    <2>2. Amount(To(90), c) <= Amount(open, c)
      BY <1>2, <1>3, <1>6, AmountGrows
    <2>3. Amount(To(30) \cup between, c) = Amount(To(30), c) + Amount(between, c)
      BY <1>6, AmountTwo
    <2>4. Amount(To(30), c) \in Int /\ Amount(between, c) \in Int
      BY <1>6, AmountIs
    <2>5. Amount(To(90), c) = Amount(To(30), c) + Amount(between, c)
      BY ONLY <1>6, <2>3, Zenon
    <2>6. Amount(To(90), c) - Amount(To(30), c) = Amount(between, c)
      <3> DEFINE x == Amount(To(90), c)
                 y == Amount(between, c)
                 z == Amount(To(30), c)
      <3>1. z \in Int /\ y \in Int /\ x = z + y
        BY <2>4, <2>5
      <3> HIDE DEF x, y, z
      <3>2. x - z = y
        BY ONLY <3>1
      <3> QED BY ONLY <3>2 DEF x, y, z
    <2>7. Projected(type, NinetyDays, c) <= Amount(open, c)
      BY ONLY <2>1, <2>2, Zenon
    <2> QED BY ONLY <2>1, <2>6, <2>7, Zenon
  <1> QED BY <1>1, <1>7 DEF open, between

\* How many open items are before one on the list.
Before(type, i) == Count({j \in OpenItems(type) : Precedes(j, i)})

LEMMA BeforeFacts ==
  ASSUME IInv, NEW type, NEW i \in OpenItems(type)
  PROVE  Before(type, i) \in 0..(Len(invoices) - 1)
  <1> DEFINE open == OpenItems(type)
             prior == {j \in open : Precedes(j, i)}
  <1>1. open \in SUBSET DOMAIN invoices /\ IsFiniteSet(open) /\ i \in DOMAIN invoices
    BY PartsOfOpen
  <1>2. ~Precedes(i, i)
    <2>1. invoices[i].issue \in Int /\ invoices[i].due \in Optional /\ i \in Int
      BY <1>1, InvoiceFacts, FiniteTables
    <2>2. CASE invoices[i].due = None
      BY <2>1, <2>2 DEF Precedes
    <2>3. CASE invoices[i].due # None
      <3>1. invoices[i].due \in Int
        BY <2>1, <2>3 DEF Optional
      <3> QED BY <2>1, <2>3, <3>1 DEF Precedes
    <2> QED BY <2>2, <2>3
  <1>3. prior \in SUBSET (open \ {i}) /\ IsFiniteSet(open \ {i})
    BY <1>1, <1>2, FS_Subset
  <1>4. Cardinality(open \ {i}) = Cardinality(open) - 1
    BY <1>1, FS_RemoveElement
  <1>5. Cardinality(prior) \in Nat /\ Cardinality(prior) <= Cardinality(open \ {i})
    <2> HIDE DEF prior, open
    <2> QED BY <1>3, FS_Subset, FS_CardinalityType
  <1>6. Cardinality(open) \in Nat /\ Cardinality(open) <= Len(invoices) /\ Len(invoices) \in Nat
    <2>1. IsFiniteSet(DOMAIN invoices) /\ DOMAIN invoices = 1..Len(invoices) /\ Len(invoices) \in Nat
      BY FiniteTables
    <2>2. Cardinality(DOMAIN invoices) = Len(invoices)
      <3>1. PICK n \in Nat : n = Len(invoices)
        BY <2>1
      <3>2. Cardinality(1..n) = n
        BY FS_Interval
      <3> QED BY <2>1, <3>1, <3>2
    <2>3. Cardinality(open) <= Cardinality(DOMAIN invoices) /\ Cardinality(open) \in Nat
      BY <1>1, <2>1, FS_Subset, FS_CardinalityType
    <2> QED BY <2>1, <2>2, <2>3
  <1>7. Before(type, i) = Cardinality(prior)
    BY DEF Before, Count
  <1> HIDE DEF prior, open
  <1> QED BY <1>4, <1>5, <1>6, <1>7

LEMMA PagesAgree == ASSUME IInv PROVE PagesPartitionOpenItems
  <1> SUFFICES ASSUME NEW type \in {"sale", "purchase"}, NEW limit \in 1..2, NEW i \in OpenItems(type)
               PROVE  LET pages == [n \in 0..(Len(invoices) - 1) |-> PageOf(type, limit, n * limit)]
                      IN  Count({n \in DOMAIN pages : i \in pages[n]}) = 1
    BY DEF PagesPartitionOpenItems
  <1> DEFINE numbers == 0..(Len(invoices) - 1)
             pages == [n \in numbers |-> PageOf(type, limit, n * limit)]
  <1>1. PICK b : b = Before(type, i)
    OBVIOUS
  <1>2. b \in numbers /\ Len(invoices) \in Nat
    BY <1>1, BeforeFacts, FiniteTables
  <1>3. \A n \in numbers : i \in PageOf(type, limit, n * limit) <=> b >= n * limit /\ b < n * limit + limit
    BY <1>1 DEF PageOf, Before
  <1>4. \E page \in numbers : {n \in numbers : i \in pages[n]} = {page}
    <2>1. CASE limit = 1
      <3>1. \A n \in numbers : i \in pages[n] <=> b >= n /\ b < n + 1
        BY <1>3, <2>1
      <3> HIDE DEF pages
      <3>2. {n \in numbers : i \in pages[n]} = {b}
        BY <1>2, <3>1
      <3> QED BY <1>2, <3>2
    <2>2. CASE limit = 2
      <3>1. \A n \in numbers : i \in pages[n] <=> b >= n * 2 /\ b < n * 2 + 2
        BY <1>3, <2>2
      <3> HIDE DEF pages
      <3>2. PICK page \in Int : page = b \div 2 /\ 2 * page <= b /\ b < 2 * page + 2
        BY <1>2
      <3>3. page \in numbers
        BY <1>2, <3>2
      <3>4. {n \in numbers : i \in pages[n]} = {page}
        BY <1>2, <3>1, <3>2, <3>3
      <3> QED BY <3>3, <3>4
    <2>3. limit = 1 \/ limit = 2
      OBVIOUS
    <2> QED BY <2>1, <2>2, <2>3
  <1>5. DOMAIN pages = numbers
    OBVIOUS
  <1> HIDE DEF pages
  <1> QED BY <1>4, <1>5, FS_Singleton DEF Count, pages

\* The follow-ups that count, at most one for an open item.
Counted == {f \in DOMAIN followups : /\ followups[f].invoice \in OpenItems("sale")
                                     /\ f \in Latest(followups[f].invoice)}
Promised == {f \in Counted : followups[f].status = "promise_to_pay"}
Broken == {f \in Promised : followups[f].date # None /\ followups[f].date < 0}
Waiting == {f \in Counted : followups[f].status = "pending"}

LEMMA PromisesAre ==
  ASSUME IInv
  PROVE  /\ Promises.pending = Count(Waiting) /\ Promises.broken = Count(Broken)
         /\ Promises.open = Count(Promised \ Broken)
         /\ IsFiniteSet(Counted) /\ Count(Counted) <= Count(OpenItems("sale"))
         /\ Count(Counted) \in Nat /\ Count(OpenItems("sale")) \in Nat
  <1> DEFINE open == OpenItems("sale")
             latest == UNION {Latest(i) : i \in {j \in OfType("sale") : Outstanding(j) > 0}}
             promised == {f \in latest : followups[f].status = "promise_to_pay"}
             broken == {f \in promised : followups[f].date # None /\ followups[f].date < 0}
             waiting == {f \in latest : followups[f].status = "pending"}
  <1>1. /\ Promises.pending = Count(waiting) /\ Promises.broken = Count(broken)
        /\ Promises.open = Count(promised \ broken)
    BY DEF Promises
  <1>2. open = {j \in OfType("sale") : Outstanding(j) > 0} /\ IsFiniteSet(open)
    BY OpenFacts
  <1>3. latest = Counted
    BY <1>2 DEF Latest, Counted
  <1>4. promised = Promised /\ broken = Broken /\ waiting = Waiting
    BY <1>3 DEF Promised, Broken, Waiting
  <1>5. IsFiniteSet(Counted)
    BY FiniteTables, FS_Subset DEF Counted
  <1>6. Cardinality(Counted) <= Cardinality(open)
    <2> DEFINE of == [f \in Counted |-> followups[f].invoice]
    <2>1. of \in [Counted -> open]
      BY DEF Counted
    <2>2. ASSUME NEW f \in Counted, NEW g \in Counted, followups[f].invoice = followups[g].invoice
          PROVE  f = g
      <3>1. followups[f].updated <= followups[g].updated /\ followups[g].updated <= followups[f].updated
        BY <2>2 DEF Counted, Latest
      <3>2. followups[f].updated \in Int /\ followups[g].updated \in Int
        BY DEF Counted, IInv, FollowUpsSound
      <3>3. followups[f].updated = followups[g].updated
        BY <3>1, <3>2
      <3> QED BY <3>3 DEF Counted, IInv, FollowUpsSound
    <2>3. of \in Injection(Counted, open)
      BY <2>1, <2>2 DEF Injection, IsInjective
    <2> HIDE DEF of, open
    <2> QED BY <1>2, <2>3, FS_Injection
  <1> HIDE DEF open, latest, promised, broken, waiting
  <1>7. Cardinality(Counted) \in Nat /\ Cardinality(open) \in Nat
    BY <1>2, <1>5, FS_CardinalityType
  <1> QED BY <1>1, <1>4, <1>5, <1>6, <1>7 DEF Count, open

LEMMA PromisesAgree == ASSUME IInv PROVE PromisesAreOfOpenItems
  <1>1. /\ Promises.pending = Count(Waiting) /\ Promises.broken = Count(Broken)
        /\ Promises.open = Count(Promised \ Broken)
        /\ IsFiniteSet(Counted) /\ Count(Counted) <= Count(OpenItems("sale"))
        /\ Count(Counted) \in Nat /\ Count(OpenItems("sale")) \in Nat
    BY PromisesAre
  <1>2. /\ Waiting \in SUBSET Counted /\ Promised \in SUBSET Counted /\ Broken \in SUBSET Promised
        /\ Waiting \cap Promised = {} /\ Broken \cup (Promised \ Broken) = Promised
        /\ Promised \cup Waiting \in SUBSET Counted
    BY DEF Waiting, Promised, Broken
  <1>3. /\ IsFiniteSet(Waiting) /\ IsFiniteSet(Promised) /\ IsFiniteSet(Broken)
        /\ IsFiniteSet(Promised \ Broken)
    BY <1>1, <1>2, FS_Subset
  <1>4. Count(Broken \cup (Promised \ Broken)) = Count(Broken) + Count(Promised \ Broken)
    BY <1>3, CountTwo
  <1>5. Count(Promised \cup Waiting) = Count(Promised) + Count(Waiting)
    BY <1>2, <1>3, CountTwo
  <1>6. Count(Promised \cup Waiting) <= Count(Counted)
    BY <1>1, <1>2, FS_Subset DEF Count
  <1>7. /\ Count(Broken) \in Nat /\ Count(Promised \ Broken) \in Nat /\ Count(Waiting) \in Nat
        /\ Count(Promised) \in Nat /\ (Count(Promised) > 0 <=> Promised # {})
    BY <1>3, CountFacts
  <1>8. Count(Promised) = Count(Broken) + Count(Promised \ Broken)
    BY ONLY <1>2, <1>4, Zenon
  <1>9. Promises.broken + Promises.open + Promises.pending <= Count(OpenItems("sale"))
    BY <1>1, <1>5, <1>6, <1>7, <1>8
  <1>10. ASSUME NEW f \in DOMAIN followups,
                \A g \in DOMAIN followups : followups[g].updated <= followups[f].updated,
                followups[f].status = "promise_to_pay", followups[f].invoice \in OpenItems("sale")
         PROVE  Promises.broken + Promises.open > 0
    <2>1. f \in Promised
      BY <1>10 DEF Promised, Counted, Latest
    <2> QED BY <1>1, <1>7, <1>8, <2>1
  <1> QED BY <1>9, <1>10 DEF PromisesAreOfOpenItems

-----------------------------------------------------------------------------
(* The lists match the diagnoses *)

LEMMA ElectronicListMatches ==
  ASSUME IInv, \A i \in DOMAIN invoices : invoices[i].status # "accented"
  PROVE  Exceptions # {} <=> Status(ElectronicFindings) # "healthy"
  <1> DEFINE S == OfType("sale")
             Some(status) == \E i \in S : StatusInReport(i) = status
             Wrong == \/ Some("rejected") \/ Some("pending") \/ Some("none")
                      \/ \E i \in S : invoices[i].reference = None
                      \/ \E i \in S : invoices[i].number = None
                      \/ \E i \in S : ~invoices[i].party
                      \/ TotalMismatch(S) # {}
                      \/ \E i \in S : invoices[i].issue > 0
  <1>1. ASSUME ~Wrong PROVE \A f \in ElectronicFindings : f[1] \notin {"critical", "warning"}
    BY <1>1 DEF ElectronicFindings, Finding
  <1>2. ASSUME Wrong PROVE \E f \in ElectronicFindings : f[1] \in {"critical", "warning"}
    <2>1. CASE Some("rejected")
      <3>1. <<"critical", "ELECTRONIC_INVOICES_REJECTED">> \in ElectronicFindings
        BY <2>1 DEF ElectronicFindings, Finding
      <3> QED BY <3>1
    <2>2. CASE Some("pending")
      <3>1. <<"warning", "ELECTRONIC_INVOICES_PENDING">> \in ElectronicFindings
        BY <2>2 DEF ElectronicFindings, Finding
      <3> QED BY <3>1
    <2>3. CASE Some("none")
      <3>1. <<"warning", "ELECTRONIC_STATUS_MISSING">> \in ElectronicFindings
        BY <2>3 DEF ElectronicFindings, Finding
      <3> QED BY <3>1
    <2>4. CASE \E i \in S : invoices[i].reference = None
      <3>1. <<"warning", "REFERENCE_MISSING">> \in ElectronicFindings
        BY <2>4 DEF ElectronicFindings, Finding
      <3> QED BY <3>1
    <2>5. CASE \E i \in S : invoices[i].number = None
      <3>1. <<"warning", "MISSING_NUMBER">> \in ElectronicFindings
        BY <2>5 DEF ElectronicFindings, Finding
      <3> QED BY <3>1
    <2>6. CASE \E i \in S : ~invoices[i].party
      <3>1. <<"warning", "WITHOUT_RECIPIENT">> \in ElectronicFindings
        BY <2>6 DEF ElectronicFindings, Finding
      <3> QED BY <3>1
    <2>7. CASE TotalMismatch(S) # {}
      <3>1. <<"critical", "TOTAL_MISMATCH">> \in ElectronicFindings
        BY <2>7 DEF ElectronicFindings, Finding
      <3> QED BY <3>1
    <2>8. CASE \E i \in S : invoices[i].issue > 0
      <3>1. <<"warning", "FUTURE_DATED">> \in ElectronicFindings
        BY <2>8 DEF ElectronicFindings, Finding
      <3> QED BY <3>1
    <2> QED BY <1>2, <2>1, <2>2, <2>3, <2>4, <2>5, <2>6, <2>7, <2>8
  <1>3. Exceptions # {} <=> Wrong
    <2>1. \A i \in S : StatusInList(i) # "accepted" <=> StatusInReport(i) \in {"rejected", "pending", "none"}
      BY DEF OfType, StatusInList, StatusInReport, KnownStatuses
    <2>2. \A i \in S : i \in TotalMismatch({i}) <=> i \in TotalMismatch(S)
      BY DEF TotalMismatch
    <2>3. TotalMismatch(S) \subseteq S
      BY DEF TotalMismatch
    <2> HIDE DEF S
    <2>4. \A i : i \in Exceptions <=>
             /\ i \in S
             /\ \/ StatusInReport(i) \in {"rejected", "pending", "none"}
                \/ invoices[i].reference = None \/ invoices[i].number = None
                \/ ~invoices[i].party \/ i \in TotalMismatch(S)
                \/ invoices[i].issue > 0
      BY <2>1, <2>2 DEF Exceptions, S
    <2> QED BY <2>3, <2>4
  <1> HIDE DEF Wrong
  <1> QED BY <1>1, <1>2, <1>3, StatusIs

LEMMA ExogenousListMatches ==
  ASSUME IInv, parties # <<>>
  PROVE  ExogenousExceptions # {} <=> Status(ExogenousFindings) # "healthy"
  <1> DEFINE identity == MissingField("type") \cup MissingField("number") # {}
             location == MissingField("city") \cup MissingField("address") # {}
             untraced == \E i \in YearInvoices : invoices[i].number = None \/ ~invoices[i].party
             mismatch == TotalMismatch(YearInvoices) # {}
             unlinked == \E p \in YearPayments : payments[p].invoice = None
             Wrong == identity \/ location \/ untraced \/ mismatch \/ unlinked
  <1>1. ASSUME ~Wrong PROVE \A f \in ExogenousFindings : f[1] \notin {"critical", "warning"}
    BY <1>1 DEF ExogenousFindings, Finding
  <1>2. ASSUME Wrong PROVE \E f \in ExogenousFindings : f[1] \in {"critical", "warning"}
    <2>1. CASE identity
      <3>1. <<"critical", "PARTIES_MISSING_IDENTIFICATION">> \in ExogenousFindings
        BY <2>1 DEF ExogenousFindings, Finding
      <3> QED BY <3>1
    <2>2. CASE location
      <3>1. <<"warning", "PARTIES_MISSING_LOCATION">> \in ExogenousFindings
        BY <2>2 DEF ExogenousFindings, Finding
      <3> QED BY <3>1
    <2>3. CASE untraced
      <3>1. <<"warning", "INVOICES_MISSING_TRACEABILITY">> \in ExogenousFindings
        BY <2>3 DEF ExogenousFindings, Finding
      <3> QED BY <3>1
    <2>4. CASE mismatch
      <3>1. <<"critical", "INVOICES_WITH_TOTAL_MISMATCH">> \in ExogenousFindings
        BY <2>4 DEF ExogenousFindings, Finding
      <3> QED BY <3>1
    <2>5. CASE unlinked
      <3>1. <<"warning", "PAYMENTS_WITHOUT_INVOICE">> \in ExogenousFindings
        BY <2>5 DEF ExogenousFindings, Finding
      <3> QED BY <3>1
    <2> QED BY <1>2, <2>1, <2>2, <2>3, <2>4, <2>5
  <1>3. identity \/ location <=> \E p \in DOMAIN parties : parties[p].has # PartyFields
    <2>1. \A p \in DOMAIN parties : parties[p].has \subseteq PartyFields
      BY DEF IInv, PartiesSound
    <2>2. \A p \in DOMAIN parties : parties[p].has # PartyFields <=>
             \/ "type" \notin parties[p].has \/ "number" \notin parties[p].has
             \/ "city" \notin parties[p].has \/ "address" \notin parties[p].has
      BY <2>1 DEF PartyFields
    <2> QED BY <2>2 DEF MissingField
  <1>4. untraced \/ mismatch <=> \E i \in YearInvoices :
           invoices[i].number = None \/ ~invoices[i].party \/ i \in TotalMismatch({i})
    BY DEF TotalMismatch
  <1>5. ExogenousExceptions # {} <=>
           \/ \E p \in DOMAIN parties : parties[p].has # PartyFields
           \/ \E i \in YearInvoices :
                 invoices[i].number = None \/ ~invoices[i].party \/ i \in TotalMismatch({i})
           \/ unlinked
    BY DEF ExogenousExceptions
  <1>6. ExogenousExceptions # {} <=> Wrong
    BY <1>3, <1>4, <1>5
  <1> HIDE DEF Wrong
  <1> QED BY <1>1, <1>2, <1>6, StatusIs

LEMMA ListsAgree == ASSUME IInv PROVE ListsMatchDiagnoses
  BY ElectronicListMatches, ExogenousListMatches DEF ListsMatchDiagnoses

LEMMA AllReportsAgree == ASSUME IInv PROVE ReportsAgree
  BY OpenAgrees, LastBucketAgrees, CurrenciesAgree, HorizonsAgree, PagesAgree, PromisesAgree,
     ListsAgree DEF ReportsAgree

-----------------------------------------------------------------------------
(* A diagnosis that finds nothing is right *)

LEMMA CapturesSound == ASSUME IInv PROVE CapturesAreSound
  <1>1. TotalMismatch(DOMAIN invoices) = {}
    BY DEF TotalMismatch, IInv, InvoicesSound, InvoiceSound
  <1>2. \A i \in SubtotalMismatch : ~invoices[i].exact
    BY DEF SubtotalMismatch, LineSum, LinesOf, IInv, InvoicesSound, InvoiceSound
  <1>3. \A j \in Unbalanced : ~journals[j].exact
    BY DEF Unbalanced, DebitOf, CreditOf, IInv, JournalsSound, JournalSound
  <1>4. ~\E j \in DOMAIN journals : journals[j].lines = <<>>
    BY DEF IInv, JournalsSound, JournalSound
  <1>5. BothSides = {}
    <2> SUFFICES ASSUME NEW j \in DOMAIN journals, NEW n \in DOMAIN journals[j].lines,
                        journals[j].lines[n].debit > 0, journals[j].lines[n].credit > 0
                 PROVE  FALSE
      BY DEF BothSides
    <2>1. journals[j].lines[n].debit = 0 \/ journals[j].lines[n].credit = 0
      BY DEF IInv, JournalsSound, JournalSound
    <2> QED BY <2>1
  <1>6. \A f \in HealthFindings({"active"}, 0, 0) : f[1] = "critical" =>
           \/ Unbalanced # {} \/ BothSides # {} \/ \E j \in DOMAIN journals : journals[j].lines = <<>>
    BY DEF HealthFindings, Finding
  <1>7. Unbalanced \subseteq DOMAIN journals
    BY DEF Unbalanced
  <1> QED BY <1>1, <1>2, <1>3, <1>4, <1>5, <1>6, <1>7, StatusIs DEF CapturesAreSound

LEMMA HealthyIsCollected == ASSUME IInv PROVE HealthyMeansCollected
  <1> SUFFICES ASSUME Status(ReceivablesFindings) = "healthy"
               PROVE  /\ \A i \in OfType("sale") : Outstanding(i) = 0 /\ invoices[i].due # None
                      /\ Promises.broken = 0
    BY DEF HealthyMeansCollected
  <1> DEFINE S == OfType("sale")
             m == Balances("sale")
             undated == {i \in S : invoices[i].due = None}
  <1>1. \A f \in ReceivablesFindings : f[1] \notin {"critical", "warning"}
    BY StatusIs
  <1>2. /\ <<"warning", "UNPAID">> \notin ReceivablesFindings
        /\ <<"warning", "PARTIALLY_PAID">> \notin ReceivablesFindings
        /\ <<"warning", "OVERPAID">> \notin ReceivablesFindings
        /\ <<"warning", "MISSING_DUE_DATE">> \notin ReceivablesFindings
        /\ <<"warning", "BROKEN_PAYMENT_PROMISES">> \notin ReceivablesFindings
    BY <1>1
  <1>3. ~(m.unpaid > 0) /\ ~(m.partial > 0) /\ ~(m.overpaid > 0) /\ ~(m.missing > 0)
    BY <1>2 DEF ReceivablesFindings, BalanceFindings, Finding
  <1>4. ~(Promises.broken > 0)
    BY <1>2 DEF ReceivablesFindings, Finding
  <1>5. /\ m.unpaid = Count(Unpaid(S)) /\ m.partial = Count(Partial(S))
        /\ m.overpaid = Count(Overpaid(S)) /\ m.missing = Count(undated)
    BY BalancesAre
  <1>6. /\ IsFiniteSet(Unpaid(S)) /\ IsFiniteSet(Partial(S)) /\ IsFiniteSet(Overpaid(S))
        /\ IsFiniteSet(undated) /\ S \subseteq DOMAIN invoices
        /\ {i \in S : Outstanding(i) > 0} = Unpaid(S) \cup Partial(S)
        /\ Overpaid(S) = {i \in S : Paid(i) > invoices[i].total}
    BY OpenFacts, FS_Subset
  <1> HIDE DEF S, m, undated
  <1>7. Unpaid(S) = {} /\ Partial(S) = {} /\ Overpaid(S) = {} /\ undated = {}
    BY <1>3, <1>5, <1>6, CountFacts
  <1>8. ASSUME NEW i \in S PROVE Outstanding(i) = 0 /\ invoices[i].due # None
    <2>1. /\ invoices[i].total \in Nat /\ Paid(i) \in Nat
          /\ Outstanding(i) = invoices[i].total - Paid(i)
      BY <1>6, InvoiceFacts
    <2>2. ~(Outstanding(i) > 0) /\ ~(Paid(i) > invoices[i].total)
      BY <1>6, <1>7
    <2> QED BY <1>7, <2>1, <2>2 DEF undated
  <1>9. Promises.broken = 0
    <2>1. Promises.broken = Count(Broken) /\ IsFiniteSet(Counted)
      BY PromisesAre
    <2>2. Broken \in SUBSET Counted
      BY DEF Broken, Promised
    <2>3. Count(Broken) \in Nat
      BY <2>1, <2>2, FS_Subset, CountFacts
    <2> QED BY <1>4, <2>1, <2>3
  <1> QED BY <1>8, <1>9 DEF S

\* The movements of the bank, counted by what was made of them.
LEMMA BankCountsAre ==
  ASSUME NEW movements \in BankStates
  PROVE  LET With(status) == {t \in DOMAIN movements : movements[t].status = status}
             unclear == {t \in With("pending") : movements[t].candidates > 1}
             lost == {t \in With("pending") : movements[t].candidates = 0} \cup With("dismissed")
             m == BankCounts(movements)
         IN  /\ m.pending = Count(With("pending")) /\ m.suggested = Count(With("suggested"))
             /\ m.ambiguous = Count(unclear) /\ m.unmatched = Count(lost)
             /\ \A S \in SUBSET DOMAIN movements :
                   Count(S) \in Nat /\ (Count(S) > 0 <=> S # {})
             /\ \A t \in DOMAIN movements : movements[t].status \in
                   {"pending", "suggested", "reconciled", "excluded", "dismissed"}
  <1> DEFINE With(status) == {t \in DOMAIN movements : movements[t].status = status}
             unclear == {t \in With("pending") : movements[t].candidates > 1}
             lost == {t \in With("pending") : movements[t].candidates = 0} \cup With("dismissed")
             m == BankCounts(movements)
  <1>1. /\ m.pending = Count(With("pending")) /\ m.suggested = Count(With("suggested"))
        /\ m.ambiguous = Count(unclear) /\ m.unmatched = Count(lost)
    BY DEF BankCounts
  <1>2. movements \in Seq([status : {"pending", "suggested", "reconciled", "excluded", "dismissed"},
                           candidates : Nat])
    BY BankAssumption
  <1>3. DOMAIN movements = 1..Len(movements) /\ Len(movements) \in Nat
    BY <1>2
  <1>4. IsFiniteSet(DOMAIN movements)
    BY <1>3, FS_Interval
  <1>5. \A S \in SUBSET DOMAIN movements : Count(S) \in Nat /\ (Count(S) > 0 <=> S # {})
    BY <1>4, FS_Subset, CountFacts
  <1>6. \A t \in DOMAIN movements : movements[t].status \in
           {"pending", "suggested", "reconciled", "excluded", "dismissed"}
    <2> SUFFICES ASSUME NEW t \in DOMAIN movements
                 PROVE  movements[t].status \in
                           {"pending", "suggested", "reconciled", "excluded", "dismissed"}
      OBVIOUS
    <2>1. t \in 1..Len(movements)
      BY <1>3
    <2>2. movements[t] \in [status : {"pending", "suggested", "reconciled", "excluded", "dismissed"},
                            candidates : Nat]
      BY <1>2, <2>1, ElementOfSeq
    <2> QED BY <2>2
  <1> QED BY <1>1, <1>5, <1>6

\* What is projected over thirty days is what falls due in them.
LEMMA ThirtyDaysAre ==
  ASSUME IInv, NEW type, NEW c
  PROVE  /\ Projected(type, ThirtyDays, c) = Amount(DueBy(type, 30), c)
         /\ Amount(DueBy(type, 30), c) \in Int
  <1>1. DueBy(type, 30) = {i \in Dated(type) : Period(invoices[i].due) \in ThirtyDays}
    <2>1. OpenItems(type) \in SUBSET DOMAIN invoices
      BY PartsOfOpen
    <2>2. \A i \in OpenItems(type) : invoices[i].due # None <=> invoices[i].due \in Int
      BY <2>1, InvoiceFacts, NoneAssumption DEF Optional
    <2>3. \A i \in Dated(type) : Period(invoices[i].due) \in ThirtyDays <=> invoices[i].due <= 30
      BY PeriodFacts DEF Dated
    <2>4. DueBy(type, 30) = {i \in Dated(type) : invoices[i].due <= 30}
      BY <2>2 DEF DueBy, Dated
    <2> QED BY <2>3, <2>4
  <1>2. ThirtyDays \in SUBSET Periods
    BY DEF ThirtyDays, Periods
  <1>3. DueBy(type, 30) \in SUBSET DOMAIN invoices
    <2>1. OpenItems(type) \in SUBSET DOMAIN invoices
      BY PartsOfOpen
    <2> QED BY <2>1 DEF DueBy
  <1>4. Projected(type, ThirtyDays, c) = Amount(DueBy(type, 30), c)
    BY <1>1, <1>2, ProjectedIs
  <1>5. Amount(DueBy(type, 30), c) \in Int
    BY <1>3, AmountIs
  <1> QED BY <1>4, <1>5

LEMMA HealthyIsConfirmed == ASSUME IInv PROVE HealthyMeansConfirmed
  <1> SUFFICES ASSUME NEW report \in reports, NEW movements \in BankStates,
                      Status(TreasuryFindings(movements, report)) = "healthy"
               PROVE  /\ report.cutoff # None
                      /\ \A t \in DOMAIN movements : movements[t].status \in {"reconciled", "excluded"}
                      /\ \A i \in OfType("sale") \cup OfType("purchase") :
                            Outstanding(i) > 0 => invoices[i].due # None
                      /\ \A c \in Currencies :
                            Amount(DueBy("purchase", 30), c) <= Amount(DueBy("sale", 30), c)
                      /\ Status(BankFindings(movements)) = "healthy"
    BY DEF HealthyMeansConfirmed
  <1> DEFINE findings == TreasuryFindings(movements, report)
             m == BankCounts(movements)
             With(status) == {t \in DOMAIN movements : movements[t].status = status}
             unclear == {t \in With("pending") : movements[t].candidates > 1}
             lost == {t \in With("pending") : movements[t].candidates = 0} \cup With("dismissed")
  <1>1. \A f \in findings : f[1] \notin {"critical", "warning"}
    BY StatusIs
  <1>2. /\ <<"warning", "REQUIRES_BALANCE">> \notin findings
        /\ <<"warning", "BALANCE_INCOMPLETE">> \notin findings
        /\ <<"warning", "CUTS_NOT_ALIGNED">> \notin findings
        /\ <<"warning", "BANK_DATA_UNAVAILABLE">> \notin findings
        /\ <<"warning", "RECONCILIATION_REQUIRES_REVIEW">> \notin findings
        /\ <<"warning", "MISSING_DUE_DATE">> \notin findings
        /\ <<"warning", "NEGATIVE_NET_30D">> \notin findings
    BY <1>1
  <1>3. report.cutoff # None
    <2> DEFINE balance == CASE report.cutoff # None -> <<"info", "BALANCE_AVAILABLE">>
                            [] report.covered = {} -> <<"warning", "REQUIRES_BALANCE">>
                            [] Count(report.active) # Count(report.covered) ->
                                   <<"warning", "BALANCE_INCOMPLETE">>
                            [] OTHER -> <<"warning", "CUTS_NOT_ALIGNED">>
    <2>1. balance \in findings
      BY DEF TreasuryFindings
    <2>2. report.cutoff = None => balance \in {<<"warning", "REQUIRES_BALANCE">>,
              <<"warning", "BALANCE_INCOMPLETE">>, <<"warning", "CUTS_NOT_ALIGNED">>}
      OBVIOUS
    <2> HIDE DEF balance, findings
    <2> QED BY <1>2, <2>1, <2>2
  <1>4. ~(accounts = <<>> \/ DOMAIN movements = {})
    BY <1>2 DEF TreasuryFindings, Finding
  <1>5. ~(m.pending + m.suggested + m.unmatched + m.ambiguous > 0)
    BY <1>2 DEF TreasuryFindings, Finding
  <1>6. Undated("sale") \cup Undated("purchase") = {}
    BY <1>2 DEF TreasuryFindings, Finding
  <1>7. /\ m.pending = Count(With("pending")) /\ m.suggested = Count(With("suggested"))
        /\ m.ambiguous = Count(unclear) /\ m.unmatched = Count(lost)
        /\ \A S \in SUBSET DOMAIN movements : Count(S) \in Nat /\ (Count(S) > 0 <=> S # {})
        /\ \A t \in DOMAIN movements : movements[t].status \in
              {"pending", "suggested", "reconciled", "excluded", "dismissed"}
    BY BankCountsAre
  <1>8. /\ With("pending") \in SUBSET DOMAIN movements /\ With("suggested") \in SUBSET DOMAIN movements
        /\ unclear \in SUBSET DOMAIN movements /\ lost \in SUBSET DOMAIN movements
    OBVIOUS
  <1>9. m.pending = 0 /\ m.suggested = 0 /\ m.unmatched = 0 /\ m.ambiguous = 0
    <2> HIDE DEF m, With, unclear, lost
    <2>1. m.pending \in Nat /\ m.suggested \in Nat /\ m.unmatched \in Nat /\ m.ambiguous \in Nat
      BY <1>7, <1>8
    <2>2. \A p, s, u, a \in Nat : ~(p + s + u + a > 0) => p = 0 /\ s = 0 /\ u = 0 /\ a = 0
      OBVIOUS
    <2> QED BY ONLY <1>5, <2>1, <2>2, Zenon
  <1>10. With("pending") = {} /\ With("suggested") = {} /\ lost = {}
    <2> HIDE DEF m, With, unclear, lost
    <2>1. ~(0 > 0)
      OBVIOUS
    <2>2. Count(With("pending")) = 0 /\ Count(With("suggested")) = 0 /\ Count(lost) = 0
      BY ONLY <1>7, <1>9, Zenon
    <2> QED BY ONLY <1>7, <1>8, <2>1, <2>2, Zenon
  <1>11. \A t \in DOMAIN movements : movements[t].status \in {"reconciled", "excluded"}
    BY <1>7, <1>10
  <1>12. ASSUME NEW i \in OfType("sale") \cup OfType("purchase"), Outstanding(i) > 0
         PROVE  invoices[i].due # None
    <2>1. i \in OpenItems("sale") \cup OpenItems("purchase")
      BY <1>12, OpenFacts
    <2> QED BY <1>6, <2>1 DEF Undated
  <1>13. \A f \in BankFindings(movements) : f[1] \notin {"critical", "warning"}
    BY <1>9 DEF BankFindings, Finding
  <1>14. ASSUME NEW c \in Currencies
         PROVE  Amount(DueBy("purchase", 30), c) <= Amount(DueBy("sale", 30), c)
    <2>1. ~(Net(ThirtyDays, c) < 0)
      BY <1>2, <1>14 DEF TreasuryFindings, Finding
    <2>2. /\ Projected("sale", ThirtyDays, c) = Amount(DueBy("sale", 30), c)
          /\ Projected("purchase", ThirtyDays, c) = Amount(DueBy("purchase", 30), c)
      BY ThirtyDaysAre
    <2>3. /\ Amount(DueBy("sale", 30), c) \in Int /\ Amount(DueBy("purchase", 30), c) \in Int
      BY ThirtyDaysAre
    <2> HIDE DEF findings, m, With, unclear, lost
    <2> QED BY <2>1, <2>2, <2>3 DEF Net
  <1> QED BY <1>3, <1>11, <1>12, <1>13, <1>14, StatusIs

LEMMA AllDiagnosesSound == ASSUME IInv PROVE DiagnosesAreSound
  BY CapturesSound, HealthyIsCollected, HealthyIsConfirmed DEF DiagnosesAreSound

-----------------------------------------------------------------------------
(* What always holds of the books *)

\* The tables keep their shape: no amount of an invoice is negative and every
\* payment is positive, payments and follow-ups name invoices that exist, follow-
\* ups only those of sales, and an import has counted every row of its file that
\* it has read exactly once.
THEOREM TypeCorrect == Spec => []TypeOK
  <1>1. ASSUME IInv PROVE TypeOK
    <2>1. \A i \in DOMAIN invoices :
            /\ invoices[i].type \in InvoiceTypes
            /\ {invoices[i].subtotal, invoices[i].tax, invoices[i].withholding, invoices[i].total}
                  \subseteq Nat
            /\ invoices[i].lines \in Seq([quantity : Nat, price : Nat])
      BY <1>1 DEF IInv, InvoicesSound, InvoiceSound
    <2>2. \A p \in DOMAIN payments : /\ payments[p].invoice \in DOMAIN invoices \cup {None}
                                     /\ payments[p].amount \in Nat \ {0}
      BY <1>1 DEF IInv, PaymentsSound
    <2>3. \A f \in DOMAIN followups : /\ followups[f].invoice \in DOMAIN invoices
                                      /\ invoices[followups[f].invoice].type = "sale"
                                      /\ followups[f].updated \in 1..stamps
      BY <1>1 DEF IInv, FollowUpsSound, OfType
    <2>4. \A s \in snapshots : s[1] \in DOMAIN accounts /\ s[2] <= 0
      BY <1>1 DEF IInv, SnapshotsSound
    <2>5. ASSUME NEW r \in Requests PROVE Request(requests[r])
      <3>1. PICK q : q = requests[r]
        OBVIOUS
      <3>2. RequestSound(q)
        BY <1>1, <3>1 DEF IInv, RequestsSound
      <3>3. Request(q)
        BY <3>2 DEF Request, RequestSound, TermsPending, FollowUpPending, EvidencePending
      <3> QED BY <3>1, <3>3
    <2> QED BY <2>1, <2>2, <2>3, <2>4, <2>5 DEF TypeOK
  <1> QED BY <1>1, Invariant, PTL

\* An invoice with a term of payment falls due that many days after its issue,
\* unless two updates of its terms overlapped, and never before its issue: what
\* create_invoice and update_terms resolve survives every other update.
THEOREM TermsAgreeAlways == Spec => []TermsAgree
  <1>1. IInv => TermsAgree
    BY DEF IInv, TermsSound, TermsAgree, Agreed, DueLater
  <1> QED BY <1>1, Invariant, PTL

\* A follow-up has a date exactly when it promises a payment, however two requests
\* that change its status and its date overlap: the CHECK constraint sees the row
\* as the second UPDATE leaves it.
THEOREM PromiseHasDateAlways == Spec => []PromiseHasDate
  <1>1. IInv => PromiseHasDate
    BY DEF IInv, FollowUpsSound, PromiseHasDate
  <1> QED BY <1>1, Invariant, PTL

\* The electronic evidence an invoice shows is that of the last audit row accepted
\* for it, unless two imports overlapped on it: updates of the invoice's terms
\* write other columns, and captures append.
THEOREM EvidenceIsAuditedAlways == Spec => []EvidenceIsAudited
  <1>1. IInv => EvidenceIsAudited
    BY DEF IInv, EvidenceSound
  <1> QED BY <1>1, Invariant, PTL

\* A treasury report names one bank balance only when every account that was
\* active has a verified balance of that day, its latest, unless an account was
\* opened between the two queries of the report.
THEOREM BalanceCoversAccountsAlways == Spec => []BalanceCoversAccounts
  <1>1. IInv => BalanceCoversAccounts
    BY DEF IInv
  <1> QED BY <1>1, Invariant, PTL

\* The reports of one set of books never contradict each other: open items,
\* buckets, periods, pages and promises count the same invoices and the same
\* money, although each report selects and sums them with a query of its own.
THEOREM ReportsAgreeAlways == Spec => []ReportsAgree
  BY AllReportsAgree, Invariant, PTL

\* A diagnosis that finds nothing wrong is right about the books, and none is
\* wrong about what a capture stored.
THEOREM DiagnosesAreSoundAlways == Spec => []DiagnosesAreSound
  BY AllDiagnosesSound, Invariant, PTL

================================================================================
