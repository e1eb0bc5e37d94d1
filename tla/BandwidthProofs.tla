--------------------------- MODULE BandwidthProofs ---------------------------
(***************************************************************************)
(* Bandwidth, for every set of torrents, sizes, peers, bands, word size    *)
(* and tick length.                                                        *)
(*                                                                         *)
(* 1. Sums over finite sets.  The library gives no induction that the      *)
(*    provers can use, and no unfolding of a fold: both are obtained here  *)
(*    from the well-foundedness of the strict subset ordering.             *)
(* 2. The arithmetic of the band: a sample, a step of the reflected walk   *)
(*    and a change of the limits end inside it; one fold is any number of  *)
(*    bounces off the walls.                                               *)
(* 3. One speed provider (RandomSpeed).                                    *)
(* 4. The dispatcher: a completed torrent draws no budget; counters,       *)
(*    weights and mailbox are as they should be; a tick neither overspends *)
(*    nor wastes a budget; a completion is forgotten only when the mailbox *)
(*    is full.                                                             *)
(***************************************************************************)
EXTENDS BandwidthDispatcher, RandomSpeed, FiniteSetTheorems, TLAPS

(* 1. Sums over finite sets. *)

\* Induction over the subsets of a finite set, for a property given as the set
\* of those that have it.
LEMMA SubsetInduction ==
    ASSUME NEW S, IsFiniteSet(S), NEW G,
           \A A \in SUBSET S :
              (\A B \in SUBSET A : B # A => B \in G) => A \in G
    PROVE  \A A \in SUBSET S : A \in G
<1> DEFINE Bad == {A \in SUBSET S : A \notin G}
<1>1. FiniteSubsetsOf(S) = SUBSET S
  BY FS_FiniteSubsetsOfFinite
<1>2. IsWellFoundedOn(StrictSubsetOrdering(S), SUBSET S)
  BY <1>1, FS_StrictSubsetOrderingWellFounded
<1>. SUFFICES ASSUME Bad # {} PROVE FALSE
  OBVIOUS
<1>3. PICK A \in Bad : \A B \in Bad : <<B, A>> \notin StrictSubsetOrdering(S)
  <2>1. Bad \subseteq SUBSET S
    OBVIOUS
  <2>. HIDE DEF Bad
  <2>. QED  BY <1>2, <2>1, WFMin
<1>4. ASSUME NEW B \in SUBSET A, B # A PROVE B \in G
  BY <1>3, <1>4 DEF StrictSubsetOrdering
<1>. QED  BY <1>3, <1>4

\* Induction on the numbers below, from induction over finite sets.
LEMMA StrongInduction ==
    ASSUME NEW G, \A n \in Nat : (\A k \in 0..(n - 1) : k \in G) => n \in G
    PROVE  Nat \subseteq G
<1>. SUFFICES ASSUME NEW n \in Nat PROVE n \in G
  OBVIOUS
<1>. DEFINE H == {A \in SUBSET (0..n) : \A k \in 0..n : A = 0..k => k \in G}
<1>1. IsFiniteSet(0..n)
  BY FS_Interval
<1>2. ASSUME NEW A \in SUBSET (0..n), \A B \in SUBSET A : B # A => B \in H PROVE A \in H
  <2>1. SUFFICES ASSUME NEW k \in 0..n, A = 0..k PROVE k \in G
    OBVIOUS
  <2>2. ASSUME NEW j \in 0..(k - 1) PROVE j \in G
    <3>1. 0..j \in SUBSET A /\ 0..j # A /\ j \in 0..n
      BY <2>1
    <3>. QED  BY <1>2, <3>1
  <2>. QED  BY <2>2
<1>3. 0..n \in H
  <2>. HIDE DEF H
  <2>1. \A A \in SUBSET (0..n) : (\A B \in SUBSET A : B # A => B \in H) => A \in H
    BY <1>2
  <2>2. \A A \in SUBSET (0..n) : A \in H
    BY <1>1, <2>1, SubsetInduction
  <2>. QED  BY <2>2
<1>. QED  BY <1>3

\* The element the library's sum takes first.
First(s) == CHOOSE x \in s : TRUE

\* g meets the recursive equation of the sum of f over the subsets of S.
Meets(g, f, S) ==
    g = [s \in SUBSET S |->
            IF s = {} THEN 0
            ELSE LET x == CHOOSE x \in s : TRUE
                 IN f[x] + g[s \ {x}]]

LEMMA SumByEquation ==
    ASSUME NEW f, NEW S
    PROVE  SumFunctionOnSet(f, S) = (CHOOSE g : Meets(g, f, S))[S]
BY DEF SumFunctionOnSet, FoldFunctionOnSet, MapThenFoldSet, Meets

LEMMA MeetsValue ==
    ASSUME NEW f, NEW S, NEW g, Meets(g, f, S)
    PROVE  /\ g[{}] = 0
           /\ \A s \in SUBSET S :
                 s # {} => g[s] = f[First(s)] + g[s \ {First(s)}]
BY DEF Meets, First

LEMMA FirstIn == ASSUME NEW s, s # {} PROVE First(s) \in s
BY DEF First

\* Two functions that meet it agree on the sets both know.
LEMMA MeetsUnique ==
    ASSUME NEW f, NEW S, IsFiniteSet(S), NEW g, Meets(g, f, S),
           NEW T \in SUBSET S, NEW h, Meets(h, f, T)
    PROVE  h[T] = g[T]
<1> DEFINE Agree == {A \in SUBSET T : h[A] = g[A]}
<1>1. ASSUME NEW A \in SUBSET T, \A B \in SUBSET A : B # A => B \in Agree
      PROVE  A \in Agree
  <2>1. CASE A = {}
    BY <2>1, MeetsValue
  <2>2. CASE A # {}
    <3>1. First(A) \in A
      BY <2>2, FirstIn
    <3>2. h[A \ {First(A)}] = g[A \ {First(A)}]
      BY <1>1, <3>1
    <3>3. h[A] = f[First(A)] + h[A \ {First(A)}]
      BY <2>2, MeetsValue
    <3>4. g[A] = f[First(A)] + g[A \ {First(A)}]
      BY <2>2, MeetsValue
    <3>. QED  BY <3>2, <3>3, <3>4
  <2>. QED  BY <2>1, <2>2
<1>2. IsFiniteSet(T)
  BY FS_Subset
<1>3. \A A \in SUBSET T : A \in Agree
  <2>. HIDE DEF Agree
  <2>. QED  BY <1>1, <1>2, SubsetInduction
<1>. QED  BY <1>3

\* One exists.
LEMMA MeetsExists ==
    ASSUME NEW f, NEW S, IsFiniteSet(S)
    PROVE  \E g : Meets(g, f, S)
<1> DEFINE Met == {A \in SUBSET S : \E g : Meets(g, f, A)}
           Val(A) == (CHOOSE g : Meets(g, f, A))[A]
<1>1. ASSUME NEW A \in SUBSET S, \A B \in SUBSET A : B # A => B \in Met
      PROVE  A \in Met
  <2> DEFINE g == [s \in SUBSET A |->
                     IF s = {} THEN 0 ELSE f[First(s)] + Val(s \ {First(s)})]
  <2>1. ASSUME NEW s \in SUBSET A, s # A
        PROVE  g[s] = Val(s)
    <3> DEFINE h == CHOOSE h : Meets(h, f, s)
    <3>1. Meets(h, f, s)
      BY <1>1, <2>1
    <3>. HIDE DEF h
    <3>2. Val(s) = h[s]
      BY DEF h
    <3>3. CASE s = {}
      BY <3>1, <3>2, <3>3, MeetsValue
    <3>4. CASE s # {}
      <4> DEFINE r == s \ {First(s)}
      <4>1. First(s) \in s
        BY <3>4, FirstIn
      <4>2. h[s] = f[First(s)] + h[r]
        BY <3>1, <3>4, MeetsValue
      <4>3. PICK j : Meets(j, f, r)
        BY <1>1, <2>1, <4>1
      <4>4. Meets(CHOOSE k : Meets(k, f, r), f, r)
        BY <4>3
      <4>5. IsFiniteSet(s)
        BY <2>1, FS_Subset
      <4>6. Val(r) = h[r]
        <5>1. r \in SUBSET s
          OBVIOUS
        <5>. HIDE DEF r
        <5>. QED  BY <3>1, <4>4, <4>5, <5>1, MeetsUnique
      <4>7. g[s] = f[First(s)] + Val(r)
        BY <3>4
      <4>. HIDE DEF g, Val, r
      <4>. QED  BY <3>2, <4>2, <4>6, <4>7
    <3>. QED  BY <3>3, <3>4
  <2>2. ASSUME NEW s \in SUBSET A, s # {}
        PROVE  g[s] = f[First(s)] + g[s \ {First(s)}]
    <3> DEFINE r == s \ {First(s)}
    <3>1. r \in SUBSET A /\ r # A
      BY <2>2, FirstIn
    <3>2. g[r] = Val(r)
      <4>. HIDE DEF g, Val, r
      <4>. QED  BY <2>1, <3>1
    <3>3. g[s] = f[First(s)] + Val(r)
      BY <2>2
    <3>. HIDE DEF g, Val
    <3>. QED  BY <3>2, <3>3
  <2>3. g[{}] = 0
    OBVIOUS
  <2>4. g = [s \in SUBSET A |-> g[s]]
    OBVIOUS
  <2>5. Meets(g, f, A)
    <3>. HIDE DEF g, Val
    <3>. QED  BY <2>2, <2>3, <2>4 DEF Meets, First
  <2>. QED  BY <2>5
<1>2. \A A \in SUBSET S : A \in Met
  <2>. HIDE DEF Met
  <2>. QED  BY <1>1, SubsetInduction
<1>. QED  BY <1>2

\* The library's sum obeys the equation it is defined by.
LEMMA SumUnfolds ==
    ASSUME NEW f, NEW S, IsFiniteSet(S)
    PROVE  /\ SumFunctionOnSet(f, {}) = 0
           /\ S # {} => SumFunctionOnSet(f, S)
                          = f[First(S)] + SumFunctionOnSet(f, S \ {First(S)})
<1> DEFINE Eq(T) == CHOOSE g : Meets(g, f, T)
<1>1. ASSUME NEW T \in SUBSET S
      PROVE  Meets(Eq(T), f, T) /\ SumFunctionOnSet(f, T) = Eq(T)[T]
  BY MeetsExists, SumByEquation, FS_Subset
<1>. HIDE DEF Eq
<1>2. SumFunctionOnSet(f, {}) = 0
  BY <1>1, MeetsValue
<1>3. ASSUME S # {}
      PROVE  SumFunctionOnSet(f, S)
                = f[First(S)] + SumFunctionOnSet(f, S \ {First(S)})
  <2> DEFINE r == S \ {First(S)}
  <2>1. r \in SUBSET S
    OBVIOUS
  <2>2. Eq(S)[S] = f[First(S)] + Eq(S)[r]
    BY <1>1, <1>3, MeetsValue
  <2>3. Eq(r)[r] = Eq(S)[r]
    <3>. HIDE DEF r
    <3>. QED  BY <1>1, <2>1, MeetsUnique
  <2>. QED  BY <1>1, <2>1, <2>2, <2>3
<1>. QED  BY <1>2, <1>3

LEMMA SumIsInt ==
    ASSUME NEW f, NEW S, IsFiniteSet(S), \A x \in S : f[x] \in Int
    PROVE  SumFunctionOnSet(f, S) \in Int
<1> DEFINE G == {A \in SUBSET S : SumFunctionOnSet(f, A) \in Int}
<1>1. ASSUME NEW A \in SUBSET S, \A B \in SUBSET A : B # A => B \in G
      PROVE  A \in G
  <2>1. IsFiniteSet(A)
    BY FS_Subset
  <2>2. CASE A = {}
    BY <2>1, <2>2, SumUnfolds
  <2>3. CASE A # {}
    <3>1. First(A) \in A
      BY <2>3, FirstIn
    <3>2. SumFunctionOnSet(f, A \ {First(A)}) \in Int
      BY <1>1, <3>1
    <3>. QED  BY <2>1, <2>3, <3>1, <3>2, SumUnfolds
  <2>. QED  BY <2>2, <2>3
<1>2. \A A \in SUBSET S : A \in G
  <2>. HIDE DEF G
  <2>. QED  BY <1>1, SubsetInduction
<1>. QED  BY <1>2

\* Any element may be taken out of a sum.
LEMMA SumWithout ==
    ASSUME NEW f, NEW S, IsFiniteSet(S), \A x \in S : f[x] \in Int,
           NEW y \in S
    PROVE  SumFunctionOnSet(f, S) = f[y] + SumFunctionOnSet(f, S \ {y})
<1> DEFINE G == {A \in SUBSET S :
                   \A z \in A : SumFunctionOnSet(f, A)
                                  = f[z] + SumFunctionOnSet(f, A \ {z})}
<1>1. ASSUME NEW A \in SUBSET S, \A B \in SUBSET A : B # A => B \in G
      PROVE  A \in G
  <2>1. ASSUME NEW z \in A
        PROVE  SumFunctionOnSet(f, A) = f[z] + SumFunctionOnSet(f, A \ {z})
    <3> DEFINE a == First(A)
               r == (A \ {z}) \ {a}
    <3>1. IsFiniteSet(A) /\ A # {} /\ a \in A
      BY <2>1, FS_Subset, FirstIn
    <3>2. SumFunctionOnSet(f, A) = f[a] + SumFunctionOnSet(f, A \ {a})
      BY <3>1, SumUnfolds
    <3>. HIDE DEF a
    <3>3. CASE z = a
      BY <3>2, <3>3
    <3>4. CASE z # a
      <4>1. SumFunctionOnSet(f, A \ {a})
              = f[z] + SumFunctionOnSet(f, (A \ {a}) \ {z})
        <5>1. A \ {a} \in G /\ z \in A \ {a}
          BY <1>1, <3>1, <3>4
        <5>. QED  BY <5>1
      <4>2. SumFunctionOnSet(f, A \ {z}) = f[a] + SumFunctionOnSet(f, r)
        <5>1. A \ {z} \in G /\ a \in A \ {z}
          BY <1>1, <2>1, <3>1, <3>4
        <5>. QED  BY <5>1
      <4>3. (A \ {a}) \ {z} = r
        OBVIOUS
      <4>4. SumFunctionOnSet(f, r) \in Int
        <5>1. IsFiniteSet(r) /\ \A x \in r : f[x] \in Int
          BY <3>1, FS_Subset
        <5>. HIDE DEF r
        <5>. QED  BY <5>1, SumIsInt
      <4>5. f[a] \in Int /\ f[z] \in Int
        BY <2>1, <3>1
      <4>6. SumFunctionOnSet(f, A) = f[a] + (f[z] + SumFunctionOnSet(f, r))
        BY <3>2, <4>1, <4>3
      <4>. HIDE DEF r, G
      <4>. QED  BY <4>2, <4>4, <4>5, <4>6
    <3>. QED  BY <3>3, <3>4
  <2>. QED  BY <2>1
<1>2. \A A \in SUBSET S : A \in G
  <2>. HIDE DEF G
  <2>. QED  BY <1>1, SubsetInduction
<1>. QED  BY <1>2

\* A linear bound on every term bounds the sums.
LEMMA SumsBounded ==
    ASSUME NEW f, NEW g, NEW S, IsFiniteSet(S),
           \A x \in S : f[x] \in Int /\ g[x] \in Int,
           NEW a \in Int, NEW b \in Int, NEW c \in Int,
           \A x \in S : a * f[x] <= b * g[x] + c
    PROVE  a * SumFunctionOnSet(f, S)
              <= b * SumFunctionOnSet(g, S) + c * Cardinality(S)
<1> DEFINE Bound(A) == a * SumFunctionOnSet(f, A)
                          <= b * SumFunctionOnSet(g, A) + c * Cardinality(A)
           G == {A \in SUBSET S : Bound(A)}
<1>1. ASSUME NEW A \in SUBSET S, \A B \in SUBSET A : B # A => B \in G
      PROVE  A \in G
  <2>1. IsFiniteSet(A)
    BY FS_Subset
  <2>2. CASE A = {}
    <3>1. /\ SumFunctionOnSet(f, A) = 0 /\ SumFunctionOnSet(g, A) = 0
          /\ Cardinality(A) = 0
      BY <2>1, <2>2, SumUnfolds, FS_EmptySet
    <3>. QED  BY <3>1
  <2>3. CASE A # {}
    <3> DEFINE y == First(A)
               r == A \ {y}
    <3>1. y \in A /\ f[y] \in Int /\ g[y] \in Int
      BY <2>3, FirstIn
    <3>2. Bound(r)
      BY <1>1, <3>1
    <3>3. /\ SumFunctionOnSet(f, A) = f[y] + SumFunctionOnSet(f, r)
          /\ SumFunctionOnSet(g, A) = g[y] + SumFunctionOnSet(g, r)
      BY <2>1, <2>3, SumUnfolds
    <3>4. IsFiniteSet(r) /\ \A x \in r : f[x] \in Int /\ g[x] \in Int
      BY <2>1, FS_Subset
    <3>5. Cardinality(A) = 1 + Cardinality(r) /\ Cardinality(r) \in Nat
      BY <2>1, <3>1, <3>4, FS_RemoveElement, FS_CardinalityType
    <3>. HIDE DEF y, r
    <3> DEFINE sf == SumFunctionOnSet(f, r)
               sg == SumFunctionOnSet(g, r)
               n  == Cardinality(r)
    <3>6. sf \in Int /\ sg \in Int
      BY <3>4, SumIsInt
    <3>7. a * sf <= b * sg + c * n /\ a * f[y] <= b * g[y] + c
      BY <3>1, <3>2
    <3>8. /\ a * (f[y] + sf) = a * f[y] + a * sf
          /\ b * (g[y] + sg) = b * g[y] + b * sg
          /\ c * (1 + n) = c + c * n
      <4>. HIDE DEF sf, sg, n
      <4>1. n \in Int
        BY <3>5 DEF n
      <4>. QED  BY <3>1, <3>6, <4>1
    <3>9. /\ a * f[y] \in Int /\ a * sf \in Int /\ b * g[y] \in Int
          /\ b * sg \in Int /\ c * n \in Int
      BY <3>1, <3>5, <3>6
    <3>10. a * (f[y] + sf) <= b * (g[y] + sg) + c * (1 + n)
      <4>. HIDE DEF sf, sg, n
      <4>. QED  BY <3>7, <3>8, <3>9
    <3>. QED  BY <3>3, <3>5, <3>10
  <2>. QED  BY <2>2, <2>3
<1>2. \A A \in SUBSET S : A \in G
  <2>. HIDE DEF G
  <2>. QED  BY <1>1, SubsetInduction
<1>. QED  BY <1>2

\* Sums keep the order of their terms.
LEMMA SumsOrdered ==
    ASSUME NEW f, NEW g, NEW S, IsFiniteSet(S),
           \A x \in S : f[x] \in Int /\ g[x] \in Int /\ f[x] <= g[x]
    PROVE  SumFunctionOnSet(f, S) <= SumFunctionOnSet(g, S)
<1> DEFINE one  == 1
           zero == 0
           sf   == SumFunctionOnSet(f, S)
           sg   == SumFunctionOnSet(g, S)
           n    == Cardinality(S)
<1>1. /\ one \in Int /\ zero \in Int
      /\ \A x \in S : one * f[x] <= one * g[x] + zero
  OBVIOUS
<1>2. sf \in Int /\ sg \in Int /\ n \in Int
  BY SumIsInt, FS_CardinalityType
<1>3. one * sf <= one * sg + zero * n
  <2>. HIDE DEF one, zero
  <2>. QED  BY <1>1, SumsBounded
<1>. HIDE DEF sf, sg, n
<1>4. sf <= sg
  BY <1>2, <1>3
<1>. QED  BY <1>4 DEF sf, sg

\* Sums of functions that agree on the set.
LEMMA SumsEqual ==
    ASSUME NEW f, NEW g, NEW S, IsFiniteSet(S),
           \A x \in S : f[x] \in Int /\ g[x] = f[x]
    PROVE  SumFunctionOnSet(g, S) = SumFunctionOnSet(f, S)
<1> DEFINE sf == SumFunctionOnSet(f, S)
           sg == SumFunctionOnSet(g, S)
<1>1. sf \in Int /\ sg \in Int
  BY SumIsInt
<1>2. sf <= sg /\ sg <= sf
  BY SumsOrdered
<1>. HIDE DEF sf, sg
<1>3. sg = sf
  BY <1>1, <1>2
<1>. QED  BY <1>3 DEF sf, sg

\* Terms that are zero may be left out.
LEMMA SumOverSupport ==
    ASSUME NEW f, NEW S, IsFiniteSet(S), NEW T \in SUBSET S,
           \A x \in S : f[x] \in Int, \A x \in S \ T : f[x] = 0
    PROVE  SumFunctionOnSet(f, S) = SumFunctionOnSet(f, T)
<1> DEFINE G == {A \in SUBSET S :
                   SumFunctionOnSet(f, A) = SumFunctionOnSet(f, A \cap T)}
<1>1. ASSUME NEW A \in SUBSET S, \A B \in SUBSET A : B # A => B \in G
      PROVE  A \in G
  <2>1. IsFiniteSet(A) /\ IsFiniteSet(A \cap T)
    BY FS_Subset
  <2>2. CASE A \subseteq T
    <3>1. A \cap T = A
      BY <2>2
    <3>. QED  BY <3>1
  <2>3. ASSUME NEW y \in A, y \notin T
        PROVE  A \in G
    <3>1. SumFunctionOnSet(f, A) = f[y] + SumFunctionOnSet(f, A \ {y})
      BY <2>1, SumWithout
    <3>2. SumFunctionOnSet(f, A \ {y}) = SumFunctionOnSet(f, (A \ {y}) \cap T)
      BY <1>1, <2>3
    <3>3. (A \ {y}) \cap T = A \cap T
      BY <2>3
    <3>4. SumFunctionOnSet(f, A \cap T) \in Int
      <4>1. \A x \in A \cap T : f[x] \in Int
        OBVIOUS
      <4>. QED  BY <2>1, <4>1, SumIsInt
    <3>5. f[y] = 0
      BY <2>3
    <3>6. SumFunctionOnSet(f, A) = SumFunctionOnSet(f, A \cap T)
      <4>1. SumFunctionOnSet(f, A) = 0 + SumFunctionOnSet(f, A \cap T)
        BY <3>1, <3>2, <3>3, <3>5
      <4>. QED  BY <3>4, <4>1
    <3>. QED  BY <3>6
  <2>. QED  BY <2>2, <2>3
<1>2. S \in G
  <2>. HIDE DEF G
  <2>. QED  BY <1>1, SubsetInduction
<1>3. S \cap T = T
  OBVIOUS
<1>. QED  BY <1>2, <1>3

\* A part of a sum of natural numbers is no more than the whole.
LEMMA SumOfPart ==
    ASSUME NEW f, NEW S, IsFiniteSet(S), NEW T \in SUBSET S,
           \A x \in S : f[x] \in Nat
    PROVE  /\ SumFunctionOnSet(f, T) \in Nat
           /\ SumFunctionOnSet(f, T) <= SumFunctionOnSet(f, S)
<1> DEFINE g == [x \in S |-> IF x \in T THEN f[x] ELSE 0]
           z == [x \in S |-> 0]
<1>0. /\ \A x \in S : g[x] = IF x \in T THEN f[x] ELSE 0
      /\ \A x \in S : z[x] = 0
  OBVIOUS
<1>. HIDE DEF g, z
<1>1. IsFiniteSet(T) /\ Cardinality(S) \in Int /\ Cardinality(T) \in Int
  BY FS_Subset, FS_CardinalityType
<1>2. SumFunctionOnSet(g, T) = SumFunctionOnSet(f, T)
  BY <1>0, <1>1, SumsEqual
<1>3. SumFunctionOnSet(g, S) = SumFunctionOnSet(g, T)
  BY <1>0, SumOverSupport
<1>4. SumFunctionOnSet(g, S) <= SumFunctionOnSet(f, S)
  <2>1. \A x \in S : g[x] \in Int /\ f[x] \in Int /\ g[x] <= f[x]
    BY <1>0
  <2>. QED  BY <2>1, SumsOrdered
<1>5. /\ SumFunctionOnSet(f, S) \in Int /\ SumFunctionOnSet(f, T) \in Int
      /\ SumFunctionOnSet(z, T) \in Int
  BY <1>0, <1>1, SumIsInt
<1>6. SumFunctionOnSet(z, T) <= SumFunctionOnSet(f, T)
  <2>1. \A x \in T : z[x] \in Int /\ f[x] \in Int /\ z[x] <= f[x]
    BY <1>0
  <2>. QED  BY <1>1, <2>1, SumsOrdered
<1>7. SumFunctionOnSet(z, T) = 0
  <2>1. SumFunctionOnSet(z, {}) = 0
    BY <1>1, SumUnfolds
  <2>2. SumFunctionOnSet(z, T) = SumFunctionOnSet(z, {})
    BY <1>0, <1>1, SumOverSupport
  <2>. QED  BY <2>1, <2>2
<1>. QED  BY <1>2, <1>3, <1>4, <1>5, <1>6, <1>7
-----------------------------------------------------------------------------
(* 2. The arithmetic of the band. *)

\* Saturation keeps the order of the rates and the range of the word.
LEMMA BytesInWord ==
    ASSUME NEW lo \in Nat, NEW hi \in Nat, lo <= hi
    PROVE  /\ Bytes(lo) \in 0..MaxWord
           /\ Bytes(hi) \in 0..MaxWord
           /\ Bytes(lo) <= Bytes(hi)
<1>1. lo * Unit \in Nat /\ hi * Unit \in Nat
  BY SpeedBandAssumption
<1>2. lo * Unit <= hi * Unit
  BY SpeedBandAssumption
<1>. QED  BY <1>1, <1>2, SpeedBandAssumption DEF Bytes, Saturated

\* Rust's remainder is smaller than the modulus, on either side of zero.
LEMMA RemRange ==
    ASSUME NEW x \in Int, NEW m \in Nat \ {0}
    PROVE  Rem(x, m) \in Int /\ -m < Rem(x, m) /\ Rem(x, m) < m
<1>1. CASE x >= 0
  BY <1>1 DEF Rem
<1>2. CASE x < 0
  <2>1. (-x) % m \in 0..(m - 1)
    BY <1>2
  <2>. QED  BY <1>2, <2>1 DEF Rem
<1>. QED  BY <1>1, <1>2

\* However far out a position is, reflect() brings it back into the band.
LEMMA ReflectInBand ==
    ASSUME NEW x \in Int, NEW lo \in Nat, NEW hi \in Nat, lo <= hi
    PROVE  Reflect(x, lo, hi) \in lo..hi
<1>1. CASE hi <= lo
  BY <1>1 DEF Reflect
<1>2. CASE lo < hi
  <2> DEFINE m == 2 * (hi - lo)
             r == Rem(x - lo, m) + m
             y == Rem(r, m)
  <2>1. m \in Nat \ {0} /\ x - lo \in Int
    BY <1>2
  <2>2. r \in Nat
    BY <2>1, RemRange
  <2>3. y = r % m
    BY <2>2 DEF Rem
  <2>4. y \in 0..(m - 1)
    BY <2>1, <2>2, <2>3
  <2>5. Reflect(x, lo, hi) = lo + (IF y > hi - lo THEN m - y ELSE y)
    BY <1>2 DEF Reflect
  <2>. HIDE DEF y
  <2>. QED  BY <1>2, <2>4, <2>5
<1>. QED  BY <1>1, <1>2

\* A remainder is known exactly within two periods.
LEMMA SmallMod ==
    ASSUME NEW n \in Nat, NEW m \in Nat \ {0}
    PROVE  /\ n < m => n % m = n
           /\ m <= n /\ n < 2 * m => n % m = n - m
<1> DEFINE q == n \div m
<1>1. n = m * q + (n % m) /\ n % m \in 0..(m - 1) /\ q \in Nat
  OBVIOUS
<1>. HIDE DEF q
<1>2. n < m => q = 0
  <2>. SUFFICES ASSUME n < m, q >= 1 PROVE FALSE
    BY <1>1
  <2>1. m * q >= m
    BY <1>1
  <2>. QED  BY <1>1, <2>1
<1>3. m <= n /\ n < 2 * m => q = 1
  <2>. SUFFICES ASSUME m <= n, n < 2 * m, q # 1 PROVE FALSE
    OBVIOUS
  <2>1. CASE q = 0
    BY <1>1, <2>1
  <2>2. CASE q >= 2
    <3>1. m * q >= m * 2
      BY <1>1, <2>2
    <3>. QED  BY <1>1, <3>1
  <2>. QED  BY <1>1, <2>1, <2>2
<1>. QED  BY <1>1, <1>2, <1>3

\* From inside the band, a reflected move of at most the band's width is never
\* longer than the move itself.
LEMMA ReflectIsClose ==
    ASSUME NEW lo \in Nat, NEW hi \in Nat, lo < hi,
           NEW s \in lo..hi, NEW d \in Int, NEW b \in Nat,
           b <= hi - lo, -b <= d, d <= b
    PROVE  /\ Reflect(s + d, lo, hi) - s <= b
           /\ s - Reflect(s + d, lo, hi) <= b
<1> DEFINE span == hi - lo
           m == 2 * span
           x == (s + d) - lo
           y == Rem(Rem(x, m) + m, m)
<1>1. /\ span \in Nat \ {0} /\ m \in Nat \ {0} /\ m = 2 * span
      /\ x \in Int /\ x = (s - lo) + d /\ -span <= x /\ x <= m
  OBVIOUS
<1>2. Reflect(s + d, lo, hi) = lo + (IF y > span THEN m - y ELSE y)
  BY DEF Reflect
<1>. HIDE DEF m, x
<1>3. CASE 0 <= x /\ x < m
  <2>1. Rem(x, m) = x
    BY <1>1, <1>3, SmallMod DEF Rem
  <2>2. (x + m) % m = x
    <3>1. x + m \in Nat /\ m <= x + m /\ x + m < 2 * m /\ (x + m) - m = x
      BY <1>1, <1>3
    <3>. QED  BY <3>1, <1>1, SmallMod
  <2>3. y = x
    BY <1>1, <1>3, <2>1, <2>2 DEF Rem
  <2>. HIDE DEF y
  <2>. QED  BY <1>1, <1>2, <1>3, <2>3
<1>4. CASE x = m
  <2>1. m % m = 0
    <3>1. m \in Nat /\ m <= m /\ m < 2 * m /\ m - m = 0
      BY <1>1
    <3>. QED  BY <3>1, <1>1, SmallMod
  <2>2. Rem(x, m) = 0
    BY <1>1, <1>4, <2>1 DEF Rem
  <2>3. y = 0
    BY <1>1, <2>1, <2>2 DEF Rem
  <2>. HIDE DEF y
  <2>. QED  BY <1>1, <1>2, <1>4, <2>3
<1>5. CASE x < 0
  <2>1. Rem(x, m) = x
    <3>1. -x \in Nat /\ -x < m
      BY <1>1, <1>5
    <3>2. (-x) % m = -x
      BY <3>1, <1>1, SmallMod
    <3>. QED  BY <1>1, <1>5, <3>2 DEF Rem
  <2>2. x + m \in Nat /\ x + m < m
    BY <1>1, <1>5
  <2>3. (x + m) % m = x + m
    BY <2>2, <1>1, SmallMod
  <2>4. y = x + m
    BY <2>1, <2>2, <2>3 DEF Rem
  <2>. HIDE DEF y
  <2>. QED  BY <1>1, <1>2, <1>5, <2>4
<1>. QED  BY <1>1, <1>3, <1>4, <1>5

\* A step is never wider than the band.
LEMMA MaxStepBounds ==
    ASSUME NEW lo \in Nat, NEW hi \in Nat, lo < hi
    PROVE  MaxStep(lo, hi) \in Nat /\ MaxStep(lo, hi) <= hi - lo
<1> DEFINE n == hi - lo
           q == n \div StepRatio
<1>1. n \in Nat \ {0}
  OBVIOUS
<1>2. q \in Nat /\ n = StepRatio * q + (n % StepRatio) /\ n % StepRatio \in Nat
  BY <1>1, SpeedBandAssumption
<1>3. q <= StepRatio * q
  BY <1>2, SpeedBandAssumption
<1>4. MaxStep(lo, hi) = IF q < 1 THEN 1 ELSE q
  BY DEF MaxStep
<1>. HIDE DEF q
<1>. QED  BY <1>1, <1>2, <1>3, <1>4, SpeedBandAssumption

LEMMA SampledInBand ==
    ASSUME NEW lo \in Nat, NEW hi \in Nat, lo <= hi, NEW s \in Sampled(lo, hi)
    PROVE  s \in lo..hi
BY DEF Sampled

LEMMA SteppedInBand ==
    ASSUME NEW lo \in Nat, NEW hi \in Nat, lo <= hi,
           NEW s \in lo..hi, NEW r \in Stepped(s, lo, hi)
    PROVE  /\ r \in lo..hi
           /\ r - s <= MaxStep(lo, hi) /\ s - r <= MaxStep(lo, hi)
<1>1. CASE lo >= hi
  <2>1. r = hi /\ s = hi
    BY <1>1 DEF Stepped
  <2>2. MaxStep(lo, hi) \in Int /\ 0 <= MaxStep(lo, hi)
    BY <1>1, SpeedBandAssumption DEF MaxStep
  <2>. QED  BY <1>1, <2>1, <2>2
<1>2. CASE lo < hi
  <2>1. MaxStep(lo, hi) \in Nat /\ MaxStep(lo, hi) <= hi - lo
    BY <1>2, MaxStepBounds
  <2>2. PICK d \in -MaxStep(lo, hi)..MaxStep(lo, hi) : r = Reflect(s + d, lo, hi)
    BY <1>2 DEF Stepped
  <2>3. d \in Int /\ -MaxStep(lo, hi) <= d /\ d <= MaxStep(lo, hi)
    BY <2>1, <2>2
  <2>4. r \in lo..hi
    BY <2>2, <2>3, ReflectInBand
  <2>5. r - s <= MaxStep(lo, hi) /\ s - r <= MaxStep(lo, hi)
    BY <1>2, <2>1, <2>2, <2>3, ReflectIsClose
  <2>. QED  BY <2>4, <2>5
<1>. QED  BY <1>1, <1>2

\* A remainder is what is left of a multiple.
LEMMA ModIs ==
    ASSUME NEW n \in Int, NEW m \in Nat \ {0}, NEW q \in Int, NEW y \in 0..(m - 1),
           n = m * q + y
    PROVE  n % m = y
<1>. DEFINE d == n \div m
           r == n % m
<1>1. n = m * d + r /\ r \in 0..(m - 1) /\ d \in Int
  OBVIOUS
<1>. HIDE DEF d, r
<1>2. m * (d - q) = y - r
  BY <1>1
<1>3. CASE d >= q + 1
  <2>1. m * (d - q) >= m
    BY <1>1, <1>3
  <2>. QED  BY <1>1, <1>2, <2>1
<1>4. CASE q >= d + 1
  <2>1. m * (q - d) >= m
    BY <1>1, <1>4
  <2>2. m * (q - d) = r - y
    BY <1>1
  <2>. QED  BY <1>1, <2>1, <2>2
<1>. QED  BY <1>1, <1>3, <1>4 DEF r

\* reflect() reduces twice because Rust's % takes the sign of its dividend: what it
\* folds is the remainder of the distance from the lower wall.
LEMMA ReflectFolds ==
    ASSUME NEW x \in Int, NEW lo \in Int, NEW hi \in Int, lo < hi
    PROVE  LET m == 2 * (hi - lo)
               y == (x - lo) % m
           IN  Reflect(x, lo, hi) = lo + (IF y > hi - lo THEN m - y ELSE y)
<1>. DEFINE m == 2 * (hi - lo)
           u == x - lo
           y == u % m
           z == Rem(Rem(u, m) + m, m)
<1>1. m \in Nat \ {0} /\ u \in Int
  OBVIOUS
<1>2. Reflect(x, lo, hi) = lo + (IF z > hi - lo THEN m - z ELSE z)
  BY DEF Reflect
<1>. HIDE DEF m, u
<1>3. y \in 0..(m - 1) /\ u \div m \in Int /\ u = m * (u \div m) + y
  BY <1>1
<1>4. Rem(u, m) + m \in Nat
  BY <1>1, RemRange
<1>5. z = (Rem(u, m) + m) % m
  BY <1>4 DEF Rem
<1>6. \E q \in Int : Rem(u, m) + m = m * q + y
  <2>1. CASE u >= 0
    <3>1. Rem(u, m) + m = m * 1 + y
      BY <1>1, <1>3, <2>1 DEF Rem
    <3>. QED  BY <3>1
  <2>2. CASE u < 0
    <3>. DEFINE e == (-u) \div m
    <3>1. -u = m * e + ((-u) % m) /\ e \in Int
      BY <1>1
    <3>2. Rem(u, m) = -((-u) % m)
      BY <1>1, <2>2 DEF Rem
    <3>3. Rem(u, m) = m * e + u
      BY <1>1, <3>1, <3>2
    <3>. DEFINE d == u \div m
    <3>. HIDE DEF e
    <3>4. d \in Int /\ u = m * d + y
      BY <1>3
    <3>. HIDE DEF d, y
    <3>5. \A a, b, c \in Int : a * (b + c + 1) = a * b + a * c + a
      OBVIOUS
    <3>6. m * (e + d + 1) = m * e + m * d + m
      BY <1>1, <3>1, <3>4, <3>5
    <3>7. m * e \in Int /\ m * d \in Int
      BY <1>1, <3>1, <3>4
    <3>8. Rem(u, m) + m = m * (e + d + 1) + y
      BY <1>1, <1>3, <3>3, <3>4, <3>6, <3>7
    <3>. QED  BY <3>1, <3>4, <3>8
  <2>. QED  BY <1>1, <2>1, <2>2
<1>7. z = y
  <2>. DEFINE n == Rem(u, m) + m
  <2>1. n \in Int
    BY <1>4
  <2>2. PICK q \in Int : n = m * q + y
    BY <1>6
  <2>. HIDE DEF n, y
  <2>3. n % m = y
    BY <1>1, <1>3, <2>1, <2>2, ModIs
  <2>. QED  BY <1>5, <2>3 DEF n
<1>. QED  BY <1>2, <1>7 DEF m, u

\* What reflect() returns is the same on either side of a wall.
LEMMA ReflectBounces ==
    ASSUME NEW x \in Int, NEW lo \in Int, NEW hi \in Int, lo < hi
    PROVE  /\ x \in lo..hi => Reflect(x, lo, hi) = x
           /\ Reflect(x, lo, hi) = Reflect(2 * lo - x, lo, hi)
           /\ Reflect(x, lo, hi) = Reflect(2 * hi - x, lo, hi)
<1>. DEFINE w == hi - lo
           m == 2 * w
           F(y) == lo + (IF y > w THEN m - y ELSE y)
           u == x - lo
           q == u \div m
           y == u % m
           v == IF y = 0 THEN 0 ELSE m - y
<1>1. w \in Nat \ {0} /\ m \in Nat \ {0} /\ u \in Int
  OBVIOUS
<1>2. /\ Reflect(x, lo, hi) = F(u % m)
      /\ Reflect(2 * lo - x, lo, hi) = F((-u) % m)
      /\ Reflect(2 * hi - x, lo, hi) = F((m - u) % m)
  <2>1. 2 * lo - x \in Int /\ (2 * lo - x) - lo = -u
    OBVIOUS
  <2>2. 2 * hi - x \in Int /\ (2 * hi - x) - lo = m - u
    OBVIOUS
  <2>3. \A p \in Int : Reflect(p, lo, hi) = F((p - lo) % m)
    BY ReflectFolds
  <2>. QED  BY <2>1, <2>2, <2>3
<1>3. x \in lo..hi => u % m = u /\ u <= w
  <2>. SUFFICES ASSUME x \in lo..hi PROVE u % m = u /\ u <= w
    OBVIOUS
  <2>1. u \in Nat /\ u <= w /\ u < m
    OBVIOUS
  <2>. HIDE DEF u, m
  <2>. QED  BY <1>1, <2>1, SmallMod
<1>4. y \in 0..(m - 1) /\ q \in Int /\ u = m * q + y
  <2>. HIDE DEF m, u
  <2>. QED  BY <1>1
<1>. HIDE DEF q, y
<1>5. v \in 0..(m - 1) /\ F(v) = F(y)
  <2>. HIDE DEF u
  <2>. QED  BY <1>1, <1>4
<1>6. \E p \in Int : -u = m * p + v /\ m - u = m * (p + 1) + v
  <2>. HIDE DEF u, m
  <2>1. CASE y = 0
    <3>1. -u = m * (-q) + v /\ m - u = m * (-q + 1) + v
      BY <1>1, <1>4, <2>1
    <3>. QED  BY <1>4, <3>1
  <2>2. CASE y # 0
    <3>1. -u = m * (-q - 1) + v /\ m - u = m * ((-q - 1) + 1) + v
      BY <1>1, <1>4, <2>2
    <3>. QED  BY <1>4, <3>1
  <2>. QED  BY <2>1, <2>2
<1>7. (-u) % m = v /\ (m - u) % m = v
  <2>. DEFINE a == -u
             b == m - u
  <2>1. a \in Int /\ b \in Int
    BY <1>1
  <2>2. PICK p \in Int : a = m * p + v /\ b = m * (p + 1) + v
    BY <1>6
  <2>. HIDE DEF a, b, m, v
  <2>3. a % m = v
    BY <1>1, <1>5, <2>1, <2>2, ModIs
  <2>4. b % m = v
    <3>1. p + 1 \in Int
      OBVIOUS
    <3>. QED  BY <1>1, <1>5, <2>1, <2>2, <3>1, ModIs
  <2>. QED  BY <2>3, <2>4 DEF a, b
<1>8. x \in lo..hi => F(u) = x
  BY <1>3
<1>. QED  BY <1>2, <1>3, <1>5, <1>7, <1>8 DEF y

\* f bounces off the walls until it is inside.
Bounces(f, lo, hi) ==
    f = [x \in Int |-> IF x < lo THEN f[2 * lo - x]
                       ELSE IF x > hi THEN f[2 * hi - x]
                       ELSE x]

\* reflect() bounces, ...
LEMMA ReflectIsOne ==
    ASSUME NEW lo \in Int, NEW hi \in Int, lo < hi
    PROVE  Bounces([x \in Int |-> Reflect(x, lo, hi)], lo, hi)
<1>. DEFINE f == [x \in Int |-> Reflect(x, lo, hi)]
<1>1. ASSUME NEW x \in Int
      PROVE  f[x] = IF x < lo THEN f[2 * lo - x] ELSE IF x > hi THEN f[2 * hi - x] ELSE x
  <2>1. 2 * lo - x \in Int /\ 2 * hi - x \in Int
    OBVIOUS
  <2>2. /\ f[x] = Reflect(x, lo, hi)
        /\ f[2 * lo - x] = Reflect(2 * lo - x, lo, hi)
        /\ f[2 * hi - x] = Reflect(2 * hi - x, lo, hi)
    BY <2>1
  <2>. HIDE DEF f
  <2>. QED  BY <2>2, ReflectBounces
<1>. QED  BY <1>1 DEF Bounces

\* ... and nothing else does.
LEMMA BouncingIsReflect ==
    ASSUME NEW lo \in Int, NEW hi \in Int, lo < hi, NEW f, Bounces(f, lo, hi), NEW x \in Int
    PROVE  f[x] = Reflect(x, lo, hi)
<1>1. \A y \in Int : /\ y < lo => f[y] = f[2 * lo - y]
                     /\ y > hi => f[y] = f[2 * hi - y]
                     /\ y \in lo..hi => f[y] = y
  BY DEF Bounces
<1>. DEFINE R(y) == Reflect(y, lo, hi)
           G == {n \in Nat : f[lo + n] = R(lo + n)}
<1>2. ASSUME NEW n \in Nat, \A k \in 0..(n - 1) : k \in G PROVE n \in G
  <2>. DEFINE y == lo + n
             z == 2 * hi - y
  <2>1. y \in Int /\ y >= lo /\ z \in Int /\ 2 * lo - z \in Int
    OBVIOUS
  <2>2. CASE y <= hi
    <3>1. y \in lo..hi
      BY <2>1, <2>2
    <3>. HIDE DEF y
    <3>2. f[y] = y /\ R(y) = y
      BY <1>1, <2>1, <3>1, ReflectBounces
    <3>. QED  BY <3>2 DEF y
  <2>3. CASE y > hi
    <3>1. f[y] = f[z] /\ R(y) = R(z)
      <4>. HIDE DEF y
      <4>. QED  BY <1>1, <2>1, <2>3, ReflectBounces
    <3>2. CASE z >= lo
      <4>. DEFINE k == z - lo
      <4>1. k \in 0..(n - 1) /\ lo + k = z
        BY <2>3, <3>2
      <4>2. f[z] = R(z)
        BY <1>2, <4>1
      <4>. QED  BY <3>1, <4>2
    <3>3. CASE z < lo
      <4>. DEFINE k == lo - z
      <4>1. k \in 0..(n - 1) /\ lo + k = 2 * lo - z
        BY <2>3, <3>3
      <4>2. f[2 * lo - z] = R(2 * lo - z)
        BY <1>2, <4>1
      <4>3. f[z] = f[2 * lo - z] /\ R(z) = R(2 * lo - z)
        <5>. HIDE DEF z
        <5>. QED  BY <1>1, <2>1, <3>3, ReflectBounces
      <4>. QED  BY <3>1, <4>2, <4>3
    <3>. QED  BY <2>1, <3>2, <3>3
  <2>. QED  BY <2>1, <2>2, <2>3
<1>3. Nat \subseteq G
  <2>. HIDE DEF G
  <2>. QED  BY <1>2, StrongInduction
<1>4. \A y \in Int : y >= lo => f[y] = R(y)
  <2>. SUFFICES ASSUME NEW y \in Int, y >= lo PROVE f[y] = R(y)
    OBVIOUS
  <2>1. y - lo \in Nat /\ lo + (y - lo) = y
    OBVIOUS
  <2>2. y - lo \in G
    BY <1>3, <2>1
  <2>. QED  BY <2>1, <2>2
<1>5. CASE x < lo
  <2>1. 2 * lo - x \in Int /\ 2 * lo - x >= lo
    BY <1>5
  <2>2. f[x] = f[2 * lo - x] /\ R(x) = R(2 * lo - x)
    BY <1>1, <1>5, ReflectBounces
  <2>3. f[2 * lo - x] = R(2 * lo - x)
    BY <1>4, <2>1
  <2>. QED  BY <2>2, <2>3
<1>. QED  BY <1>4, <1>5

\* However far out a position is, folding it once gives what bouncing it off the
\* walls ends in.
LEMMA ReflectIsBounced ==
    ASSUME NEW lo \in Int, NEW hi \in Int, lo < hi, NEW x \in Int
    PROVE  Reflect(x, lo, hi) = Bounced(lo, hi)[x]
<1>1. Bounced(lo, hi) = CHOOSE f : Bounces(f, lo, hi)
  BY DEF Bounced, Bounces
<1>2. Bounces(Bounced(lo, hi), lo, hi)
  BY <1>1, ReflectIsOne
<1>. QED  BY <1>2, BouncingIsReflect
-----------------------------------------------------------------------------
(* 3. One speed provider. *)

\* The inductive invariant: types, an ordered band, and the speed inside it.
SpeedInv == SpeedTypeOK /\ min <= max /\ InBand

LEMMA BandInWord ==
    ASSUME SpeedInv
    PROVE  /\ min \in Nat /\ max \in Nat
           /\ Lowest \in 0..MaxWord /\ Highest \in 0..MaxWord
           /\ Lowest <= Highest /\ current \in Lowest..Highest
<1>1. min \in Nat /\ max \in Nat /\ min <= max
  BY RateAssumption DEF SpeedInv, SpeedTypeOK
<1>2. Lowest \in 0..MaxWord /\ Highest \in 0..MaxWord /\ Lowest <= Highest
  BY <1>1, BytesInWord DEF Lowest, Highest
<1>. QED  BY <1>1, <1>2, SpeedBandAssumption DEF SpeedInv, SpeedTypeOK, InBand

LEMMA InitSpeedInv == SpeedInit => SpeedInv
<1>. SUFFICES ASSUME SpeedInit PROVE SpeedInv
  OBVIOUS
<1>1. min \in Nat /\ max \in Nat /\ min <= max
  BY RateAssumption DEF SpeedInit, Valid
<1>2. Lowest \in 0..MaxWord /\ Highest \in 0..MaxWord /\ Lowest <= Highest
  BY <1>1, BytesInWord DEF Lowest, Highest
<1>3. current \in Lowest..Highest
  BY <1>2, SampledInBand, SpeedBandAssumption DEF SpeedInit
<1>. QED  BY <1>1, <1>2, <1>3, SpeedBandAssumption DEF SpeedInit, SpeedInv, SpeedTypeOK, InBand

LEMMA NextSpeedInv == SpeedInv /\ [SpeedNext]_speedVars => SpeedInv'
<1>. SUFFICES ASSUME SpeedInv, [SpeedNext]_speedVars PROVE SpeedInv'
  OBVIOUS
<1>1. /\ min \in Nat /\ max \in Nat
      /\ Lowest \in 0..MaxWord /\ Highest \in 0..MaxWord
      /\ Lowest <= Highest /\ current \in Lowest..Highest
  BY BandInWord
<1>2. ASSUME min' = min, max' = max, current' \in Lowest..Highest
      PROVE  SpeedInv'
  <2>1. Lowest' = Lowest /\ Highest' = Highest
    BY <1>2 DEF Lowest, Highest
  <2>. QED  BY <1>1, <1>2, <2>1, SpeedBandAssumption DEF SpeedInv, SpeedTypeOK, InBand
<1>3. CASE Refresh
  BY <1>1, <1>2, <1>3, SampledInBand, SpeedBandAssumption DEF Refresh
<1>4. CASE Step
  <2>1. Lowest \in Nat /\ Highest \in Nat
    BY <1>1, SpeedBandAssumption
  <2>2. current' \in Lowest..Highest
    BY <1>1, <1>4, <2>1, SteppedInBand DEF Step
  <2>. QED  BY <1>2, <1>4, <2>2 DEF Step
<1>5. ASSUME NEW lo \in Rate, NEW hi \in Rate, UpdateSpeedLimits(lo, hi)
      PROVE  SpeedInv'
  <2>1. lo \in Nat /\ hi \in Nat /\ lo <= hi
    BY <1>5, RateAssumption DEF UpdateSpeedLimits, Valid
  <2>2. Bytes(lo) \in 0..MaxWord /\ Bytes(hi) \in 0..MaxWord /\ Bytes(lo) <= Bytes(hi)
    BY <2>1, BytesInWord
  <2>3. Lowest' = Bytes(lo) /\ Highest' = Bytes(hi)
    BY <1>5 DEF UpdateSpeedLimits, Lowest, Highest
  <2>4. current' \in Bytes(lo)..Bytes(hi)
    BY <1>1, <1>5, <2>2, SpeedBandAssumption DEF UpdateSpeedLimits, Clamped
  <2>. QED  BY <1>5, <2>1, <2>2, <2>3, <2>4, SpeedBandAssumption
            DEF UpdateSpeedLimits, SpeedInv, SpeedTypeOK, InBand
<1>6. CASE UNCHANGED speedVars
  BY <1>1, <1>2, <1>6 DEF speedVars
<1>. QED  BY <1>3, <1>4, <1>5, <1>6 DEF SpeedNext

\* Types, for every configuration and word size: no operation leaves u64.
THEOREM SpeedTypeCorrect == SpeedSpec => []SpeedTypeOK
<1>1. SpeedInv => SpeedTypeOK
  BY DEF SpeedInv
<1>. QED  BY InitSpeedInv, NextSpeedInv, <1>1, PTL DEF SpeedSpec

\* The speed announced to trackers stays within the configured limits.
THEOREM SpeedInBand == SpeedSpec => []InBand
<1>1. SpeedInv => InBand
  BY DEF SpeedInv
<1>. QED  BY InitSpeedInv, NextSpeedInv, <1>1, PTL DEF SpeedSpec

\* No tick moves the speed by more than its step ceiling, walls included.
THEOREM SpeedIsGentle == SpeedSpec => Gentle
<1> DEFINE Close == LET bound == MaxStep(Lowest, Highest)
                    IN  /\ current' - current <= bound
                        /\ current - current' <= bound
<1>1. SpeedInv /\ [SpeedNext]_speedVars => [Step => Close]_speedVars
  <2>. SUFFICES ASSUME SpeedInv, Step PROVE Close
    OBVIOUS
  <2>1. /\ Lowest \in Nat /\ Highest \in Nat
        /\ Lowest <= Highest /\ current \in Lowest..Highest
    BY BandInWord, SpeedBandAssumption
  <2>. QED  BY <2>1, SteppedInBand DEF Step
<1>. QED  BY InitSpeedInv, NextSpeedInv, <1>1, PTL DEF SpeedSpec, Gentle

\* reflect(), which folds in one step, is "equivalent to repeatedly bouncing off the
\* walls" (random_speed.rs:66-68), whatever the band and the word size.
THEOREM ReflectionIsBouncing == SpeedSpec => []ReflectIsBouncing
<1>1. SpeedInv => ReflectIsBouncing
  <2>. SUFFICES ASSUME SpeedInv, Lowest < Highest,
                       NEW d \in -(4 * (Highest - Lowest))..4 * (Highest - Lowest)
                PROVE  Reflect(current + d, Lowest, Highest)
                          = Bounced(Lowest, Highest)[current + d]
    BY DEF ReflectIsBouncing
  <2>1. Lowest \in Int /\ Highest \in Int /\ current \in Int
    BY BandInWord, SpeedBandAssumption
  <2>2. current + d \in Int
    BY <2>1
  <2>. QED  BY <2>1, <2>2, ReflectIsBounced
<1>. QED  BY InitSpeedInv, NextSpeedInv, <1>1, PTL DEF SpeedSpec
-----------------------------------------------------------------------------
(* 4. The dispatcher: completed torrents draw nothing.  No arithmetic is   *)
(* needed: whatever the shares are, every operation that can complete a    *)
(* download ends with a split that leaves completed torrents out.          *)

Field == {"uploaded", "downloaded", "left", "up", "down"}

\* Every registered torrent has its counters.
WellFormed(e) ==
    /\ DOMAIN e \subseteq Torrent
    /\ \A h \in DOMAIN e : DOMAIN e[h] = Field

\* Completed torrents of e draw nothing.
Quiet(e) == \A h \in DOMAIN e : e[h].downloaded = TotalSize[h] => e[h].down = 0

QuietInv == WellFormed(seeds) /\ Quiet(seeds)

\* EXCEPT replaces values and keeps the fields.
LEMMA SharesReplaced ==
    ASSUME NEW r, DOMAIN r = Field, NEW up, NEW down
    PROVE  LET q == [r EXCEPT !.up = up, !.down = down]
           IN  DOMAIN q = Field /\ q.downloaded = r.downloaded /\ q.down = down
<1> DEFINE p == [r EXCEPT !.up = up]
<1>1. DOMAIN p = Field /\ p.downloaded = r.downloaded
  BY DEF Field
<1>. HIDE DEF p
<1>2. /\ DOMAIN [p EXCEPT !.down = down] = Field
      /\ [p EXCEPT !.down = down].downloaded = p.downloaded
      /\ [p EXCEPT !.down = down].down = down
  BY <1>1 DEF Field
<1>. QED  BY <1>1, <1>2 DEF p

\* A split keeps the counters and quiets the completed torrents.
LEMMA SplitIsQuiet ==
    ASSUME NEW e, NEW w, NEW sum, NEW s, WellFormed(e)
    PROVE  /\ WellFormed(Split(e, w, sum, s))
           /\ Quiet(Split(e, w, sum, s))
           /\ DOMAIN Split(e, w, sum, s) = DOMAIN e
           /\ \A h \in DOMAIN e :
                 /\ Split(e, w, sum, s)[h].downloaded = e[h].downloaded
                 /\ h \notin Downloading(e) => Split(e, w, sum, s)[h].down = 0
<1> DEFINE f == Split(e, w, sum, s)
<1>1. DOMAIN f = DOMAIN e
  BY DEF Split
<1>2. ASSUME NEW h \in DOMAIN e
      PROVE  /\ DOMAIN f[h] = Field
             /\ f[h].downloaded = e[h].downloaded
             /\ h \notin Downloading(e) => f[h].down = 0
  <2>1. DOMAIN e[h] = Field
    BY <1>2 DEF WellFormed
  <2>2. PICK up, down :
          /\ f[h] = [e[h] EXCEPT !.up = up, !.down = down]
          /\ h \notin Downloading(e) => down = 0
    BY <1>2 DEF Split
  <2>. QED  BY <2>1, <2>2, SharesReplaced
<1>3. ASSUME NEW h \in DOMAIN e, f[h].downloaded = TotalSize[h]
      PROVE  f[h].down = 0
  <2>1. h \in Torrent
    BY <1>3 DEF WellFormed
  <2>2. TotalSize[h] \in Int
    BY <2>1, DispatcherAssumption, SpeedBandAssumption
  <2>3. h \notin Downloading(e)
    BY <1>2, <1>3, <2>2 DEF Downloading
  <2>. QED  BY <1>2, <2>3
<1>. QED  BY <1>1, <1>2, <1>3 DEF WellFormed, Quiet

\* A tick's credit keeps the shares, and the set of torrents.
LEMMA AddedKeepsShares ==
    ASSUME NEW e, WellFormed(e)
    PROVE  /\ WellFormed(Added(e))
           /\ DOMAIN Added(e) = DOMAIN e
           /\ \A h \in DOMAIN e :
                 /\ Added(e)[h].down = e[h].down
                 /\ e[h].down = 0 => Added(e)[h].downloaded = e[h].downloaded
<1> DEFINE f == Added(e)
<1>1. DOMAIN f = DOMAIN e
  BY DEF Added
<1>2. ASSUME NEW h \in DOMAIN e
      PROVE  /\ DOMAIN f[h] = Field
             /\ f[h].down = e[h].down
             /\ e[h].down = 0 => f[h].downloaded = e[h].downloaded
  <2>1. DOMAIN e[h] = Field
    BY <1>2 DEF WellFormed
  <2>2. PICK up, got, left :
          /\ f[h] = [e[h] EXCEPT !.uploaded = up, !.downloaded = got, !.left = left]
          /\ e[h].down = 0 => got = e[h].downloaded
    BY <1>2, <2>1 DEF Added, Field
  <2>. QED  BY <2>1, <2>2 DEF Field
<1>. QED  BY <1>1, <1>2 DEF WellFormed

LEMMA InitQuietInv == Init => QuietInv
BY DEF Init, QuietInv, WellFormed, Quiet

\* The tick: if no download came to its end, the torrents that have downloaded
\* everything are those the first split left out.
LEMMA TickIsQuiet == QuietInv /\ Tick => QuietInv'
<1>. SUFFICES ASSUME QuietInv, Tick PROVE QuietInv'
  OBVIOUS
<1> DEFINE before == Split(seeds, weights, total, speed')
           after  == Added(before)
           done   == JustCompleted(before, after)
<1>1. /\ WellFormed(before) /\ DOMAIN before = DOMAIN seeds
      /\ \A h \in DOMAIN before : h \notin Downloading(before) => before[h].down = 0
  <2>1. WellFormed(seeds)
    BY DEF QuietInv
  <2>2. \A h \in DOMAIN seeds :
          h \notin Downloading(seeds) => before[h].down = 0
    BY <2>1, SplitIsQuiet
  <2>3. WellFormed(before) /\ DOMAIN before = DOMAIN seeds
    BY <2>1, SplitIsQuiet
  <2>4. Downloading(before) = Downloading(seeds)
    BY <2>1, <2>3, SplitIsQuiet DEF Downloading
  <2>. HIDE DEF before
  <2>. QED  BY <2>2, <2>3, <2>4
<1>. HIDE DEF before
<1>2. /\ WellFormed(after) /\ DOMAIN after = DOMAIN before
      /\ \A h \in DOMAIN before : after[h].down = before[h].down
  BY <1>1, AddedKeepsShares
<1>3. seeds' = IF done = {} THEN after ELSE Split(after, weights, total, speed')
  BY DEF Tick, before
<1>4. CASE done = {}
  <2>1. ASSUME NEW h \in DOMAIN after, after[h].downloaded = TotalSize[h]
        PROVE  after[h].down = 0
    <3>1. h \notin Downloading(before)
      BY <1>4, <2>1 DEF JustCompleted
    <3>. HIDE DEF after
    <3>. QED  BY <1>1, <1>2, <2>1, <3>1
  <2>. HIDE DEF after, done
  <2>. QED  BY <1>2, <1>3, <1>4, <2>1 DEF QuietInv, Quiet
<1>5. CASE done # {}
  <2>. HIDE DEF after, done
  <2>1. seeds' = Split(after, weights, total, speed')
    BY <1>3, <1>5
  <2>2. /\ WellFormed(Split(after, weights, total, speed'))
        /\ Quiet(Split(after, weights, total, speed'))
    BY <1>2, SplitIsQuiet
  <2>. QED  BY <2>1, <2>2 DEF QuietInv
<1>. QED  BY <1>4, <1>5

\* Every other operation keeps the counters or ends with a split.
LEMMA NextQuietInv == QuietInv /\ [Next]_vars => QuietInv'
<1>. SUFFICES ASSUME QuietInv, [Next]_vars PROVE QuietInv'
  OBVIOUS
<1>1. WellFormed(seeds) /\ Quiet(seeds)
  BY DEF QuietInv
<1>2. ASSUME NEW e, WellFormed(e), NEW w, NEW sum, NEW s, seeds' = Split(e, w, sum, s)
      PROVE  QuietInv'
  <2>1. WellFormed(Split(e, w, sum, s)) /\ Quiet(Split(e, w, sum, s))
    BY <1>2, SplitIsQuiet
  <2>. QED  BY <1>2, <2>1 DEF QuietInv
<1>3. ASSUME seeds' = seeds
      PROVE  QuietInv'
  BY <1>1, <1>3 DEF QuietInv
<1>4. ASSUME NEW h \in Torrent, RegisterTorrent(h)
      PROVE  QuietInv'
  <2>1. PICK got, left :
          seeds' = With(seeds, h, [uploaded |-> 0, downloaded |-> got,
                                   left |-> left, up |-> 0, down |-> 0])
    BY <1>4 DEF RegisterTorrent
  <2>2. DOMAIN seeds' = DOMAIN seeds \cup {h}
    BY <2>1 DEF With
  <2>3. DOMAIN seeds'[h] = Field /\ seeds'[h].down = 0
    BY <2>1 DEF With, Field
  <2>4. \A k \in DOMAIN seeds : k # h => seeds'[k] = seeds[k]
    BY <2>1 DEF With
  <2>. QED  BY <1>1, <2>2, <2>3, <2>4 DEF QuietInv, WellFormed, Quiet
<1>5. ASSUME NEW h \in Torrent, NEW p \in Peers, UpdateTorrentPeers(h, p)
      PROVE  QuietInv'
  BY <1>1, <1>2, <1>5 DEF UpdateTorrentPeers
<1>6. ASSUME NEW h \in Torrent, UnregisterTorrent(h)
      PROVE  QuietInv'
  <2> DEFINE rest == Restrict(seeds, DOMAIN seeds \ {h})
  <2>1. WellFormed(rest)
    BY <1>1 DEF WellFormed, Restrict
  <2>2. seeds' = Split(rest, weights', total', speed)
    BY <1>6 DEF UnregisterTorrent
  <2>. HIDE DEF rest
  <2>. QED  BY <1>2, <2>1, <2>2
<1>7. ASSUME NEW h \in Torrent, ForceInitialCompleted(h)
      PROVE  QuietInv'
  <2>1. PICK got, left :
          seeds' = Split([seeds EXCEPT ![h].downloaded = got, ![h].left = left],
                         weights, total, speed)
    BY <1>7 DEF ForceInitialCompleted
  <2> DEFINE e == [seeds EXCEPT ![h].downloaded = got, ![h].left = left]
  <2>2. WellFormed(e)
    BY <1>1 DEF WellFormed
  <2>. HIDE DEF e
  <2>. QED  BY <1>2, <2>1, <2>2 DEF e
<1>8. CASE Tick
  BY <1>8, TickIsQuiet
<1>9. CASE RefreshCurrentBandwidth
  BY <1>1, <1>2, <1>9 DEF RefreshCurrentBandwidth
<1>10. ASSUME NEW h \in Torrent, \/ ReadFlag(h)
                                 \/ \E completed \in BOOLEAN : StoreFlag(h, completed)
                                 \/ PersistFails(h) \/ ForceAbsent(h)
       PROVE  QuietInv'
  BY <1>3, <1>10 DEF ReadFlag, StoreFlag, PersistFails, ForceAbsent
<1>11. CASE AnnouncerUpdated \/ Merge \/ (\E l \in Limits : UpdateLimits(l))
  BY <1>3, <1>11 DEF AnnouncerUpdated, Merge, UpdateLimits
<1>12. CASE UNCHANGED vars
  BY <1>3, <1>12 DEF vars
<1>. QED  BY <1>4, <1>5, <1>6, <1>7, <1>8, <1>9, <1>10, <1>11, <1>12 DEF Next

\* No download budget is drawn by a torrent that has downloaded everything,
\* whichever way it got there and whatever is registered around it.
THEOREM NoDownloadOnceCompleted == Spec => []CompletedTakesNoDownload
<1>1. QuietInv => CompletedTakesNoDownload
  BY DEF QuietInv, Quiet, CompletedTakesNoDownload
<1>. QED  BY InitQuietInv, NextQuietInv, <1>1, PTL DEF Spec
-----------------------------------------------------------------------------
(* Weights and shares. *)

\* The counters of every torrent add up, as u64 values.
Counted(e) ==
    /\ DOMAIN e \subseteq Torrent
    /\ \A h \in DOMAIN e :
          e[h] \in Seed /\ e[h].downloaded + e[h].left = TotalSize[h]

\* Weights are natural numbers, of finitely many torrents.
Weighed(w) ==
    /\ DOMAIN w \subseteq Torrent /\ IsFiniteSet(DOMAIN w)
    /\ \A h \in DOMAIN w : w[h] \in Nat

LEMMA PeersWeightIsNat ==
    ASSUME NEW p \in Peers
    PROVE  PeersWeight(p) \in Nat
<1> DEFINE s   == p.seeders
           l   == p.leechers
           num == 100 * l * l * l
           den == (s + l) * (s + l)
<1>1. s \in Nat /\ l \in Nat
  BY DispatcherAssumption
<1>2. PeersWeight(p) = IF s = 0 \/ l = 0 THEN 0 ELSE num \div den
  BY DEF PeersWeight
<1>. HIDE DEF s, l
<1>3. num \in Nat
  <2>1. l * l \in Nat
    BY <1>1
  <2>2. 100 * l \in Nat
    BY <1>1
  <2>3. 100 * l * l \in Nat
    BY <1>1, <2>2
  <2>. QED  BY <1>1, <2>3
<1>4. s # 0 => den \in Nat \ {0}
  BY <1>1
<1>. HIDE DEF num, den
<1>. QED  BY <1>2, <1>3, <1>4

LEMMA ShareIsNat ==
    ASSUME NEW budget \in Nat, NEW w \in Nat, NEW sum \in Nat
    PROVE  Share(budget, w, sum) \in Nat
<1>1. budget * w \in Nat
  OBVIOUS
<1>. QED  BY <1>1 DEF Share

LEMMA WeightIsNat ==
    ASSUME NEW w, Weighed(w), NEW h
    PROVE  Weight(w, h) \in Nat
BY DEF Weighed, Weight

\* The total after a weight is set, and after one is taken out.
LEMMA TotalOfWith ==
    ASSUME NEW w, Weighed(w), NEW h \in Torrent, NEW v \in Nat
    PROVE  /\ Weighed(With(w, h, v))
           /\ SumFunction(With(w, h, v)) = SumFunction(w) - Weight(w, h) + v
           /\ SumFunction(With(w, h, v)) \in Nat
<1> DEFINE f == With(w, h, v)
           D == DOMAIN w
           r == D \ {h}
<1>1. /\ DOMAIN f = D \cup {h} /\ f[h] = v
      /\ \A k \in r : f[k] = w[k]
  BY DEF With
<1>2. IsFiniteSet(D) /\ IsFiniteSet(D \cup {h}) /\ IsFiniteSet(r)
  BY FS_AddElement, FS_RemoveElement DEF Weighed
<1>3. /\ \A k \in D : w[k] \in Int /\ w[k] \in Nat
      /\ \A k \in D \cup {h} : f[k] \in Int /\ f[k] \in Nat
  BY <1>1 DEF Weighed
<1>4. Weighed(f)
  BY <1>1, <1>2, <1>3 DEF Weighed
<1>. HIDE DEF f
<1>5. SumFunctionOnSet(f, D \cup {h}) = v + SumFunctionOnSet(f, r)
  <2>1. (D \cup {h}) \ {h} = r
    OBVIOUS
  <2>2. SumFunctionOnSet(f, D \cup {h})
          = f[h] + SumFunctionOnSet(f, (D \cup {h}) \ {h})
    BY <1>2, <1>3, SumWithout
  <2>. QED  BY <1>1, <2>1, <2>2
<1>6. SumFunctionOnSet(f, r) = SumFunctionOnSet(w, r)
  BY <1>1, <1>2, <1>3, SumsEqual
<1>7. SumFunctionOnSet(w, D) = Weight(w, h) + SumFunctionOnSet(w, r)
  <2>1. CASE h \in D
    BY <1>2, <1>3, <2>1, SumWithout DEF Weight
  <2>2. CASE h \notin D
    <3>1. r = D
      BY <2>2
    <3>2. SumFunctionOnSet(w, D) \in Int
      BY <1>2, <1>3, SumIsInt
    <3>. QED  BY <2>2, <3>1, <3>2 DEF Weight
  <2>. QED  BY <2>1, <2>2
<1>8. SumFunctionOnSet(w, r) \in Nat
  <2>1. r \in SUBSET D
    OBVIOUS
  <2>. QED  BY <1>2, <1>3, <2>1, SumOfPart
<1>9. Weight(w, h) \in Nat
  BY WeightIsNat
<1>10. SumFunction(f) = v + SumFunctionOnSet(w, r)
  BY <1>1, <1>5, <1>6 DEF SumFunction
<1>11. SumFunction(w) = Weight(w, h) + SumFunctionOnSet(w, r)
  BY <1>7 DEF SumFunction
<1>12. /\ SumFunction(f) = SumFunction(w) - Weight(w, h) + v
       /\ SumFunction(f) \in Nat
  BY <1>8, <1>9, <1>10, <1>11
<1>. QED  BY <1>4, <1>12 DEF f

LEMMA TotalOfRestrict ==
    ASSUME NEW w, Weighed(w), NEW h
    PROVE  LET f == Restrict(w, DOMAIN w \ {h})
           IN  /\ Weighed(f)
               /\ SumFunction(f) = SumFunction(w) - Weight(w, h) + 0
               /\ SumFunction(f) \in Nat
<1> DEFINE D == DOMAIN w
           r == D \ {h}
           f == Restrict(w, r)
<1>1. DOMAIN f = r /\ \A k \in r : f[k] = w[k]
  BY DEF Restrict
<1>2. IsFiniteSet(D) /\ IsFiniteSet(r)
  BY FS_RemoveElement DEF Weighed
<1>3. /\ \A k \in D : w[k] \in Int /\ w[k] \in Nat
      /\ \A k \in r : f[k] \in Int /\ f[k] \in Nat
  BY <1>1 DEF Weighed
<1>4. Weighed(f)
  BY <1>1, <1>2, <1>3 DEF Weighed
<1>. HIDE DEF f
<1>5. SumFunctionOnSet(f, r) = SumFunctionOnSet(w, r)
  BY <1>1, <1>2, <1>3, SumsEqual
<1>6. SumFunctionOnSet(w, D) = Weight(w, h) + SumFunctionOnSet(w, r)
  <2>1. CASE h \in D
    BY <1>2, <1>3, <2>1, SumWithout DEF Weight
  <2>2. CASE h \notin D
    <3>1. r = D
      BY <2>2
    <3>2. SumFunctionOnSet(w, D) \in Int
      BY <1>2, <1>3, SumIsInt
    <3>. QED  BY <2>2, <3>1, <3>2 DEF Weight
  <2>. QED  BY <2>1, <2>2
<1>7. SumFunctionOnSet(w, r) \in Nat
  <2>1. r \in SUBSET D
    OBVIOUS
  <2>. QED  BY <1>2, <1>3, <2>1, SumOfPart
<1>8. Weight(w, h) \in Nat
  BY WeightIsNat
<1>9. SumFunction(f) = SumFunctionOnSet(w, r)
  BY <1>1, <1>5 DEF SumFunction
<1>10. SumFunction(w) = Weight(w, h) + SumFunctionOnSet(w, r)
  BY <1>6 DEF SumFunction
<1>11. /\ SumFunction(f) = SumFunction(w) - Weight(w, h) + 0
       /\ SumFunction(f) \in Nat
  BY <1>7, <1>8, <1>9, <1>10
<1>. QED  BY <1>4, <1>11 DEF f

LEMMA Division ==
    ASSUME NEW n \in Nat, NEW m \in Nat \ {0}
    PROVE  /\ n \div m \in Nat
           /\ m * (n \div m) <= n
           /\ n <= m * (n \div m) + (m - 1)
<1> DEFINE q == n \div m
<1>1. q \in Nat /\ n = m * q + (n % m) /\ n % m \in 0..(m - 1)
  OBVIOUS
<1>2. m * q \in Nat
  BY <1>1
<1>. HIDE DEF q
<1>3. m * q <= n /\ n <= m * q + (m - 1)
  BY <1>1, <1>2
<1>. QED  BY <1>1, <1>3 DEF q

\* A common positive factor may be dropped.
LEMMA FactorDropped ==
    ASSUME NEW m \in Nat \ {0}, NEW x \in Int, NEW y \in Int
    PROVE  /\ m * x <= m * y => x <= y
           /\ m * x < m * y => x < y
<1>1. CASE x <= y
  <2>1. CASE x = y
    BY <2>1
  <2>2. CASE x # y
    BY <1>1, <2>2
  <2>. QED  BY <2>1, <2>2
<1>2. CASE y < x
  <2>1. PICK d \in Nat : x = y + d /\ d > 0
    <3>1. x - y \in Nat /\ x = y + (x - y) /\ x - y > 0
      BY <1>2
    <3>. QED  BY <3>1
  <2>2. m * x = m * y + m * d /\ m * d \in Nat /\ m * d > 0 /\ m * y \in Int
    BY <2>1
  <2>. QED  BY <2>2
<1>. QED  BY <1>1, <1>2

\* Shares of a budget, in proportion to weights that make up at most the whole,
\* never exceed it.
LEMMA SharesFit ==
    ASSUME NEW S, IsFiniteSet(S), NEW wt, \A h \in S : wt[h] \in Nat,
           NEW sum \in Nat, SumFunctionOnSet(wt, S) <= sum,
           NEW budget \in Nat,
           NEW f, \A h \in S : f[h] = Share(budget, wt[h], sum)
    PROVE  SumFunctionOnSet(f, S) <= budget
<1> DEFINE sf == SumFunctionOnSet(f, S)
           sw == SumFunctionOnSet(wt, S)
           n  == Cardinality(S)
<1>1. \A h \in S : f[h] \in Nat /\ f[h] \in Int /\ wt[h] \in Int
  <2>1. TAKE h \in S
  <2>2. Share(budget, wt[h], sum) \in Nat
    BY ShareIsNat
  <2>. QED  BY <2>2
<1>2. sf \in Int /\ n \in Nat
  BY <1>1, SumIsInt, FS_CardinalityType
<1>3. sw \in Nat
  BY SumOfPart
<1>4. CASE sum = 0
  <2>1. \A h \in S : f[h] = 0
    BY <1>4 DEF Share
  <2>2. sf = SumFunctionOnSet(f, {})
    BY <1>1, <2>1, SumOverSupport
  <2>3. SumFunctionOnSet(f, {}) = 0
    BY SumUnfolds
  <2>. QED  BY <2>2, <2>3
<1>5. CASE sum # 0
  <2> DEFINE zero == 0
  <2>1. \A h \in S : sum * f[h] <= budget * wt[h] + zero
    <3>1. TAKE h \in S
    <3> DEFINE num == budget * wt[h]
    <3>2. num \in Nat /\ f[h] = num \div sum
      BY <1>5 DEF Share
    <3>. HIDE DEF num
    <3>3. sum * f[h] <= num /\ sum * f[h] \in Int
      BY <1>1, <1>5, <3>2, Division
    <3>. QED  BY <3>2, <3>3 DEF num
  <2>2. sum * sf <= budget * sw + zero * n
    <3>1. zero \in Int /\ sum \in Int /\ budget \in Int
      OBVIOUS
    <3>. HIDE DEF zero
    <3>. QED  BY <1>1, <2>1, <3>1, SumsBounded
  <2>3. budget * sw <= sum * budget /\ budget * sw \in Nat /\ sum * budget \in Nat
    <3>1. PICK d \in Nat : sum = sw + d
      <4>1. sum - sw \in Nat /\ sum = sw + (sum - sw)
        BY <1>3
      <4>. QED  BY <4>1
    <3>. HIDE DEF sw
    <3>2. sum * budget = budget * sw + budget * d
      BY <1>3, <3>1
    <3>3. budget * d \in Nat /\ budget * sw \in Nat
      BY <1>3, <3>1
    <3>. QED  BY <3>2, <3>3
  <2>. HIDE DEF sf, sw, n
  <2>4. sum * sf \in Int
    BY <1>2
  <2>5. sum * sf <= sum * budget
    BY <1>2, <2>2, <2>3, <2>4
  <2>6. sf <= budget
    BY <1>2, <1>5, <2>5, FactorDropped
  <2>. QED  BY <2>6 DEF sf
<1>. QED  BY <1>4, <1>5

\* What is credited in a tick for speeds that add up to at most v.
LEMMA CreditFits ==
    ASSUME NEW S, IsFiniteSet(S), NEW v \in Nat, v * TickMs <= MaxWord,
           NEW f, \A h \in S : f[h] \in Nat, SumFunctionOnSet(f, S) <= v,
           NEW c, \A h \in S : c[h] \in Int /\ c[h] <= PerTick(f[h])
    PROVE  SumFunctionOnSet(c, S) <= PerTick(v)
<1> DEFINE sc == SumFunctionOnSet(c, S)
           sf == SumFunctionOnSet(f, S)
           n  == Cardinality(S)
           q  == PerTick(v)
<1>0. TickMs \in Nat /\ Second \in Nat \ {0} /\ MaxWord \in Nat
  BY DispatcherAssumption, SpeedBandAssumption
<1>1. \A h \in S : c[h] \in Int /\ f[h] \in Int
  OBVIOUS
<1>2. sc \in Int /\ sf \in Int /\ n \in Int
  BY <1>1, SumIsInt, FS_CardinalityType
<1>3. \A h \in S : Second * c[h] <= TickMs * f[h] + 0
  <2>1. TAKE h \in S
  <2> DEFINE m == f[h] * TickMs
             p == Saturated(m) \div Second
  <2>2. m \in Nat /\ m = TickMs * f[h] /\ Saturated(m) \in Nat /\ Saturated(m) <= m
    BY <1>0 DEF Saturated
  <2>3. p \in Nat /\ Second * p <= Saturated(m) /\ Second * p \in Nat
    <3>1. p \in Nat /\ Second * p <= Saturated(m)
      <4>. HIDE DEF m
      <4>. QED  BY <1>0, <2>2, Division
    <3>. HIDE DEF p
    <3>. QED  BY <1>0, <3>1
  <2>4. c[h] <= p /\ c[h] \in Int
    BY DEF PerTick
  <2>. HIDE DEF m, p
  <2>5. Second * c[h] <= Second * p
    <3>1. PICK d \in Nat : p = c[h] + d
      <4>1. p - c[h] \in Nat /\ p = c[h] + (p - c[h])
        BY <2>3, <2>4
      <4>. QED  BY <4>1
    <3>2. Second * p = Second * c[h] + Second * d /\ Second * d \in Nat
      BY <1>0, <2>4, <3>1
    <3>3. Second * c[h] \in Int
      BY <1>0, <2>4
    <3>. QED  BY <3>2, <3>3
  <2>6. Second * c[h] \in Int
    BY <1>0, <2>4
  <2>. QED  BY <2>2, <2>3, <2>5, <2>6
<1>4. Second * sc <= TickMs * sf + 0 * n
  <2> DEFINE zero == 0
  <2>1. \A h \in S : Second * c[h] <= TickMs * f[h] + zero
    BY <1>3
  <2>2. zero \in Int /\ Second \in Int /\ TickMs \in Int
    BY <1>0
  <2>3. Second * sc <= TickMs * sf + zero * n
    <3>. HIDE DEF zero
    <3>. QED  BY <1>1, <2>1, <2>2, SumsBounded
  <2>. QED  BY <2>3
<1>5. q \in Nat /\ v * TickMs <= Second * q + (Second - 1)
  <2>1. v * TickMs \in Nat /\ q = (v * TickMs) \div Second
    BY <1>0 DEF PerTick, Saturated
  <2>. QED  BY <1>0, <2>1, Division
<1>. HIDE DEF sc, sf, n, q
<1>6. TickMs * sf <= v * TickMs /\ TickMs * sf \in Int /\ v * TickMs \in Nat
  <2>1. PICK d \in Nat : v = sf + d
    <3>1. v - sf \in Nat /\ v = sf + (v - sf)
      BY <1>2 DEF sf
    <3>. QED  BY <3>1
  <2>2. v * TickMs = TickMs * sf + TickMs * d /\ TickMs * d \in Nat
    BY <1>0, <1>2, <2>1
  <2>3. TickMs * sf \in Int
    BY <1>0, <1>2
  <2>. QED  BY <1>0, <2>2, <2>3
<1>7. Second * sc < Second * (q + 1)
  <2>1. Second * (q + 1) = Second * q + Second /\ Second * q \in Nat
    BY <1>0, <1>5
  <2>2. Second * sc \in Int
    BY <1>0, <1>2
  <2>3. Second * sc <= TickMs * sf
    BY <1>2, <1>4, <1>6, <2>2
  <2>. QED  BY <1>0, <1>5, <1>6, <2>1, <2>2, <2>3
<1>8. sc < q + 1
  BY <1>0, <1>2, <1>5, <1>7, FactorDropped
<1>9. sc <= q
  BY <1>2, <1>5, <1>8
<1>. QED  BY <1>9 DEF sc, q

\* A budget divided in proportion to weights that make up the whole is handed
\* out, but for less than one unit per share.
LEMMA SharesUse ==
    ASSUME NEW S, IsFiniteSet(S), S # {}, NEW wt, \A h \in S : wt[h] \in Nat,
           NEW sum \in Nat \ {0}, SumFunctionOnSet(wt, S) = sum,
           NEW budget \in Nat,
           NEW f, \A h \in S : f[h] = Share(budget, wt[h], sum)
    PROVE  budget < SumFunctionOnSet(f, S) + Cardinality(S)
<1> DEFINE sf == SumFunctionOnSet(f, S)
           n  == Cardinality(S)
           c  == sum - 1
<1>1. \A h \in S : f[h] \in Int /\ wt[h] \in Int
  <2>1. TAKE h \in S
  <2>2. Share(budget, wt[h], sum) \in Nat
    BY ShareIsNat
  <2>. QED  BY <2>2
<1>2. sf \in Int /\ n \in Nat /\ n # 0 /\ c \in Int
  BY <1>1, SumIsInt, FS_CardinalityType, FS_EmptySet
<1>3. \A h \in S : budget * wt[h] <= sum * f[h] + c
  <2>1. TAKE h \in S
  <2>2. budget * wt[h] \in Nat /\ f[h] = (budget * wt[h]) \div sum
    BY DEF Share
  <2>. QED  BY <2>2, Division
<1>4. budget * sum <= sum * sf + c * n
  <2>1. sum \in Int /\ budget \in Int
    OBVIOUS
  <2>2. budget * SumFunctionOnSet(wt, S) <= sum * sf + c * n
    <3>. HIDE DEF c
    <3>. QED  BY <1>1, <1>2, <1>3, <2>1, SumsBounded
  <2>. QED  BY <2>2
<1>. HIDE DEF sf, n
<1>5. c * n < sum * n
  <2>1. c * n = sum * n - n
    BY <1>2
  <2>2. sum * n \in Int
    BY <1>2
  <2>. QED  BY <1>2, <2>1, <2>2
<1>6. sum * budget < sum * (sf + n)
  <2>1. sum * (sf + n) = sum * sf + sum * n /\ sum * budget = budget * sum
    BY <1>2
  <2>2. /\ sum * sf \in Int /\ sum * n \in Int /\ budget * sum \in Int
        /\ c * n \in Int
    BY <1>2
  <2>. HIDE DEF c
  <2>. QED  BY <1>4, <1>5, <2>1, <2>2
<1>7. budget < sf + n
  BY <1>2, <1>6, FactorDropped
<1>. QED  BY <1>7 DEF sf, n

Global == [up : 0..MaxWord, down : 0..MaxWord]

\* The weights of a set of torrents, as a function.
Loads(S, w) == [h \in S |-> Weight(w, h)]

\* The total weight of the torrents that download.
Active(e, w) == SumFunctionOnSet(Loads(DOMAIN e, w), Downloading(e))

LEMMA ActiveIsNat ==
    ASSUME NEW e, IsFiniteSet(DOMAIN e), NEW w, Weighed(w)
    PROVE  Active(e, w) \in Nat
<1> DEFINE f == Loads(DOMAIN e, w)
<1>1. \A h \in DOMAIN e : f[h] \in Nat
  BY WeightIsNat DEF Loads
<1>2. Downloading(e) \in SUBSET (DOMAIN e)
  BY DEF Downloading
<1>. HIDE DEF f
<1>3. SumFunctionOnSet(f, Downloading(e)) \in Nat
  BY <1>1, <1>2, SumOfPart
<1>. QED  BY <1>3 DEF Active, f

\* What a split does to the counters and to the speeds.
LEMMA SplitCounters ==
    ASSUME NEW e, Counted(e), IsFiniteSet(DOMAIN e), NEW w, Weighed(w),
           NEW sum \in Nat, NEW s \in Global
    PROVE  LET f == Split(e, w, sum, s) IN
           /\ Counted(f) /\ DOMAIN f = DOMAIN e
           /\ Downloading(f) = Downloading(e)
           /\ \A h \in DOMAIN e :
                 /\ f[h].uploaded = e[h].uploaded
                 /\ f[h].downloaded = e[h].downloaded
                 /\ f[h].left = e[h].left
                 /\ f[h].up = Share(s.up, Weight(w, h), sum)
                 /\ f[h].down = IF h \in Downloading(e)
                                THEN Share(s.down, Weight(w, h), Active(e, w))
                                ELSE 0
<1> DEFINE f == Split(e, w, sum, s)
           up(h) == Share(s.up, Weight(w, h), sum)
           down(h) == IF h \in Downloading(e)
                      THEN Share(s.down, Weight(w, h), Active(e, w)) ELSE 0
<1>1. DOMAIN f = DOMAIN e
  BY DEF Split
<1>2. ASSUME NEW h \in DOMAIN e
      PROVE  /\ f[h] \in Seed
             /\ f[h].uploaded = e[h].uploaded
             /\ f[h].downloaded = e[h].downloaded
             /\ f[h].left = e[h].left
             /\ f[h].up = up(h) /\ f[h].down = down(h)
  <2>1. f[h] = [e[h] EXCEPT !.up = up(h), !.down = down(h)]
    BY DEF Split, Active, Loads
  <2>2. s.up \in Nat /\ s.down \in Nat
    BY SpeedBandAssumption DEF Global
  <2>3. Weight(w, h) \in Nat /\ Active(e, w) \in Nat
    BY WeightIsNat, ActiveIsNat
  <2>4. up(h) \in Nat /\ down(h) \in Nat
    BY <2>2, <2>3, ShareIsNat
  <2>5. e[h] \in Seed
    BY DEF Counted
  <2>. HIDE DEF up, down, f
  <2>. QED  BY <2>1, <2>4, <2>5 DEF Seed
<1>. HIDE DEF f, up, down
<1>3. Counted(f)
  BY <1>1, <1>2 DEF Counted
<1>4. Downloading(f) = Downloading(e)
  BY <1>1, <1>2 DEF Downloading
<1>. QED  BY <1>1, <1>2, <1>3, <1>4 DEF f, up, down

LEMMA PerTickIsNat ==
    ASSUME NEW v \in Nat
    PROVE  PerTick(v) \in Nat
<1>1. v * TickMs \in Nat
  BY DispatcherAssumption
<1>2. Saturated(v * TickMs) \in Nat
  BY <1>1, SpeedBandAssumption DEF Saturated
<1>. QED  BY <1>2, DispatcherAssumption DEF PerTick

\* What a tick's credit does to the counters.
LEMMA AddedCounters ==
    ASSUME NEW e, Counted(e)
    PROVE  LET f == Added(e) IN
           /\ Counted(f) /\ DOMAIN f = DOMAIN e
           /\ \A h \in DOMAIN e :
                 /\ f[h].up = e[h].up /\ f[h].down = e[h].down
                 /\ f[h].uploaded - e[h].uploaded <= PerTick(e[h].up)
                 /\ f[h].downloaded - e[h].downloaded <= PerTick(e[h].down)
                 /\ f[h].downloaded >= e[h].downloaded
<1> DEFINE f == Added(e)
<1>1. DOMAIN f = DOMAIN e
  BY DEF Added
<1>2. ASSUME NEW h \in DOMAIN e
      PROVE  /\ f[h] \in Seed
             /\ f[h].downloaded + f[h].left = TotalSize[h]
             /\ f[h].up = e[h].up /\ f[h].down = e[h].down
             /\ f[h].uploaded - e[h].uploaded <= PerTick(e[h].up)
             /\ f[h].downloaded - e[h].downloaded <= PerTick(e[h].down)
             /\ f[h].downloaded >= e[h].downloaded
  <2> DEFINE sum == Saturated(e[h].downloaded + PerTick(e[h].down))
             got == IF sum > TotalSize[h] THEN TotalSize[h] ELSE sum
             u   == Saturated(e[h].uploaded + PerTick(e[h].up))
             d   == IF e[h].down = 0 THEN e[h].downloaded ELSE got
             l   == IF e[h].down = 0 THEN e[h].left ELSE TotalSize[h] - got
  <2>1. /\ e[h] \in Seed /\ e[h].downloaded + e[h].left = TotalSize[h]
        /\ TotalSize[h] \in 0..MaxWord /\ MaxWord \in Nat
    BY DispatcherAssumption, SpeedBandAssumption DEF Counted
  <2>2. PerTick(e[h].up) \in Nat /\ PerTick(e[h].down) \in Nat
    BY <2>1, PerTickIsNat DEF Seed
  <2>3. f[h] = [e[h] EXCEPT !.uploaded = u, !.downloaded = d, !.left = l]
    BY <2>1 DEF Added, Seed
  <2>4. /\ u \in 0..MaxWord /\ d \in 0..MaxWord /\ l \in 0..MaxWord
        /\ d + l = TotalSize[h]
        /\ u - e[h].uploaded <= PerTick(e[h].up)
        /\ d - e[h].downloaded <= PerTick(e[h].down)
        /\ d >= e[h].downloaded
    BY <2>1, <2>2 DEF Seed, Saturated
  <2>. HIDE DEF u, d, l, f
  <2>. QED  BY <2>1, <2>3, <2>4 DEF Seed
<1>. HIDE DEF f
<1>3. Counted(f)
  BY <1>1, <1>2 DEF Counted
<1>. QED  BY <1>1, <1>2, <1>3 DEF f
-----------------------------------------------------------------------------
(* The mailbox. *)

Poke == {Rebuild} \cup {Completed(h) : h \in Torrent}

Mail(m) == m \in Seq(Poke) /\ Len(m) <= Capacity

\* try_send keeps what is in the mailbox and adds what fits.
LEMMA SentIsMail ==
    ASSUME NEW m, Mail(m), NEW s \in Seq(Poke)
    PROVE  LET room == Capacity - Len(m)
               n    == IF Len(s) < room THEN Len(s) ELSE room
           IN  /\ Mail(Sent(m, s))
               /\ Len(Sent(m, s)) = Len(m) + n
               /\ ToSet(m) \subseteq ToSet(Sent(m, s))
               /\ \A i \in 1..n : s[i] \in ToSet(Sent(m, s))
<1> DEFINE room == Capacity - Len(m)
           n    == IF Len(s) < room THEN Len(s) ELSE room
           t    == SubSeq(s, 1, n)
<1>1. /\ m \in Seq(Poke) /\ Len(m) \in Nat /\ Len(s) \in Nat /\ Capacity \in Nat
      /\ n \in Nat /\ n <= Len(s) /\ Len(m) + n <= Capacity
  BY DispatcherAssumption DEF Mail
<1>2. Sent(m, s) = m \o t
  BY DEF Sent
<1>. HIDE DEF n
<1>3. t \in Seq(Poke) /\ Len(t) = n /\ \A i \in 1..n : t[i] = s[i]
  BY <1>1
<1>. HIDE DEF t
<1>4. /\ m \o t \in Seq(Poke) /\ Len(m \o t) = Len(m) + n
      /\ \A i \in 1..Len(m) : (m \o t)[i] = m[i]
      /\ \A i \in 1..n : (m \o t)[Len(m) + i] = t[i]
  BY <1>1, <1>3
<1>5. DOMAIN m = 1..Len(m) /\ DOMAIN (m \o t) = 1..(Len(m) + n)
  BY <1>1, <1>4
<1>6. ToSet(m) \subseteq ToSet(m \o t)
  <2>1. \A i \in 1..Len(m) : i \in 1..(Len(m) + n)
    BY <1>1
  <2>. QED  BY <1>4, <1>5, <2>1 DEF ToSet
<1>7. ASSUME NEW i \in 1..n PROVE s[i] \in ToSet(m \o t)
  <2>1. Len(m) + i \in 1..(Len(m) + n)
    BY <1>1
  <2>. QED  BY <1>3, <1>4, <1>5, <2>1 DEF ToSet
<1>. QED  BY <1>1, <1>2, <1>4, <1>6, <1>7 DEF Mail, n
-----------------------------------------------------------------------------
(* The inductive invariant, in parts. *)

WeightInv == Weighed(weights) /\ total \in Nat /\ WeightsAddUp

\* The global speeds are in the configured bands.
BandInv ==
    /\ limits \in Limits /\ speed \in Global
    /\ Bytes(limits.minUp) <= speed.up /\ speed.up <= Bytes(limits.maxUp)
    /\ Bytes(limits.minDown) <= speed.down /\ speed.down <= Bytes(limits.maxDown)

CounterInv == Counted(seeds) /\ IsFiniteSet(DOMAIN seeds)

FlagInv ==
    /\ joining \in [Torrent -> {"no", "fresh", "complete", "registered"}]
    /\ checkbox \subseteq Torrent
    /\ forcing \in [Torrent -> {"no", "check", "uncheck"}]
    /\ marked \subseteq Torrent
    /\ finished \subseteq DOMAIN seeds

IInv == WeightInv /\ BandInv /\ CounterInv /\ Mail(mailbox) /\ FlagInv

LEMMA IInvImplies == IInv => TypeOK /\ WeightsAddUp
<1>. SUFFICES ASSUME IInv PROVE TypeOK /\ WeightsAddUp
  OBVIOUS
<1>1. ToSet(mailbox) \subseteq {Rebuild} \cup {Completed(h) : h \in Torrent}
  BY DEF IInv, Mail, Poke, ToSet
<1>. QED  BY <1>1 DEF IInv, WeightInv, BandInv, CounterInv, FlagInv, TypeOK,
                     Weighed, Counted, Mail, Global

\* A change of a band's ends, a draw and a step of the walk end inside it.
LEMMA BandEnds ==
    ASSUME NEW l \in Limits
    PROVE  /\ l.minUp \in Nat /\ l.maxUp \in Nat
           /\ l.minDown \in Nat /\ l.maxDown \in Nat
           /\ Bytes(l.minUp) \in 0..MaxWord /\ Bytes(l.maxUp) \in 0..MaxWord
           /\ Bytes(l.minUp) <= Bytes(l.maxUp)
           /\ Bytes(l.minDown) \in 0..MaxWord /\ Bytes(l.maxDown) \in 0..MaxWord
           /\ Bytes(l.minDown) <= Bytes(l.maxDown)
<1>1. /\ l.minUp \in Nat /\ l.maxUp \in Nat /\ l.minDown \in Nat /\ l.maxDown \in Nat
      /\ l.minUp <= l.maxUp /\ l.minDown <= l.maxDown
  BY DispatcherAssumption
<1>. QED  BY <1>1, BytesInWord

LEMMA BandKept ==
    ASSUME NEW lo, NEW hi, lo \in 0..MaxWord, hi \in 0..MaxWord, lo <= hi
    PROVE  /\ \A r \in Sampled(lo, hi) : r \in 0..MaxWord /\ lo <= r /\ r <= hi
           /\ \A s \in lo..hi : \A r \in Stepped(s, lo, hi) :
                 r \in 0..MaxWord /\ lo <= r /\ r <= hi
           /\ \A s \in 0..MaxWord :
                 LET r == Clamped(s, lo, hi)
                 IN  r \in 0..MaxWord /\ lo <= r /\ r <= hi
<1>0. MaxWord \in Nat /\ lo \in Nat /\ hi \in Nat
  BY SpeedBandAssumption
<1>1. \A r \in Sampled(lo, hi) : r \in lo..hi
  BY <1>0, SampledInBand
<1>2. \A s \in lo..hi : \A r \in Stepped(s, lo, hi) : r \in lo..hi
  BY <1>0, SteppedInBand
<1>3. \A s \in 0..MaxWord : Clamped(s, lo, hi) \in lo..hi
  BY <1>0 DEF Clamped
<1>. QED  BY <1>0, <1>1, <1>2, <1>3

LEMMA InitIInv == Init => IInv
<1>. SUFFICES ASSUME Init PROVE IInv
  OBVIOUS
<1>1. /\ DOMAIN seeds = {} /\ DOMAIN weights = {} /\ IsFiniteSet({})
  BY FS_EmptySet DEF Init
<1>2. SumFunction(weights) = 0
  BY <1>1, SumUnfolds DEF SumFunction
<1>3. WeightInv
  BY <1>1, <1>2 DEF Init, WeightInv, Weighed, WeightsAddUp
<1>4. CounterInv
  BY <1>1 DEF CounterInv, Counted
<1>5. BandInv
  <2>1. limits \in Limits /\ speed \in Sampling(limits)
    BY DEF Init
  <2>2. /\ speed \in [up   : Sampled(Bytes(limits.minUp), Bytes(limits.maxUp)),
                     down : Sampled(Bytes(limits.minDown), Bytes(limits.maxDown))]
    BY <2>1 DEF Sampling
  <2>. QED  BY <2>1, <2>2, BandEnds, BandKept DEF BandInv, Global
<1>6. Mail(mailbox)
  BY DispatcherAssumption DEF Init, Mail
<1>7. FlagInv
  BY <1>1 DEF Init, FlagInv
<1>. QED  BY <1>3, <1>4, <1>5, <1>6, <1>7 DEF IInv

LEMMA NextBand == BandInv /\ [Next]_vars => BandInv'
<1>. SUFFICES ASSUME BandInv, [Next]_vars PROVE BandInv'
  OBVIOUS
<1>1. limits \in Limits /\ speed \in Global
  BY DEF BandInv
<1>2. CASE speed' = speed /\ limits' = limits
  BY <1>2 DEF BandInv
<1>3. CASE Tick
  <2>1. limits' = limits /\ speed' \in Stepping(speed, limits)
    BY <1>3 DEF Tick
  <2>2. speed' \in
          [up   : Stepped(speed.up, Bytes(limits.minUp), Bytes(limits.maxUp)),
           down : Stepped(speed.down, Bytes(limits.minDown), Bytes(limits.maxDown))]
    BY <2>1 DEF Stepping
  <2>3. /\ speed.up \in Bytes(limits.minUp)..Bytes(limits.maxUp)
        /\ speed.down \in Bytes(limits.minDown)..Bytes(limits.maxDown)
    BY <1>1, BandEnds, SpeedBandAssumption DEF BandInv, Global
  <2>. QED  BY <1>1, <2>1, <2>2, <2>3, BandEnds, BandKept DEF BandInv, Global
<1>4. CASE RefreshCurrentBandwidth
  <2>1. limits' = limits /\ speed' \in Sampling(limits)
    BY <1>4 DEF RefreshCurrentBandwidth
  <2>2. speed' \in [up   : Sampled(Bytes(limits.minUp), Bytes(limits.maxUp)),
                   down : Sampled(Bytes(limits.minDown), Bytes(limits.maxDown))]
    BY <2>1 DEF Sampling
  <2>. QED  BY <1>1, <2>1, <2>2, BandEnds, BandKept DEF BandInv, Global
<1>5. ASSUME NEW l \in Limits, UpdateLimits(l)
      PROVE  BandInv'
  <2>1. /\ limits' = l
        /\ speed' = [up   |-> Clamped(speed.up, Bytes(l.minUp), Bytes(l.maxUp)),
                     down |-> Clamped(speed.down, Bytes(l.minDown), Bytes(l.maxDown))]
    BY <1>5 DEF UpdateLimits
  <2>2. speed.up \in 0..MaxWord /\ speed.down \in 0..MaxWord
    BY <1>1 DEF Global
  <2>. QED  BY <2>1, <2>2, BandEnds, BandKept DEF BandInv, Global
<1>6. ASSUME NEW h \in Torrent,
             \/ ReadFlag(h) \/ RegisterTorrent(h) \/ UnregisterTorrent(h)
             \/ \E p \in Peers : UpdateTorrentPeers(h, p)
             \/ \E completed \in BOOLEAN : StoreFlag(h, completed)
             \/ PersistFails(h) \/ ForceAbsent(h) \/ ForceInitialCompleted(h)
      PROVE  speed' = speed /\ limits' = limits
  BY <1>6 DEF ReadFlag, RegisterTorrent, UnregisterTorrent, UpdateTorrentPeers,
              StoreFlag, PersistFails, ForceAbsent, ForceInitialCompleted
<1>7. ASSUME AnnouncerUpdated \/ Merge \/ UNCHANGED vars
      PROVE  speed' = speed /\ limits' = limits
  BY <1>7 DEF AnnouncerUpdated, Merge, vars
<1>. QED  BY <1>2, <1>3, <1>4, <1>5, <1>6, <1>7 DEF Next

LEMMA NextWeight == WeightInv /\ [Next]_vars => WeightInv'
<1>. SUFFICES ASSUME WeightInv, [Next]_vars PROVE WeightInv'
  OBVIOUS
<1>1. Weighed(weights) /\ total = SumFunction(weights) /\ total \in Nat
  BY DEF WeightInv, WeightsAddUp
<1>2. CASE weights' = weights /\ total' = total
  BY <1>2, <1>1 DEF WeightInv, WeightsAddUp
<1>3. ASSUME NEW h \in Torrent, NEW p \in Peers, UpdateTorrentPeers(h, p)
      PROVE  WeightInv'
  <2>1. PeersWeight(p) \in Nat
    BY PeersWeightIsNat
  <2>2. /\ weights' = With(weights, h, PeersWeight(p))
        /\ total' = total - Weight(weights, h) + PeersWeight(p)
    BY <1>3 DEF UpdateTorrentPeers, TotalWith
  <2>3. Weighed(weights') /\ total' = SumFunction(weights') /\ total' \in Nat
    BY <1>1, <2>1, <2>2, TotalOfWith
  <2>. QED  BY <2>3 DEF WeightInv, WeightsAddUp
<1>4. ASSUME NEW h \in Torrent, UnregisterTorrent(h)
      PROVE  WeightInv'
  <2>1. /\ weights' = Restrict(weights, DOMAIN weights \ {h})
        /\ total' = total - Weight(weights, h) + 0
    BY <1>4 DEF UnregisterTorrent, TotalWith
  <2>2. Weighed(weights') /\ total' = SumFunction(weights') /\ total' \in Nat
    BY <1>1, <2>1, TotalOfRestrict
  <2>. QED  BY <2>2 DEF WeightInv, WeightsAddUp
<1>5. ASSUME NEW h \in Torrent,
             \/ ReadFlag(h) \/ RegisterTorrent(h)
             \/ \E completed \in BOOLEAN : StoreFlag(h, completed)
             \/ PersistFails(h) \/ ForceAbsent(h) \/ ForceInitialCompleted(h)
      PROVE  weights' = weights /\ total' = total
  BY <1>5 DEF ReadFlag, RegisterTorrent, StoreFlag, PersistFails, ForceAbsent,
              ForceInitialCompleted
<1>6. ASSUME \/ AnnouncerUpdated \/ Tick \/ Merge \/ RefreshCurrentBandwidth
             \/ (\E l \in Limits : UpdateLimits(l)) \/ UNCHANGED vars
      PROVE  weights' = weights /\ total' = total
  BY <1>6 DEF AnnouncerUpdated, Tick, Merge, RefreshCurrentBandwidth,
              UpdateLimits, vars
<1>. QED  BY <1>2, <1>3, <1>4, <1>5, <1>6 DEF Next

\* The counters in the course of a tick that finds the global speeds s.
Before(s) == Split(seeds, weights, total, s)
After(s)  == Added(Before(s))
Done(s)   == JustCompleted(Before(s), After(s))

\* A tick as it is seen afterwards.
LEMMA TickCounters ==
    ASSUME CounterInv, WeightInv, BandInv', Tick
    PROVE  /\ Counted(Before(speed')) /\ DOMAIN Before(speed') = DOMAIN seeds
           /\ Counted(After(speed')) /\ DOMAIN After(speed') = DOMAIN seeds
           /\ Counted(seeds') /\ DOMAIN seeds' = DOMAIN seeds
           /\ \A h \in DOMAIN seeds :
                 /\ seeds'[h].uploaded = After(speed')[h].uploaded
                 /\ seeds'[h].downloaded = After(speed')[h].downloaded
           /\ Done(speed') \subseteq Downloading(seeds)
           /\ Downloading(seeds') = Downloading(seeds) \ Done(speed')
           /\ finished' = finished \cup Done(speed')
<1> DEFINE b == Before(speed')
           a == After(speed')
           d == Done(speed')
<1>1. /\ Counted(seeds) /\ IsFiniteSet(DOMAIN seeds)
      /\ Weighed(weights) /\ total \in Nat /\ speed' \in Global
  BY DEF CounterInv, WeightInv, BandInv
<1>2. /\ Counted(b) /\ DOMAIN b = DOMAIN seeds
      /\ Downloading(b) = Downloading(seeds)
      /\ \A h \in DOMAIN seeds : b[h].downloaded = seeds[h].downloaded
  BY <1>1, SplitCounters DEF Before
<1>3. a = Added(b) /\ d = JustCompleted(b, a)
  BY DEF After, Done
<1>4. seeds' = IF d = {} THEN a ELSE Split(a, weights, total, speed')
  BY DEF Tick, Before, After, Done
<1>. HIDE DEF b, a, d
<1>5. /\ Counted(a) /\ DOMAIN a = DOMAIN seeds
      /\ \A h \in DOMAIN seeds : a[h].downloaded >= b[h].downloaded
  BY <1>2, <1>3, AddedCounters
<1>6. /\ Counted(seeds') /\ DOMAIN seeds' = DOMAIN seeds
      /\ Downloading(seeds') = Downloading(a)
      /\ \A h \in DOMAIN seeds : /\ seeds'[h].uploaded = a[h].uploaded
                                 /\ seeds'[h].downloaded = a[h].downloaded
  <2>1. CASE d = {}
    BY <1>4, <1>5, <2>1
  <2>2. CASE d # {}
    <3>1. seeds' = Split(a, weights, total, speed')
      BY <1>4, <2>2
    <3>2. IsFiniteSet(DOMAIN a)
      BY <1>1, <1>5
    <3>. QED  BY <1>1, <1>5, <3>1, <3>2, SplitCounters
  <2>. QED  BY <2>1, <2>2
<1>7. d \subseteq Downloading(seeds)
  BY <1>2, <1>3 DEF JustCompleted
<1>8. Downloading(a) = Downloading(seeds) \ d
  <2>1. ASSUME NEW h \in DOMAIN seeds
        PROVE  h \in Downloading(a) <=> h \in Downloading(seeds) \ d
    <3>1. /\ TotalSize[h] \in Nat /\ a[h].downloaded \in Nat /\ a[h].left \in Nat
          /\ a[h].downloaded + a[h].left = TotalSize[h]
          /\ seeds[h].downloaded \in Nat /\ b[h].downloaded = seeds[h].downloaded
          /\ a[h].downloaded >= b[h].downloaded
      BY <1>1, <1>2, <1>5, DispatcherAssumption, SpeedBandAssumption DEF Counted, Seed
    <3>2. h \in Downloading(a) <=> a[h].downloaded < TotalSize[h]
      BY <1>5 DEF Downloading
    <3>3. h \in Downloading(seeds) <=> seeds[h].downloaded < TotalSize[h]
      BY DEF Downloading
    <3>4. h \in d <=> h \in Downloading(seeds) /\ a[h].downloaded = TotalSize[h]
      BY <1>2, <1>3 DEF JustCompleted
    <3>. QED  BY <3>1, <3>2, <3>3, <3>4
  <2>2. Downloading(a) \subseteq DOMAIN seeds /\ Downloading(seeds) \subseteq DOMAIN seeds
    BY <1>5 DEF Downloading
  <2>. QED  BY <2>1, <2>2
<1>9. finished' = finished \cup d
  <2>1. finished' = finished \cup
                    {h \in Downloading(seeds) : h \notin Downloading(seeds')}
    BY DEF Tick
  <2>. QED  BY <1>6, <1>7, <1>8, <2>1
<1>. QED  BY <1>2, <1>5, <1>6, <1>7, <1>8, <1>9 DEF b, a, d

LEMMA NextCounter ==
    CounterInv /\ WeightInv /\ WeightInv' /\ BandInv /\ BandInv'
       /\ [Next]_vars => CounterInv'
<1>. SUFFICES ASSUME CounterInv, WeightInv, WeightInv', BandInv, BandInv',
                     [Next]_vars
              PROVE  CounterInv'
  OBVIOUS
<1>1. /\ Counted(seeds) /\ IsFiniteSet(DOMAIN seeds)
      /\ Weighed(weights) /\ total \in Nat /\ speed \in Global
      /\ Weighed(weights') /\ total' \in Nat /\ speed' \in Global
  BY DEF CounterInv, WeightInv, BandInv
<1>2. CASE seeds' = seeds
  BY <1>2 DEF CounterInv
<1>3. ASSUME NEW e, Counted(e), IsFiniteSet(DOMAIN e), NEW w, Weighed(w),
             NEW sum \in Nat, NEW s \in Global, seeds' = Split(e, w, sum, s)
      PROVE  CounterInv'
  BY <1>3, SplitCounters DEF CounterInv
<1>4. ASSUME NEW h \in Torrent, RegisterTorrent(h)
      PROVE  CounterInv'
  <2> DEFINE done == IF joining[h] = "complete" THEN TotalSize[h] ELSE 0
             r == [uploaded |-> 0, downloaded |-> done,
                   left |-> TotalSize[h] - done, up |-> 0, down |-> 0]
  <2>1. seeds' = With(seeds, h, r)
    BY <1>4 DEF RegisterTorrent
  <2>2. r \in Seed /\ r.downloaded + r.left = TotalSize[h]
    BY DispatcherAssumption, SpeedBandAssumption DEF Seed
  <2>. HIDE DEF r
  <2>3. /\ DOMAIN seeds' = DOMAIN seeds \cup {h} /\ seeds'[h] = r
        /\ \A k \in DOMAIN seeds : k # h => seeds'[k] = seeds[k]
    BY <2>1 DEF With
  <2>4. IsFiniteSet(DOMAIN seeds')
    BY <1>1, <2>3, FS_AddElement
  <2>. QED  BY <1>1, <2>2, <2>3, <2>4 DEF CounterInv, Counted
<1>5. ASSUME NEW h \in Torrent, NEW p \in Peers, UpdateTorrentPeers(h, p)
      PROVE  CounterInv'
  <2>1. seeds' = Split(seeds, weights', total', speed)
    BY <1>5 DEF UpdateTorrentPeers
  <2>. QED  BY <1>1, <1>3, <2>1
<1>6. ASSUME NEW h \in Torrent, UnregisterTorrent(h)
      PROVE  CounterInv'
  <2> DEFINE e == Restrict(seeds, DOMAIN seeds \ {h})
  <2>1. seeds' = Split(e, weights', total', speed)
    BY <1>6 DEF UnregisterTorrent
  <2>2. /\ DOMAIN e = DOMAIN seeds \ {h}
        /\ \A k \in DOMAIN e : e[k] = seeds[k]
    BY DEF Restrict
  <2>. HIDE DEF e
  <2>3. Counted(e) /\ IsFiniteSet(DOMAIN e)
    BY <1>1, <2>2, FS_RemoveElement DEF Counted
  <2>. QED  BY <1>1, <1>3, <2>1, <2>3
<1>7. ASSUME NEW h \in Torrent, ForceInitialCompleted(h)
      PROVE  CounterInv'
  <2> DEFINE got == IF forcing[h] = "check" THEN TotalSize[h] ELSE 0
             e   == [seeds EXCEPT ![h].downloaded = got,
                                  ![h].left = TotalSize[h] - got]
             r   == [seeds[h] EXCEPT !.downloaded = got, !.left = TotalSize[h] - got]
  <2>1. seeds' = Split(e, weights, total, speed) /\ h \in DOMAIN seeds
    BY <1>7 DEF ForceInitialCompleted
  <2>2. /\ DOMAIN e = DOMAIN seeds /\ e[h] = r
        /\ \A k \in DOMAIN seeds : k # h => e[k] = seeds[k]
    BY <2>1
  <2>3. r \in Seed /\ r.downloaded + r.left = TotalSize[h]
    BY <1>1, <2>1, DispatcherAssumption, SpeedBandAssumption DEF Counted, Seed
  <2>. HIDE DEF e, r
  <2>4. Counted(e) /\ IsFiniteSet(DOMAIN e)
    BY <1>1, <2>2, <2>3 DEF Counted
  <2>. QED  BY <1>1, <1>3, <2>1, <2>4
<1>8. CASE Tick
  BY <1>1, <1>8, TickCounters DEF CounterInv
<1>9. CASE RefreshCurrentBandwidth
  BY <1>1, <1>3, <1>9 DEF RefreshCurrentBandwidth
<1>10. ASSUME NEW h \in Torrent, \/ ReadFlag(h)
                                 \/ \E completed \in BOOLEAN : StoreFlag(h, completed)
                                 \/ PersistFails(h) \/ ForceAbsent(h)
       PROVE  CounterInv'
  BY <1>2, <1>10 DEF ReadFlag, StoreFlag, PersistFails, ForceAbsent
<1>11. CASE AnnouncerUpdated \/ Merge \/ (\E l \in Limits : UpdateLimits(l))
  BY <1>2, <1>11 DEF AnnouncerUpdated, Merge, UpdateLimits
<1>12. CASE UNCHANGED vars
  BY <1>2, <1>12 DEF vars
<1>. QED  BY <1>4, <1>5, <1>6, <1>7, <1>8, <1>9, <1>10, <1>11, <1>12 DEF Next

\* The pokes of a tick, in the order chosen.
Pokes(order, d) ==
    (IF d = {} THEN <<Rebuild>> ELSE <<Rebuild, Rebuild>>)
        \o [i \in DOMAIN order |-> Completed(order[i])]

LEMMA PokesAreMail ==
    ASSUME NEW d \in SUBSET Torrent, IsFiniteSet(d), NEW order \in SetToSeqs(d)
    PROVE  /\ Pokes(order, d) \in Seq(Poke)
           /\ \A h \in d : \E i \in 1..Len(Pokes(order, d)) :
                              Pokes(order, d)[i] = Completed(h)
<1> DEFINE n == Cardinality(d)
           p == IF d = {} THEN <<Rebuild>> ELSE <<Rebuild, Rebuild>>
           q == [i \in DOMAIN order |-> Completed(order[i])]
<1>1. n \in Nat
  BY FS_CardinalityType
<1>2. order \in [1..n -> d] /\ \A i, j \in 1..n : i # j => order[i] # order[j]
  BY DEF SetToSeqs
<1>3. q \in Seq(Poke) /\ Len(q) = n /\ \A i \in 1..n : q[i] = Completed(order[i])
  <2>1. q \in [1..n -> Poke]
    BY <1>2 DEF Poke
  <2>2. \A i \in 1..n : q[i] = Completed(order[i])
    BY <1>2
  <2>. HIDE DEF q
  <2>. QED  BY <1>1, <2>1, <2>2
<1>4. p \in Seq(Poke)
  <2>1. Rebuild \in Poke
    BY DEF Poke
  <2>2. <<Rebuild>> \in Seq(Poke) /\ <<Rebuild, Rebuild>> \in Seq(Poke)
    BY <2>1
  <2>. QED  BY <2>2
<1>. HIDE DEF p, q
<1>5. /\ p \o q \in Seq(Poke) /\ Len(p \o q) = Len(p) + n /\ Len(p) \in Nat
      /\ \A i \in 1..n : (p \o q)[Len(p) + i] = q[i]
  BY <1>1, <1>3, <1>4
<1>6. Pokes(order, d) = p \o q
  BY DEF Pokes, p, q
<1>7. ASSUME NEW h \in d
      PROVE  \E i \in 1..n : order[i] = h
  <2>1. order \in Injection(1..n, d)
    BY <1>2 DEF Injection, IsInjective
  <2>2. IsFiniteSet(1..n) /\ Cardinality(1..n) = n
    BY <1>1, FS_Interval
  <2>3. order \in Surjection(1..n, d)
    BY <2>1, <2>2, FS_Injection DEF ExistsInjection
  <2>. QED  BY <2>3 DEF Surjection
<1>8. ASSUME NEW h \in d
      PROVE  \E i \in 1..Len(p \o q) : (p \o q)[i] = Completed(h)
  <2>1. PICK i \in 1..n : order[i] = h
    BY <1>7, <1>8
  <2>2. Len(p) + i \in 1..Len(p \o q) /\ (p \o q)[Len(p) + i] = Completed(h)
    BY <1>1, <1>3, <1>5, <2>1
  <2>. QED  BY <2>2
<1>. QED  BY <1>5, <1>6, <1>8

LEMMA TickMail ==
    ASSUME CounterInv, WeightInv, BandInv', Mail(mailbox), Tick
    PROVE  /\ Mail(mailbox')
           /\ ToSet(mailbox) \subseteq ToSet(mailbox')
           /\ Len(mailbox') = Capacity
              \/ \A h \in Done(speed') : Completed(h) \in ToSet(mailbox')
<1> DEFINE d == Done(speed')
<1>1. PICK order \in SetToSeqs(d) : mailbox' = Sent(mailbox, Pokes(order, d))
  BY DEF Tick, Before, After, Done, Pokes
<1>2. d \in SUBSET Torrent /\ IsFiniteSet(d)
  <2>1. d \subseteq DOMAIN seeds
    BY TickCounters DEF Downloading
  <2>. QED  BY <2>1, FS_Subset DEF CounterInv, Counted
<1>. HIDE DEF d
<1> DEFINE s    == Pokes(order, d)
           room == Capacity - Len(mailbox)
           n    == IF Len(s) < room THEN Len(s) ELSE room
<1>3. /\ s \in Seq(Poke)
      /\ \A h \in d : \E i \in 1..Len(s) : s[i] = Completed(h)
  BY <1>2, PokesAreMail
<1>. HIDE DEF s
<1>4. /\ Mail(mailbox') /\ Len(mailbox') = Len(mailbox) + n
      /\ ToSet(mailbox) \subseteq ToSet(mailbox')
      /\ \A i \in 1..n : s[i] \in ToSet(mailbox')
  BY <1>1, <1>3, SentIsMail DEF s
<1>5. CASE Len(s) < room
  <2>1. \A h \in d : Completed(h) \in ToSet(mailbox')
    BY <1>3, <1>4, <1>5
  <2>. QED  BY <1>4, <2>1 DEF d
<1>6. CASE ~(Len(s) < room)
  BY <1>4, <1>6, DispatcherAssumption DEF Mail
<1>. QED  BY <1>5, <1>6

LEMMA PokeIsMail ==
    /\ <<Rebuild>> \in Seq(Poke)
    /\ \A h \in Torrent : <<Completed(h)>> \in Seq(Poke)
<1>1. Rebuild \in Poke /\ \A h \in Torrent : Completed(h) \in Poke
  BY DEF Poke
<1>. QED  BY <1>1

LEMMA NextMail ==
    CounterInv /\ WeightInv /\ BandInv' /\ Mail(mailbox) /\ [Next]_vars
       => Mail(mailbox')
<1>. SUFFICES ASSUME CounterInv, WeightInv, BandInv', Mail(mailbox), [Next]_vars
              PROVE  Mail(mailbox')
  OBVIOUS
<1>1. Mail(Sent(mailbox, <<Rebuild>>))
  BY PokeIsMail, SentIsMail
<1>2. ASSUME NEW h \in Torrent,
             \/ UnregisterTorrent(h) \/ \E p \in Peers : UpdateTorrentPeers(h, p)
      PROVE  Mail(mailbox')
  BY <1>1, <1>2 DEF UnregisterTorrent, UpdateTorrentPeers
<1>3. CASE AnnouncerUpdated \/ RefreshCurrentBandwidth
  BY <1>1, <1>3 DEF AnnouncerUpdated, RefreshCurrentBandwidth
<1>4. CASE Tick
  BY <1>4, TickMail
<1>5. CASE Merge
  <2>1. mailbox # <<>> /\ mailbox' = Tail(mailbox)
    BY <1>5 DEF Merge
  <2>2. mailbox \in Seq(Poke) /\ Len(mailbox) \in Nat /\ Len(mailbox) <= Capacity
    BY DEF Mail
  <2>3. Tail(mailbox) \in Seq(Poke) /\ Len(Tail(mailbox)) = Len(mailbox) - 1
    BY <2>1, <2>2
  <2>4. Len(Tail(mailbox)) <= Capacity
    BY <2>2, <2>3, DispatcherAssumption
  <2>. QED  BY <2>1, <2>3, <2>4 DEF Mail
<1>6. ASSUME NEW h \in Torrent, ForceInitialCompleted(h)
      PROVE  Mail(mailbox')
  <2> DEFINE poked == Sent(mailbox, <<Rebuild>>)
  <2>1. mailbox' = poked \/ mailbox' = Sent(poked, <<Completed(h)>>)
    BY <1>6 DEF ForceInitialCompleted
  <2>. HIDE DEF poked
  <2>2. Mail(poked)
    BY <1>1 DEF poked
  <2>3. Mail(Sent(poked, <<Completed(h)>>))
    BY <2>2, PokeIsMail, SentIsMail
  <2>. QED  BY <2>1, <2>2, <2>3
<1>7. ASSUME NEW h \in Torrent,
             \/ ReadFlag(h) \/ RegisterTorrent(h)
             \/ \E completed \in BOOLEAN : StoreFlag(h, completed)
             \/ PersistFails(h) \/ ForceAbsent(h)
      PROVE  mailbox' = mailbox
  BY <1>7 DEF ReadFlag, RegisterTorrent, StoreFlag, PersistFails, ForceAbsent
<1>8. ASSUME (\E l \in Limits : UpdateLimits(l)) \/ UNCHANGED vars
      PROVE  mailbox' = mailbox
  BY <1>8 DEF UpdateLimits, vars
<1>. QED  BY <1>2, <1>3, <1>4, <1>5, <1>6, <1>7, <1>8 DEF Next

LEMMA NextFlag ==
    CounterInv /\ WeightInv /\ BandInv' /\ FlagInv /\ [Next]_vars => FlagInv'
<1>. SUFFICES ASSUME CounterInv, WeightInv, BandInv', FlagInv, [Next]_vars
              PROVE  FlagInv'
  OBVIOUS
<1>1. DOMAIN seeds \subseteq Torrent
  BY DEF CounterInv, Counted
<1>2. \A e, w, sum, s : DOMAIN Split(e, w, sum, s) = DOMAIN e
  BY DEF Split
<1>3. ASSUME NEW h \in Torrent, \/ ReadFlag(h) \/ PersistFails(h) \/ ForceAbsent(h)
                                \/ \E completed \in BOOLEAN : StoreFlag(h, completed)
      PROVE  FlagInv'
  BY <1>3 DEF FlagInv, ReadFlag, PersistFails, ForceAbsent, StoreFlag
<1>4. ASSUME NEW h \in Torrent, RegisterTorrent(h)
      PROVE  FlagInv'
  <2>1. /\ joining' = [joining EXCEPT ![h] = "registered"]
        /\ finished' = finished \ {h}
        /\ UNCHANGED <<checkbox, forcing, marked>>
    BY <1>4 DEF RegisterTorrent
  <2>2. DOMAIN seeds' = DOMAIN seeds \cup {h}
    BY <1>4 DEF RegisterTorrent, With
  <2>. QED  BY <2>1, <2>2 DEF FlagInv
<1>5. ASSUME NEW h \in Torrent, NEW p \in Peers, UpdateTorrentPeers(h, p)
      PROVE  FlagInv'
  <2>1. /\ joining' = [joining EXCEPT ![h] = IF @ = "registered" THEN "no" ELSE @]
        /\ UNCHANGED <<checkbox, forcing, marked, finished>>
    BY <1>5 DEF UpdateTorrentPeers
  <2>2. DOMAIN seeds' = DOMAIN seeds
    BY <1>2, <1>5 DEF UpdateTorrentPeers
  <2>. QED  BY <2>1, <2>2 DEF FlagInv
<1>6. ASSUME NEW h \in Torrent, UnregisterTorrent(h)
      PROVE  FlagInv'
  <2>1. /\ marked' = marked \ {h} /\ finished' = finished \ {h}
        /\ UNCHANGED <<joining, checkbox, forcing>>
    BY <1>6 DEF UnregisterTorrent, storeVars
  <2>2. DOMAIN seeds' = DOMAIN seeds \ {h}
    BY <1>2, <1>6 DEF UnregisterTorrent, Restrict
  <2>. QED  BY <2>1, <2>2 DEF FlagInv
<1>7. ASSUME NEW h \in Torrent, ForceInitialCompleted(h)
      PROVE  FlagInv'
  <2>1. /\ marked' \subseteq marked \cup {h} /\ finished' \subseteq finished \cup {h}
        /\ h \in DOMAIN seeds
        /\ forcing' = [forcing EXCEPT ![h] = "no"] /\ UNCHANGED <<joining, checkbox>>
    BY <1>7 DEF ForceInitialCompleted
  <2>2. DOMAIN seeds' = DOMAIN seeds
    BY <1>2, <1>7 DEF ForceInitialCompleted
  <2>. QED  BY <2>1, <2>2 DEF FlagInv
<1>8. CASE Tick
  <2>1. DOMAIN seeds' = DOMAIN seeds /\ finished' \subseteq DOMAIN seeds
    BY <1>8, TickCounters DEF FlagInv, Downloading
  <2>2. UNCHANGED <<joining, checkbox, forcing, marked>>
    BY <1>8 DEF Tick, storeVars
  <2>. QED  BY <2>1, <2>2 DEF FlagInv
<1>9. CASE Merge
  BY <1>1, <1>9 DEF FlagInv, Merge, storeVars
<1>10. CASE RefreshCurrentBandwidth
  <2>1. DOMAIN seeds' = DOMAIN seeds
    BY <1>2, <1>10 DEF RefreshCurrentBandwidth
  <2>. QED  BY <1>10, <2>1 DEF FlagInv, RefreshCurrentBandwidth, storeVars
<1>11. CASE AnnouncerUpdated \/ (\E l \in Limits : UpdateLimits(l)) \/ UNCHANGED vars
  BY <1>11 DEF FlagInv, AnnouncerUpdated, UpdateLimits, vars, storeVars
<1>. QED  BY <1>3, <1>4, <1>5, <1>6, <1>7, <1>8, <1>9, <1>10, <1>11 DEF Next

LEMMA NextIInv == IInv /\ [Next]_vars => IInv'
<1>. SUFFICES ASSUME IInv, [Next]_vars PROVE IInv'
  OBVIOUS
<1>1. /\ WeightInv /\ BandInv /\ CounterInv /\ Mail(mailbox) /\ FlagInv
  BY DEF IInv
<1>2. WeightInv' /\ BandInv'
  BY <1>1, NextWeight, NextBand
<1>3. CounterInv' /\ Mail(mailbox') /\ FlagInv'
  BY <1>1, <1>2, NextCounter, NextMail, NextFlag
<1>. QED  BY <1>2, <1>3 DEF IInv, Mail

\* Types: the counters of every torrent are u64 values that make up its size,
\* the mailbox never holds more than its capacity, whatever is registered,
\* removed, forced or drawn.
THEOREM DispatcherTypeCorrect == Spec => []TypeOK
BY InitIInv, NextIInv, IInvImplies, PTL DEF Spec

\* The cached total never drifts from the weights it stands for.
THEOREM TotalIsTheSum == Spec => []WeightsAddUp
BY InitIInv, NextIInv, IInvImplies, PTL DEF Spec
-----------------------------------------------------------------------------
(* The budgets. *)

\* The torrents registered weigh no more than all that have a weight.
LEMMA LoadsFit ==
    ASSUME NEW S, IsFiniteSet(S), NEW w, Weighed(w)
    PROVE  SumFunctionOnSet(Loads(S, w), S) <= SumFunction(w)
<1> DEFINE D == DOMAIN w
           U == S \cup D
           f == Loads(U, w)
           g == Loads(S, w)
<1>1. IsFiniteSet(D) /\ IsFiniteSet(U)
  BY FS_Union DEF Weighed
<1>2. /\ \A h \in U : f[h] \in Nat /\ f[h] \in Int /\ f[h] = Weight(w, h)
      /\ \A h \in S : g[h] = f[h]
      /\ \A h \in U \ D : f[h] = 0
      /\ \A h \in D : w[h] = f[h]
  <2>1. \A h : Weight(w, h) \in Nat
    BY WeightIsNat
  <2>. QED  BY <2>1 DEF Loads, Weight
<1>. HIDE DEF f, g
<1> DEFINE sf == SumFunctionOnSet(f, S)
           tf == SumFunctionOnSet(f, U)
<1>3. sf \in Nat /\ sf <= tf
  <2>1. S \in SUBSET U
    OBVIOUS
  <2>. QED  BY <1>1, <1>2, <2>1, SumOfPart
<1>4. SumFunctionOnSet(f, U) = SumFunctionOnSet(f, D)
  <2>1. D \in SUBSET U
    OBVIOUS
  <2>. QED  BY <1>1, <1>2, <2>1, SumOverSupport
<1>5. SumFunctionOnSet(w, D) = SumFunctionOnSet(f, D)
  BY <1>1, <1>2, SumsEqual
<1>6. SumFunctionOnSet(g, S) = SumFunctionOnSet(f, S)
  BY <1>2, SumsEqual
<1>. QED  BY <1>3, <1>4, <1>5, <1>6 DEF SumFunction, g

\* What the torrents draw of the download budget b while those in D download.
Draw(b, D) ==
    [h \in DOMAIN seeds |->
        IF h \in D
        THEN Share(b, Weight(weights, h),
                   SumFunctionOnSet(Loads(DOMAIN seeds, weights), D))
        ELSE 0]

\* Shares and credit of a tick.
LEMMA TickShares ==
    ASSUME CounterInv, WeightInv, BandInv', Tick
    PROVE  \A h \in DOMAIN seeds :
              /\ seeds'[h].down = Draw(speed'.down, Downloading(seeds'))[h]
              /\ seeds'[h].uploaded - seeds[h].uploaded \in Int
              /\ seeds'[h].uploaded - seeds[h].uploaded
                    <= PerTick(Share(speed'.up, Weight(weights, h), total))
              /\ seeds'[h].downloaded - seeds[h].downloaded \in Int
              /\ seeds'[h].downloaded - seeds[h].downloaded
                    <= PerTick(Draw(speed'.down, Downloading(seeds))[h])
<1> DEFINE b == Before(speed')
           a == After(speed')
           d == Done(speed')
<1>1. /\ Counted(seeds) /\ IsFiniteSet(DOMAIN seeds)
      /\ Weighed(weights) /\ total \in Nat /\ speed' \in Global
  BY DEF CounterInv, WeightInv, BandInv
<1>2. /\ Counted(b) /\ DOMAIN b = DOMAIN seeds
      /\ Downloading(b) = Downloading(seeds)
      /\ \A h \in DOMAIN seeds :
            /\ b[h].uploaded = seeds[h].uploaded
            /\ b[h].downloaded = seeds[h].downloaded
            /\ b[h].up = Share(speed'.up, Weight(weights, h), total)
            /\ b[h].down = Draw(speed'.down, Downloading(seeds))[h]
  <2>1. b = Split(seeds, weights, total, speed')
    BY DEF Before
  <2>. HIDE DEF b
  <2>2. \A h \in DOMAIN seeds :
          b[h].down = IF h \in Downloading(seeds)
                      THEN Share(speed'.down, Weight(weights, h), Active(seeds, weights))
                      ELSE 0
    BY <1>1, <2>1, SplitCounters
  <2>3. \A h \in DOMAIN seeds :
          b[h].down = Draw(speed'.down, Downloading(seeds))[h]
    BY <2>2 DEF Draw, Active
  <2>4. /\ Counted(b) /\ DOMAIN b = DOMAIN seeds
        /\ Downloading(b) = Downloading(seeds)
        /\ \A h \in DOMAIN seeds :
              /\ b[h].uploaded = seeds[h].uploaded
              /\ b[h].downloaded = seeds[h].downloaded
              /\ b[h].up = Share(speed'.up, Weight(weights, h), total)
    BY <1>1, <2>1, SplitCounters
  <2>. QED  BY <2>3, <2>4
<1>3. a = Added(b)
  BY DEF After
<1>4. seeds' = IF d = {} THEN a ELSE Split(a, weights, total, speed')
  BY DEF Tick, Before, After, Done
<1>5. /\ Counted(a) /\ DOMAIN a = DOMAIN seeds
      /\ Counted(seeds') /\ DOMAIN seeds' = DOMAIN seeds
      /\ \A h \in DOMAIN seeds : /\ seeds'[h].uploaded = a[h].uploaded
                                 /\ seeds'[h].downloaded = a[h].downloaded
      /\ Downloading(seeds') = Downloading(seeds) \ d
  BY TickCounters
<1>. HIDE DEF b, a, d
<1>6. \A h \in DOMAIN seeds :
         /\ a[h].down = b[h].down
         /\ a[h].uploaded - b[h].uploaded <= PerTick(b[h].up)
         /\ a[h].downloaded - b[h].downloaded <= PerTick(b[h].down)
  BY <1>2, <1>3, AddedCounters
<1>7. \A h \in DOMAIN seeds :
         seeds'[h].down = Draw(speed'.down, Downloading(seeds'))[h]
  <2>1. CASE d = {}
    <3>1. seeds' = a /\ Downloading(seeds') = Downloading(seeds)
      BY <1>4, <1>5, <2>1
    <3>. QED  BY <1>2, <1>6, <3>1
  <2>2. CASE d # {}
    <3>1. seeds' = Split(a, weights, total, speed') /\ IsFiniteSet(DOMAIN a)
      BY <1>1, <1>4, <1>5, <2>2
    <3>2. Downloading(seeds') = Downloading(a)
      BY <1>1, <1>5, <3>1, SplitCounters
    <3>3. \A h \in DOMAIN a :
            seeds'[h].down = IF h \in Downloading(a)
                             THEN Share(speed'.down, Weight(weights, h), Active(a, weights))
                             ELSE 0
      BY <1>1, <1>5, <3>1, SplitCounters
    <3>. QED  BY <1>5, <3>2, <3>3 DEF Draw, Active
  <2>. QED  BY <2>1, <2>2
<1>8. ASSUME NEW h \in DOMAIN seeds
      PROVE  /\ seeds'[h].uploaded \in Int /\ seeds'[h].downloaded \in Int
             /\ seeds[h].uploaded \in Int /\ seeds[h].downloaded \in Int
  BY <1>1, <1>5 DEF Counted, Seed
<1>9. TAKE h \in DOMAIN seeds
<1> DEFINE up   == PerTick(Share(speed'.up, Weight(weights, h), total))
           down == PerTick(Draw(speed'.down, Downloading(seeds))[h])
<1>10. /\ seeds'[h].uploaded - seeds[h].uploaded <= up
       /\ seeds'[h].downloaded - seeds[h].downloaded <= down
  <2>1. PerTick(b[h].up) = up /\ PerTick(b[h].down) = down
    BY <1>2
  <2>. HIDE DEF up, down
  <2>. QED  BY <1>2, <1>5, <1>6, <2>1
<1>. QED  BY <1>7, <1>8, <1>10

LEMMA DrawFits ==
    ASSUME CounterInv, WeightInv, NEW b \in Nat, NEW D \in SUBSET (DOMAIN seeds)
    PROVE  /\ \A h \in DOMAIN seeds : Draw(b, D)[h] \in Nat
           /\ SumFunctionOnSet(Draw(b, D), DOMAIN seeds) <= b
<1> DEFINE E   == DOMAIN seeds
           f   == Draw(b, D)
           wt  == Loads(E, weights)
           sum == SumFunctionOnSet(wt, D)
<1>1. IsFiniteSet(E) /\ IsFiniteSet(D) /\ Weighed(weights)
  BY FS_Subset DEF CounterInv, WeightInv
<1>2. \A h \in E : wt[h] = Weight(weights, h) /\ wt[h] \in Nat
  BY <1>1, WeightIsNat DEF Loads
<1>3. sum \in Nat
  <2>. HIDE DEF wt, E
  <2>. QED  BY <1>1, <1>2, SumOfPart DEF E
<1>4. \A h \in E : f[h] = IF h \in D THEN Share(b, wt[h], sum) ELSE 0
  BY <1>2 DEF Draw
<1>. HIDE DEF f, wt, sum
<1>5. \A h \in E : f[h] \in Nat
  <2>1. TAKE h \in E
  <2>2. Share(b, wt[h], sum) \in Nat
    BY <1>2, <1>3, ShareIsNat
  <2>. QED  BY <1>4, <2>2
<1>6. SumFunctionOnSet(f, E) = SumFunctionOnSet(f, D)
  BY <1>1, <1>4, <1>5, SumOverSupport
<1>7. SumFunctionOnSet(f, D) <= b
  <2>1. \A h \in D : f[h] = Share(b, wt[h], sum) /\ wt[h] \in Nat
    BY <1>2, <1>4
  <2>2. SumFunctionOnSet(wt, D) <= sum
    BY <1>3 DEF sum
  <2>. QED  BY <1>1, <1>3, <2>1, <2>2, SharesFit
<1>. QED  BY <1>5, <1>6, <1>7 DEF f

\* One tick of the configured bands fits in a word: no product saturates.
TickFits == \A l \in Limits : /\ Bytes(l.maxUp) * TickMs <= MaxWord
                              /\ Bytes(l.maxDown) * TickMs <= MaxWord

LEMMA SpeedFits ==
    ASSUME TickFits, BandInv
    PROVE  /\ speed.up \in Nat /\ speed.up * TickMs <= MaxWord
           /\ speed.down \in Nat /\ speed.down * TickMs <= MaxWord
<1>0. TickMs \in Nat /\ MaxWord \in Nat
  BY DispatcherAssumption, SpeedBandAssumption
<1>1. ASSUME NEW v \in Nat, NEW top \in Nat, v <= top, top * TickMs <= MaxWord
      PROVE  v * TickMs <= MaxWord
  <2>1. PICK d \in Nat : top = v + d
    <3>1. top - v \in Nat /\ top = v + (top - v)
      BY <1>1
    <3>. QED  BY <3>1
  <2>2. top * TickMs = v * TickMs + d * TickMs /\ d * TickMs \in Nat /\ v * TickMs \in Nat
    BY <1>0, <2>1
  <2>. QED  BY <1>0, <1>1, <2>2
<1>2. /\ limits \in Limits /\ speed.up \in Nat /\ speed.down \in Nat
      /\ speed.up <= Bytes(limits.maxUp) /\ speed.down <= Bytes(limits.maxDown)
  BY <1>0 DEF BandInv, Global
<1>3. Bytes(limits.maxUp) \in Nat /\ Bytes(limits.maxDown) \in Nat
  BY <1>0, <1>2, BandEnds
<1>. QED  BY <1>1, <1>2, <1>3 DEF TickFits

\* As long as no product saturates, one tick credits all torrents together with
\* no more than the global speeds amount to, though weights, shares and the set
\* of downloading torrents have changed since the last one.
THEOREM CreditStaysWithinBudget ==
    ASSUME TickFits
    PROVE  Spec => CreditWithinBudget
<1> DEFINE Fits ==
        /\ Sum(LAMBDA h : seeds'[h].uploaded - seeds[h].uploaded, DOMAIN seeds)
              <= PerTick(speed'.up)
        /\ Sum(LAMBDA h : seeds'[h].downloaded - seeds[h].downloaded, DOMAIN seeds)
              <= PerTick(speed'.down)
<1>1. IInv /\ [Next]_vars => [Tick => Fits]_vars
  <2>. SUFFICES ASSUME IInv, [Next]_vars, Tick PROVE Fits
    OBVIOUS
  <2> DEFINE E   == DOMAIN seeds
             wt  == Loads(E, weights)
             up  == [h \in E |-> Share(speed'.up, Weight(weights, h), total)]
             dn  == Draw(speed'.down, Downloading(seeds))
             cu  == [h \in E |-> seeds'[h].uploaded - seeds[h].uploaded]
             cd  == [h \in E |-> seeds'[h].downloaded - seeds[h].downloaded]
  <2>1. /\ CounterInv /\ WeightInv /\ BandInv' /\ IsFiniteSet(E)
        /\ total \in Nat /\ Weighed(weights) /\ total = SumFunction(weights)
    BY NextBand DEF IInv, CounterInv, WeightInv, WeightsAddUp
  <2>2. /\ speed'.up \in Nat /\ speed'.up * TickMs <= MaxWord
        /\ speed'.down \in Nat /\ speed'.down * TickMs <= MaxWord
    <3>1. (TickFits /\ BandInv =>
             /\ speed.up \in Nat /\ speed.up * TickMs <= MaxWord
             /\ speed.down \in Nat /\ speed.down * TickMs <= MaxWord)'
      BY SpeedFits, PTL
    <3>. QED  BY <2>1, <3>1 DEF TickFits
  <2>3. SumFunctionOnSet(up, E) <= speed'.up /\ \A h \in E : up[h] \in Nat
    <3>1. \A h \in E : wt[h] = Weight(weights, h) /\ wt[h] \in Nat
      BY <2>1, WeightIsNat DEF Loads
    <3>2. \A h \in E : up[h] = Share(speed'.up, wt[h], total)
      BY <3>1
    <3>3. SumFunctionOnSet(wt, E) <= total
      BY <2>1, LoadsFit
    <3>4. ASSUME NEW h \in E PROVE up[h] \in Nat
      <4>1. Share(speed'.up, wt[h], total) \in Nat
        BY <2>1, <2>2, <3>1, ShareIsNat
      <4>. QED  BY <3>2, <4>1
    <3>. HIDE DEF wt, up, E
    <3>. QED  BY <2>1, <2>2, <3>1, <3>2, <3>3, <3>4, SharesFit
  <2>4. SumFunctionOnSet(dn, E) <= speed'.down /\ \A h \in E : dn[h] \in Nat
    <3>1. Downloading(seeds) \in SUBSET (DOMAIN seeds)
      BY DEF Downloading
    <3>. QED  BY <2>1, <2>2, <3>1, DrawFits
  <2>5. /\ \A h \in E : cu[h] \in Int /\ cu[h] <= PerTick(up[h])
        /\ \A h \in E : cd[h] \in Int /\ cd[h] <= PerTick(dn[h])
    BY <2>1, TickShares
  <2>6. Fits <=> /\ SumFunctionOnSet(cu, E) <= PerTick(speed'.up)
                 /\ SumFunctionOnSet(cd, E) <= PerTick(speed'.down)
    BY DEF Sum
  <2>. HIDE DEF E, up, dn, cu, cd, Fits
  <2>7. SumFunctionOnSet(cu, E) <= PerTick(speed'.up)
    BY <2>1, <2>2, <2>3, <2>5, CreditFits
  <2>8. SumFunctionOnSet(cd, E) <= PerTick(speed'.down)
    BY <2>1, <2>2, <2>4, <2>5, CreditFits
  <2>. QED  BY <2>6, <2>7, <2>8
<1>. QED  BY InitIInv, NextIInv, <1>1, PTL DEF Spec, CreditWithinBudget

\* Whatever is registered and whoever has just completed, a tick leaves no more
\* of the download budget undistributed than rounding takes.
THEOREM DownloadBudgetIsUsed == Spec => DownloadBudgetUsed
<1> DEFINE AllUsed ==
        LET S == Weighted(Downloading(seeds'))
        IN  S # {} => Used(speed'.down, LAMBDA h : seeds'[h].down, S)
<1>1. IInv /\ [Next]_vars => [Tick => AllUsed]_vars
  <2>. SUFFICES ASSUME IInv, [Next]_vars, Tick PROVE AllUsed
    OBVIOUS
  <2> DEFINE E   == DOMAIN seeds
             D   == Downloading(seeds')
             S   == Weighted(D)
             wt  == Loads(E, weights)
             sum == SumFunctionOnSet(wt, D)
             dn  == [h \in S |-> seeds'[h].down]
  <2>. SUFFICES ASSUME S # {} PROVE Used(speed'.down, LAMBDA h : seeds'[h].down, S)
    OBVIOUS
  <2>1. /\ CounterInv /\ WeightInv /\ BandInv' /\ IsFiniteSet(E) /\ Weighed(weights)
    BY NextBand DEF IInv, CounterInv, WeightInv
  <2>2. speed'.down \in Nat
    BY <2>1, SpeedBandAssumption DEF BandInv, Global
  <2>3. D \in SUBSET E /\ S \in SUBSET D
    BY <2>1, TickCounters DEF Downloading, Weighted
  <2>4. IsFiniteSet(D) /\ IsFiniteSet(S)
    BY <2>1, <2>3, FS_Subset
  <2>5. \A h \in E : wt[h] = Weight(weights, h) /\ wt[h] \in Nat
    BY <2>1, WeightIsNat DEF Loads
  <2>6. (\A h \in S : wt[h] > 0) /\ \A h \in D \ S : wt[h] = 0
    BY <2>3, <2>5 DEF Weighted
  <2>7. \A h \in S : dn[h] = Share(speed'.down, wt[h], sum)
    BY <2>1, <2>3, <2>5, TickShares DEF Draw
  <2>8. Used(speed'.down, LAMBDA h : seeds'[h].down, S)
          <=> speed'.down < SumFunctionOnSet(dn, S) + Cardinality(S)
    BY DEF Used, Sum
  <2>. HIDE DEF E, D, S, wt, dn
  <2>9. sum = SumFunctionOnSet(wt, S)
    BY <2>3, <2>4, <2>5, <2>6, SumOverSupport
  <2>10. sum \in Nat \ {0}
    <3>1. PICK h \in S : TRUE
      OBVIOUS
    <3>2. wt[h] \in Nat \ {0}
      BY <2>3, <2>5, <2>6
    <3>3. S \ {h} \in SUBSET S /\ \A k \in S : wt[k] \in Int /\ wt[k] \in Nat
      BY <2>3, <2>5
    <3>4. SumFunctionOnSet(wt, S) = wt[h] + SumFunctionOnSet(wt, S \ {h})
      BY <2>4, <3>3, SumWithout
    <3>5. SumFunctionOnSet(wt, S \ {h}) \in Nat
      BY <2>4, <3>3, SumOfPart
    <3>. HIDE DEF sum
    <3>. QED  BY <2>9, <3>2, <3>4, <3>5
  <2>. HIDE DEF sum
  <2>11. \A h \in S : wt[h] \in Nat
    BY <2>3, <2>5
  <2>12. speed'.down < SumFunctionOnSet(dn, S) + Cardinality(S)
    BY <2>2, <2>4, <2>7, <2>9, <2>10, <2>11, SharesUse
  <2>. QED  BY <2>8, <2>12
<1>. QED  BY InitIInv, NextIInv, <1>1, PTL DEF Spec, DownloadBudgetUsed

\* No end of a download is forgotten but for want of room in the mailbox.
THEOREM CompletionIsKept == Spec => CompletionKept
<1> DEFINE Kept ==
        \A h \in finished' :
          ~Reported(h)' =>
             \/ h \in finished /\ ~Reported(h)
             \/ Tick /\ Len(mailbox') = Capacity
<1>1. IInv /\ [Next]_vars => [Kept]_vars
  <2>. SUFFICES ASSUME IInv, Next PROVE Kept
    OBVIOUS
  <2>1. /\ CounterInv /\ WeightInv /\ BandInv' /\ Mail(mailbox) /\ FlagInv
    BY NextBand DEF IInv
  <2>2. DOMAIN seeds \subseteq Torrent /\ finished \subseteq DOMAIN seeds
    BY <2>1 DEF CounterInv, Counted, FlagInv
  <2>3. \A h : /\ Reported(h) <=> h \in marked \/ Completed(h) \in ToSet(mailbox)
               /\ Reported(h)' <=> h \in marked' \/ Completed(h) \in ToSet(mailbox')
    BY DEF Reported, Completed, ToSet
  <2>4. ASSUME finished' \subseteq finished,
               \A h \in finished' : h \in marked => h \in marked',
               ToSet(mailbox) \subseteq ToSet(mailbox')
        PROVE  Kept
    BY <2>3, <2>4
  <2>5. /\ Mail(Sent(mailbox, <<Rebuild>>))
        /\ ToSet(mailbox) \subseteq ToSet(Sent(mailbox, <<Rebuild>>))
    BY <2>1, PokeIsMail, SentIsMail
  <2>6. ASSUME NEW h \in Torrent, \/ ReadFlag(h) \/ PersistFails(h) \/ ForceAbsent(h)
                                  \/ \E completed \in BOOLEAN : StoreFlag(h, completed)
        PROVE  Kept
    BY <2>4, <2>6 DEF ReadFlag, PersistFails, ForceAbsent, StoreFlag
  <2>7. ASSUME NEW h \in Torrent, RegisterTorrent(h)
        PROVE  Kept
    BY <2>4, <2>7 DEF RegisterTorrent
  <2>8. ASSUME NEW h \in Torrent, UnregisterTorrent(h)
        PROVE  Kept
    BY <2>4, <2>5, <2>8 DEF UnregisterTorrent
  <2>9. ASSUME NEW h \in Torrent, NEW p \in Peers, UpdateTorrentPeers(h, p)
        PROVE  Kept
    BY <2>4, <2>5, <2>9 DEF UpdateTorrentPeers
  <2>10. CASE AnnouncerUpdated \/ RefreshCurrentBandwidth
    BY <2>4, <2>5, <2>10 DEF AnnouncerUpdated, RefreshCurrentBandwidth
  <2>11. CASE \E l \in Limits : UpdateLimits(l)
    BY <2>4, <2>11 DEF UpdateLimits
  <2>12. CASE Tick
    <3>1. finished' = finished \cup Done(speed')
      BY <2>1, <2>12, TickCounters
    <3>2. /\ ToSet(mailbox) \subseteq ToSet(mailbox')
          /\ Len(mailbox') = Capacity
             \/ \A h \in Done(speed') : Completed(h) \in ToSet(mailbox')
      BY <2>1, <2>12, TickMail
    <3>3. marked' = marked
      BY <2>12 DEF Tick
    <3>. QED  BY <2>3, <2>12, <3>1, <3>2, <3>3
  <2>13. CASE Merge
    <3>1. /\ mailbox # <<>> /\ mailbox' = Tail(mailbox) /\ finished' = finished
          /\ marked' = marked \cup
                       {h \in DOMAIN seeds : Head(mailbox) = Completed(h)}
      BY <2>13 DEF Merge
    <3>2. mailbox \in Seq(Poke)
      BY <2>1 DEF Mail
    <3>3. ASSUME NEW x \in ToSet(mailbox)
          PROVE  x = Head(mailbox) \/ x \in ToSet(Tail(mailbox))
      <4>1. PICK i \in 1..Len(mailbox) : x = mailbox[i]
        BY <3>2, <3>3 DEF ToSet
      <4>2. CASE i = 1
        BY <3>2, <4>1, <4>2
      <4>3. CASE i # 1
        <5>1. /\ DOMAIN Tail(mailbox) = 1..(Len(mailbox) - 1)
              /\ \A j \in 1..(Len(mailbox) - 1) : Tail(mailbox)[j] = mailbox[j + 1]
          BY <3>1, <3>2
        <5>2. i - 1 \in 1..(Len(mailbox) - 1) /\ (i - 1) + 1 = i
          BY <3>2, <4>1, <4>3
        <5>. QED  BY <4>1, <5>1, <5>2 DEF ToSet
      <4>. QED  BY <4>2, <4>3
    <3>4. ASSUME NEW h \in finished, Reported(h)
          PROVE  Reported(h)'
      <4>1. h \in DOMAIN seeds
        BY <2>2
      <4>2. CASE h \in marked
        BY <2>3, <3>1, <4>2
      <4>3. CASE Completed(h) \in ToSet(mailbox)
        BY <2>3, <3>1, <3>3, <4>1, <4>3
      <4>. QED  BY <2>3, <3>4, <4>2, <4>3
    <3>. QED  BY <3>1, <3>4
  <2>14. ASSUME NEW h \in Torrent, ForceInitialCompleted(h)
         PROVE  Kept
    <3> DEFINE poked == Sent(mailbox, <<Rebuild>>)
               check == forcing[h] = "check"
               full  == Len(poked) = Capacity
    <3>1. PICK flipped \in BOOLEAN :
            /\ flipped => check
            /\ mailbox' = IF flipped THEN Sent(poked, <<Completed(h)>>) ELSE poked
            /\ marked' = IF flipped /\ full THEN marked \cup {h} ELSE marked
            /\ finished' = IF flipped THEN finished \cup {h}
                           ELSE IF check THEN finished ELSE finished \ {h}
      <4> DEFINE flip == check /\ ~( /\ seeds[h].left = 0
                                     /\ seeds[h].downloaded = TotalSize[h]
                                     /\ TotalSize[h] > 0)
      <4>1. /\ mailbox' = IF flip THEN Sent(poked, <<Completed(h)>>) ELSE poked
            /\ marked' = IF flip /\ full THEN marked \cup {h} ELSE marked
            /\ finished' = IF flip THEN finished \cup {h}
                           ELSE IF check THEN finished ELSE finished \ {h}
        BY <2>14 DEF ForceInitialCompleted
      <4>2. flip \in BOOLEAN /\ (flip => check)
        OBVIOUS
      <4>. HIDE DEF flip, poked, full, check
      <4>. QED  BY <4>1, <4>2
    <3>2. Mail(poked) /\ ToSet(mailbox) \subseteq ToSet(poked)
      BY <2>5
    <3>. HIDE DEF poked, check
    <3>3. CASE ~flipped
      BY <2>4, <3>1, <3>2, <3>3
    <3>4. CASE flipped
      <4> DEFINE s    == <<Completed(h)>>
                 room == Capacity - Len(poked)
                 n    == IF Len(s) < room THEN Len(s) ELSE room
      <4>1. /\ ToSet(poked) \subseteq ToSet(mailbox')
            /\ \A i \in 1..n : s[i] \in ToSet(mailbox')
        <5>1. mailbox' = Sent(poked, s) /\ s \in Seq(Poke)
          BY <3>1, <3>4, PokeIsMail
        <5>. HIDE DEF s
        <5>. QED  BY <3>2, <5>1, SentIsMail
      <4>2. CASE full
        BY <2>3, <3>1, <3>2, <3>4, <4>1, <4>2
      <4>3. CASE ~full
        <5>1. Len(poked) \in Nat /\ Len(poked) < Capacity /\ Capacity \in Nat
          BY <3>2, <4>3, DispatcherAssumption DEF Mail
        <5>2. Len(s) = 1 /\ s[1] = Completed(h)
          OBVIOUS
        <5>. HIDE DEF s
        <5>3. n = 1
          BY <5>1, <5>2
        <5>4. Completed(h) \in ToSet(mailbox')
          BY <4>1, <5>2, <5>3
        <5>. QED  BY <2>3, <3>1, <3>2, <3>4, <4>1, <4>3, <5>4
      <4>. QED  BY <4>2, <4>3
    <3>. QED  BY <3>3, <3>4
  <2>. QED  BY <2>6, <2>7, <2>8, <2>9, <2>10, <2>11, <2>12, <2>13, <2>14 DEF Next
<1>. QED  BY InitIInv, NextIInv, <1>1, PTL DEF Spec, CompletionKept
=============================================================================
