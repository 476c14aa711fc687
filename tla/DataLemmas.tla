----------------------------- MODULE DataLemmas -----------------------------
(***************************************************************************)
(* Facts about numbers, sequences and sums that the proofs about several   *)
(* components need.  An induction is spelled out as the choice of a least  *)
(* counterexample, and a sum over a finite set is shown to be what its     *)
(* recursive definition says.                                              *)
(***************************************************************************)
EXTENDS Integers, FiniteSets, SequencesExt, SequenceTheorems, FiniteSetTheorems,
        WellFoundedInduction, TLAPS

-----------------------------------------------------------------------------
(* Least elements. *)

\* Among the subsets of a finite set that a set of them has, one is least.
LEMMA LeastSubset ==
    ASSUME NEW S, IsFiniteSet(S), NEW C, \A y \in C : y \subseteq S, C # {}
    PROVE  \E x \in C : \A y \in C : ~(y \subseteq x /\ y # x)
<1>1. FiniteSubsetsOf(S) = SUBSET S
  BY FS_FiniteSubsetsOfFinite
<1>2. IsWellFoundedOn(StrictSubsetOrdering(S), SUBSET S)
  BY <1>1, FS_StrictSubsetOrderingWellFounded
<1>3. PICK x \in C : \A y \in C : ~(<<y, x>> \in StrictSubsetOrdering(S))
  <2>1. C \subseteq SUBSET S
    OBVIOUS
  <2>. QED BY <1>2, <2>1, WFMin
<1>4. ASSUME NEW y \in C, y \subseteq x, y # x PROVE FALSE
  BY <1>3, <1>4 DEF StrictSubsetOrdering
<1>. QED BY <1>4

\* A set of numbers that is not empty has a least one.
LEMMA LeastNumber ==
    ASSUME NEW S \in SUBSET Nat, S # {}
    PROVE  \E n \in S : \A j \in S : n <= j
<1>1. PICK m \in S : TRUE
  OBVIOUS
<1>. DEFINE T == {0..i : i \in {j \in S : j <= m}}
<1>2. /\ \A i \in S : i <= m => 0..i \in T
      /\ \A y \in T : y \subseteq 0..m /\ \E i \in S : i <= m /\ y = 0..i
      /\ 0..m \in T
  OBVIOUS
<1>. HIDE DEF T
<1>3. PICK x \in T : \A y \in T : ~(y \subseteq x /\ y # x)
  <2>1. (\A y \in T : y \subseteq 0..m) /\ T # {}
    BY <1>2
  <2>2. IsFiniteSet(0..m)
    BY FS_Interval
  <2>. QED BY <2>1, <2>2, LeastSubset
<1>4. PICK i \in S : i <= m /\ x = 0..i
  BY <1>2, <1>3
<1>5. ASSUME NEW j \in S, j < i PROVE FALSE
  <2>1. (0..j) \subseteq (0..i) /\ (0..j) # (0..i) /\ j <= m
    BY <1>4, <1>5
  <2>. QED BY <1>2, <1>3, <1>4, <2>1
<1>. QED BY <1>5

-----------------------------------------------------------------------------
(* Sequences. *)

\* A concatenation holds what its two parts hold.
LEMMA ConcatSet ==
    ASSUME NEW S, NEW a \in Seq(S), NEW b \in Seq(S)
    PROVE  a \o b \in Seq(S) /\ ToSet(a \o b) = ToSet(a) \cup ToSet(b)
<1>. DEFINE c == a \o b
<1>1. /\ Len(a) \in Nat /\ Len(b) \in Nat
      /\ DOMAIN a = 1..Len(a) /\ DOMAIN b = 1..Len(b)
      /\ DOMAIN c = 1..(Len(a) + Len(b)) /\ c \in Seq(S)
      /\ \A i \in 1..(Len(a) + Len(b)) : c[i] = IF i <= Len(a) THEN a[i] ELSE b[i - Len(a)]
  BY ConcatProperties, LenProperties
<1>. HIDE DEF c
<1>2. ASSUME NEW i \in DOMAIN a PROVE a[i] \in ToSet(c)
  <2>1. i \in DOMAIN c /\ c[i] = a[i]
    BY <1>1
  <2>. QED BY <2>1 DEF ToSet
<1>3. ASSUME NEW i \in DOMAIN b PROVE b[i] \in ToSet(c)
  <2>. DEFINE j == i + Len(a)
  <2>1. j \in 1..(Len(a) + Len(b)) /\ ~(j <= Len(a)) /\ j - Len(a) = i
    BY <1>1
  <2>. HIDE DEF j
  <2>2. j \in DOMAIN c /\ c[j] = b[i]
    BY <1>1, <2>1
  <2>. QED BY <2>2 DEF ToSet
<1>4. ASSUME NEW i \in DOMAIN c
      PROVE  \/ i \in DOMAIN a /\ c[i] = a[i]
             \/ i - Len(a) \in DOMAIN b /\ c[i] = b[i - Len(a)]
  BY <1>1
<1>5. ToSet(c) \subseteq ToSet(a) \cup ToSet(b)
  BY <1>4 DEF ToSet
<1>6. ToSet(a) \cup ToSet(b) \subseteq ToSet(c)
  BY <1>2, <1>3 DEF ToSet
<1>. QED BY <1>1, <1>5, <1>6 DEF c

\* The two parts of a sequence that is split.
LEMMA SplitParts ==
    ASSUME NEW S, NEW s \in Seq(S), NEW n \in 0..Len(s)
    PROVE  LET a == SubSeq(s, 1, n)
               b == SubSeq(s, n + 1, Len(s))
           IN  /\ a \in Seq(S) /\ Len(a) = n /\ \A i \in 1..n : a[i] = s[i]
               /\ b \in Seq(S) /\ Len(b) = Len(s) - n
               /\ \A i \in 1..(Len(s) - n) : b[i] = s[n + i]
<1>1. Len(s) \in Nat /\ DOMAIN s = 1..Len(s) /\ \A i \in 1..Len(s) : s[i] \in S
  BY LenProperties, ElementOfSeq
<1>. DEFINE a == SubSeq(s, 1, n)
            b == SubSeq(s, n + 1, Len(s))
<1>2. a \in Seq(S) /\ Len(a) = n /\ \A i \in 1..n : a[i] = s[i]
  <2>1. /\ a \in Seq(S) /\ Len(a) = (IF 1 <= n THEN n - 1 + 1 ELSE 0)
        /\ \A i \in 1..(n - 1 + 1) : a[i] = s[1 + i - 1]
    BY <1>1, SubSeqProperties
  <2>. QED BY <1>1, <2>1
<1>3. b \in Seq(S) /\ Len(b) = Len(s) - n /\ \A i \in 1..(Len(s) - n) : b[i] = s[n + i]
  <2>1. /\ b \in Seq(S)
        /\ Len(b) = (IF n + 1 <= Len(s) THEN Len(s) - (n + 1) + 1 ELSE 0)
        /\ \A i \in 1..(Len(s) - (n + 1) + 1) : b[i] = s[n + 1 + i - 1]
    BY <1>1, SubSeqProperties
  <2>. HIDE DEF b
  <2>2. Len(b) = Len(s) - n
    <3>1. Len(s) \in Nat /\ n \in Nat /\ n <= Len(s)
      BY <1>1
    <3>2. CASE n + 1 <= Len(s)
      BY <2>1, <3>1, <3>2
    <3>3. CASE ~(n + 1 <= Len(s))
      <4>1. n = Len(s) /\ Len(b) = 0
        BY <2>1, <3>1, <3>3
      <4>. QED BY <3>1, <4>1
    <3>. QED BY <3>2, <3>3
  <2>3. ASSUME NEW i \in 1..(Len(s) - n) PROVE b[i] = s[n + i]
    <3>1. i \in 1..(Len(s) - (n + 1) + 1) /\ n + 1 + i - 1 = n + i
      BY <1>1
    <3>. QED BY <2>1, <3>1
  <2>. QED BY <2>1, <2>2, <2>3
<1>. QED BY <1>2, <1>3

\* A sequence that is split holds what its two parts hold.
LEMMA SplitSet ==
    ASSUME NEW S, NEW s \in Seq(S), NEW n \in 0..Len(s)
    PROVE  /\ SubSeq(s, 1, n) \in Seq(S) /\ SubSeq(s, n + 1, Len(s)) \in Seq(S)
           /\ ToSet(s) = ToSet(SubSeq(s, 1, n)) \cup ToSet(SubSeq(s, n + 1, Len(s)))
<1>1. Len(s) \in Nat /\ DOMAIN s = 1..Len(s)
  BY LenProperties
<1>. DEFINE a == SubSeq(s, 1, n)
            b == SubSeq(s, n + 1, Len(s))
<1>2. a \in Seq(S) /\ DOMAIN a = 1..n /\ \A i \in 1..n : a[i] = s[i]
  BY SplitParts, LenProperties
<1>3. b \in Seq(S) /\ DOMAIN b = 1..(Len(s) - n) /\ \A i \in 1..(Len(s) - n) : b[i] = s[n + i]
  BY SplitParts, LenProperties
<1>. HIDE DEF a, b
<1>4. ASSUME NEW i \in DOMAIN s PROVE s[i] \in ToSet(a) \cup ToSet(b)
  <2>1. CASE i <= n
    <3>1. i \in DOMAIN a /\ a[i] = s[i]
      BY <1>1, <1>2, <2>1
    <3>. QED BY <3>1 DEF ToSet
  <2>2. CASE ~(i <= n)
    <3>1. i - n \in DOMAIN b /\ b[i - n] = s[i]
      BY <1>1, <1>3, <2>2
    <3>. QED BY <3>1 DEF ToSet
  <2>. QED BY <2>1, <2>2
<1>5. \A i \in DOMAIN a : i \in DOMAIN s /\ a[i] = s[i]
  BY <1>1, <1>2
<1>6. \A i \in DOMAIN b : n + i \in DOMAIN s /\ b[i] = s[n + i]
  <2>1. ASSUME NEW i \in DOMAIN b PROVE n + i \in DOMAIN s
    <3>1. i \in Nat /\ 1 <= i /\ i <= Len(s) - n
      BY <1>1, <1>3
    <3>. QED BY <1>1, <3>1
  <2>. QED BY <1>3, <2>1
<1>7. ToSet(s) \subseteq ToSet(a) \cup ToSet(b)
  BY <1>4 DEF ToSet
<1>8. ToSet(a) \subseteq ToSet(s) /\ ToSet(b) \subseteq ToSet(s)
  BY <1>5, <1>6 DEF ToSet
<1>. QED BY <1>2, <1>3, <1>7, <1>8 DEF a, b

\* A sequence of nothing, and one of one element.
LEMMA ShortSet ==
    ASSUME NEW S
    PROVE  /\ <<>> \in Seq(S) /\ ToSet(<<>>) = {}
           /\ \A r \in S : <<r>> \in Seq(S) /\ ToSet(<<r>>) = {r}
<1>. QED BY DEF ToSet

-----------------------------------------------------------------------------
(* Sums over a finite set. *)

\* The recursive definition that SumFunctionOnSet takes its value from.
Adds(f, S, g) ==
    g = [s \in SUBSET S |->
            IF s = {} THEN 0
            ELSE f[CHOOSE x \in s : TRUE] + g[s \ {CHOOSE x \in s : TRUE}]]

LEMMA SumUnfold ==
    ASSUME NEW f, NEW S
    PROVE  SumFunctionOnSet(f, S) = (CHOOSE g : Adds(f, S, g))[S]
<1>. QED BY DEF SumFunctionOnSet, FoldFunctionOnSet, MapThenFoldSet, Adds

\* Two such functions agree where both are defined.
LEMMA AddsAgree ==
    ASSUME NEW f, NEW A, NEW B, NEW g, NEW h, Adds(f, A, g), Adds(f, B, h),
           NEW S, IsFiniteSet(S), S \subseteq A, S \subseteq B
    PROVE  g[S] = h[S]
<1>. DEFINE C == {s \in SUBSET S : g[s] # h[s]}
<1>1. SUFFICES ASSUME C # {} PROVE FALSE
  OBVIOUS
<1>2. PICK s \in C : \A y \in C : ~(y \subseteq s /\ y # s)
  <2>1. \A y \in C : y \subseteq S
    OBVIOUS
  <2>. HIDE DEF C
  <2>. QED BY <1>1, <2>1, LeastSubset
<1>. DEFINE c == CHOOSE x \in s : TRUE
<1>3. /\ g[s] = IF s = {} THEN 0 ELSE f[c] + g[s \ {c}]
      /\ h[s] = IF s = {} THEN 0 ELSE f[c] + h[s \ {c}]
  <2>1. s \in SUBSET A /\ s \in SUBSET B
    OBVIOUS
  <2>. QED BY <2>1 DEF Adds
<1>4. s # {}
  BY <1>3
<1>5. c \in s
  BY <1>4
<1>. HIDE DEF c
<1>6. s \ {c} \in SUBSET S /\ s \ {c} \subseteq s /\ s \ {c} # s
  BY <1>5
<1>7. g[s \ {c}] = h[s \ {c}]
  BY <1>2, <1>6
<1>. QED BY <1>3, <1>4, <1>7

\* There is one, for each finite set.
LEMMA AddsExists ==
    ASSUME NEW f, NEW S, IsFiniteSet(S)
    PROVE  Adds(f, S, CHOOSE g : Adds(f, S, g))
<1>. DEFINE C == {s \in SUBSET S : ~ \E g : Adds(f, s, g)}
<1>1. SUFFICES ASSUME C # {} PROVE FALSE
  <2>1. S \notin C
    BY <1>1
  <2>2. \E g : Adds(f, S, g)
    BY <2>1
  <2>. QED BY <2>2
<1>2. PICK T \in C : \A y \in C : ~(y \subseteq T /\ y # T)
  <2>1. \A y \in C : y \subseteq S
    OBVIOUS
  <2>. HIDE DEF C
  <2>. QED BY <1>1, <2>1, LeastSubset
<1>. DEFINE V(s) == (CHOOSE g : Adds(f, s, g))[s]
            c(s) == CHOOSE x \in s : TRUE
            h == [s \in SUBSET T |-> IF s = {} THEN 0 ELSE f[c(s)] + V(s \ {c(s)})]
<1>3. ASSUME NEW s \in SUBSET T, s # T
      PROVE  Adds(f, s, CHOOSE g : Adds(f, s, g)) /\ IsFiniteSet(s)
  <2>1. s \in SUBSET S
    OBVIOUS
  <2>2. s \notin C
    BY <1>2, <1>3
  <2>3. \E g : Adds(f, s, g)
    BY <2>1, <2>2
  <2>4. IsFiniteSet(s)
    BY <2>1, FS_Subset
  <2>. QED BY <2>3, <2>4
<1>4. ASSUME NEW s \in SUBSET T, s # {} PROVE V(s \ {c(s)}) = h[s \ {c(s)}]
  <2>. DEFINE d == c(s)
  <2>1. d \in s
    BY <1>4
  <2>. HIDE DEF d
  <2>. DEFINE t == s \ {d}
  <2>2. t \in SUBSET T /\ t # T
    BY <2>1
  <2>3. PICK g : g = CHOOSE k : Adds(f, t, k)
    OBVIOUS
  <2>4. Adds(f, t, g) /\ V(t) = g[t]
    BY <1>3, <2>2, <2>3
  <2>5. g[t] = IF t = {} THEN 0 ELSE f[c(t)] + g[t \ {c(t)}]
    <3>1. t \in SUBSET t
      OBVIOUS
    <3>. QED BY <2>4, <3>1 DEF Adds
  <2>6. ASSUME t # {} PROVE g[t \ {c(t)}] = V(t \ {c(t)})
    <3>. DEFINE u == t \ {c(t)}
    <3>1. u \in SUBSET t /\ u \in SUBSET T /\ u # T
      BY <2>2
    <3>. HIDE DEF u
    <3>2. PICK k : k = CHOOSE j : Adds(f, u, j)
      OBVIOUS
    <3>3. Adds(f, u, k) /\ IsFiniteSet(u) /\ V(u) = k[u]
      BY <1>3, <3>1, <3>2
    <3>4. g[u] = k[u]
      BY <2>4, <3>1, <3>3, AddsAgree
    <3>. QED BY <3>3, <3>4 DEF u
  <2>7. h[t] = IF t = {} THEN 0 ELSE f[c(t)] + V(t \ {c(t)})
    BY <2>2
  <2>8. V(t) = h[t]
    <3>. HIDE DEF V, c, h, t
    <3>. QED BY <2>4, <2>5, <2>6, <2>7
  <2>. QED BY <2>8 DEF d
<1>5. Adds(f, T, h)
  <2>. HIDE DEF V, c
  <2>1. ASSUME NEW s \in SUBSET T
        PROVE  h[s] = IF s = {} THEN 0 ELSE f[c(s)] + h[s \ {c(s)}]
    <3>1. h[s] = IF s = {} THEN 0 ELSE f[c(s)] + V(s \ {c(s)})
      OBVIOUS
    <3>. HIDE DEF h
    <3>. QED BY <1>4, <3>1
  <2>2. h = [s \in SUBSET T |-> h[s]]
    OBVIOUS
  <2>. HIDE DEF h
  <2>. QED BY <2>1, <2>2 DEF Adds, c
<1>6. T \notin C
  <2>. HIDE DEF h
  <2>. QED BY <1>5
<1>. QED BY <1>6

\* A sum over no element, and over some.
LEMMA SumOfChosen ==
    ASSUME NEW f, NEW S, IsFiniteSet(S)
    PROVE  SumFunctionOnSet(f, S) =
              IF S = {} THEN 0
              ELSE f[CHOOSE x \in S : TRUE] + SumFunctionOnSet(f, S \ {CHOOSE x \in S : TRUE})
<1>. DEFINE c == CHOOSE x \in S : TRUE
            T == S \ {c}
<1>1. PICK g : g = CHOOSE k : Adds(f, S, k)
  OBVIOUS
<1>2. PICK h : h = CHOOSE k : Adds(f, T, k)
  OBVIOUS
<1>3. IsFiniteSet(T) /\ T \subseteq S
  BY FS_Subset
<1>. HIDE DEF T
<1>4. Adds(f, S, g) /\ Adds(f, T, h)
  BY <1>1, <1>2, <1>3, AddsExists
<1>5. SumFunctionOnSet(f, S) = g[S] /\ SumFunctionOnSet(f, T) = h[T]
  BY <1>1, <1>2, SumUnfold
<1>6. g[S] = IF S = {} THEN 0 ELSE f[c] + g[T]
  <2>1. S \in SUBSET S
    OBVIOUS
  <2>. QED BY <1>4, <2>1 DEF Adds, T
<1>7. g[T] = h[T]
  BY <1>3, <1>4, AddsAgree
<1>. QED BY <1>5, <1>6, <1>7 DEF T

\* A sum of numbers is a number.
LEMMA SumType ==
    ASSUME NEW f, NEW S, IsFiniteSet(S), \A x \in S : f[x] \in Nat
    PROVE  SumFunctionOnSet(f, S) \in Nat
<1>. DEFINE C == {s \in SUBSET S : SumFunctionOnSet(f, s) \notin Nat}
<1>1. SUFFICES ASSUME C # {} PROVE FALSE
  OBVIOUS
<1>2. PICK s \in C : \A y \in C : ~(y \subseteq s /\ y # s)
  <2>1. \A y \in C : y \subseteq S
    OBVIOUS
  <2>. HIDE DEF C
  <2>. QED BY <1>1, <2>1, LeastSubset
<1>. DEFINE c == CHOOSE x \in s : TRUE
            t == s \ {c}
<1>3. SumFunctionOnSet(f, s) = IF s = {} THEN 0 ELSE f[c] + SumFunctionOnSet(f, t)
  <2>1. IsFiniteSet(s)
    BY FS_Subset
  <2>. QED BY <2>1, SumOfChosen
<1>4. s # {}
  BY <1>3
<1>5. c \in s
  BY <1>4
<1>. HIDE DEF c
<1>6. t \in SUBSET S /\ t \subseteq s /\ t # s
  BY <1>5
<1>. HIDE DEF t
<1>7. SumFunctionOnSet(f, t) \in Nat
  BY <1>2, <1>6
<1>. QED BY <1>3, <1>4, <1>5, <1>7

\* Any element may be taken off first.
LEMMA SumTakeOff ==
    ASSUME NEW f, NEW S, IsFiniteSet(S), \A x \in S : f[x] \in Nat, NEW e \in S
    PROVE  SumFunctionOnSet(f, S) = f[e] + SumFunctionOnSet(f, S \ {e})
<1>. DEFINE C == {s \in SUBSET S :
                    \E x \in s : SumFunctionOnSet(f, s) # f[x] + SumFunctionOnSet(f, s \ {x})}
<1>1. SUFFICES ASSUME C # {} PROVE FALSE
  <2>1. S \notin C
    BY <1>1
  <2>. QED BY <2>1
<1>2. PICK s \in C : \A y \in C : ~(y \subseteq s /\ y # s)
  <2>1. \A y \in C : y \subseteq S
    OBVIOUS
  <2>. HIDE DEF C
  <2>. QED BY <1>1, <2>1, LeastSubset
<1>3. PICK x \in s : SumFunctionOnSet(f, s) # f[x] + SumFunctionOnSet(f, s \ {x})
  OBVIOUS
<1>. DEFINE c == CHOOSE y \in s : TRUE
<1>4. c \in s /\ x \in s /\ s \subseteq S
  BY <1>3
<1>5. SumFunctionOnSet(f, s) = f[c] + SumFunctionOnSet(f, s \ {c})
  <2>1. IsFiniteSet(s)
    BY FS_Subset
  <2>. QED BY <1>4, <2>1, SumOfChosen
<1>. HIDE DEF c
<1>6. c # x
  BY <1>3, <1>5
<1>7. ASSUME NEW y \in s, NEW z \in s, y # z
      PROVE  SumFunctionOnSet(f, s \ {y}) = f[z] + SumFunctionOnSet(f, s \ {y, z})
  <2>. DEFINE t == s \ {y}
  <2>1. t \in SUBSET S /\ t \subseteq s /\ t # s /\ z \in t /\ t \ {z} = s \ {y, z}
    BY <1>7, <1>4
  <2>2. t \notin C
    <3>. HIDE DEF t, C
    <3>. QED BY <1>2, <2>1
  <2>3. SumFunctionOnSet(f, t) = f[z] + SumFunctionOnSet(f, t \ {z})
    <3>. HIDE DEF t
    <3>. QED BY <2>1, <2>2
  <2>. QED BY <2>1, <2>3
<1>. HIDE DEF C
<1>8. PICK m : m = SumFunctionOnSet(f, s \ {c, x})
  OBVIOUS
<1>9. m \in Nat /\ f[c] \in Nat /\ f[x] \in Nat
  <2>1. s \ {c, x} \subseteq S /\ IsFiniteSet(s \ {c, x})
    BY <1>4, FS_Subset
  <2>2. SumFunctionOnSet(f, s \ {c, x}) \in Nat
    BY <2>1, SumType
  <2>. QED BY <1>4, <1>8, <2>2
<1>10. /\ SumFunctionOnSet(f, s \ {c}) = f[x] + m
       /\ SumFunctionOnSet(f, s \ {x}) = f[c] + m
  <2>1. s \ {x, c} = s \ {c, x}
    OBVIOUS
  <2>. QED BY <1>4, <1>6, <1>7, <1>8, <2>1
<1>11. f[c] + (f[x] + m) = f[x] + (f[c] + m)
  BY <1>9
<1>. QED BY <1>3, <1>5, <1>10, <1>11

\* A sum depends only on the numbers that are added.
LEMMA SumSame ==
    ASSUME NEW f, NEW g, NEW S, IsFiniteSet(S), \A x \in S : f[x] = g[x]
    PROVE  SumFunctionOnSet(f, S) = SumFunctionOnSet(g, S)
<1>. DEFINE C == {s \in SUBSET S : SumFunctionOnSet(f, s) # SumFunctionOnSet(g, s)}
<1>1. SUFFICES ASSUME C # {} PROVE FALSE
  OBVIOUS
<1>2. PICK s \in C : \A y \in C : ~(y \subseteq s /\ y # s)
  <2>1. \A y \in C : y \subseteq S
    OBVIOUS
  <2>. HIDE DEF C
  <2>. QED BY <1>1, <2>1, LeastSubset
<1>. DEFINE c == CHOOSE x \in s : TRUE
            t == s \ {c}
<1>3. /\ SumFunctionOnSet(f, s) = IF s = {} THEN 0 ELSE f[c] + SumFunctionOnSet(f, t)
      /\ SumFunctionOnSet(g, s) = IF s = {} THEN 0 ELSE g[c] + SumFunctionOnSet(g, t)
  <2>1. IsFiniteSet(s)
    BY FS_Subset
  <2>. QED BY <2>1, SumOfChosen
<1>4. s # {}
  BY <1>3
<1>5. c \in s /\ s \subseteq S
  BY <1>4
<1>. HIDE DEF c
<1>6. t \in SUBSET S /\ t \subseteq s /\ t # s
  BY <1>5
<1>. HIDE DEF t
<1>7. SumFunctionOnSet(f, t) = SumFunctionOnSet(g, t)
  BY <1>2, <1>6
<1>. QED BY <1>3, <1>4, <1>5, <1>7

\* When one of the numbers changes, so does the sum.
LEMMA SumChange ==
    ASSUME NEW f, NEW g, NEW S, IsFiniteSet(S), NEW e \in S,
           \A x \in S : f[x] \in Nat /\ g[x] \in Nat,
           \A x \in S \ {e} : f[x] = g[x]
    PROVE  SumFunctionOnSet(f, S) + g[e] = SumFunctionOnSet(g, S) + f[e]
<1>. DEFINE T == S \ {e}
<1>1. IsFiniteSet(T) /\ T \subseteq S
  BY FS_Subset
<1>2. SumFunctionOnSet(f, T) = SumFunctionOnSet(g, T) /\ SumFunctionOnSet(f, T) \in Nat
  BY <1>1, SumSame, SumType
<1>3. /\ SumFunctionOnSet(f, S) = f[e] + SumFunctionOnSet(f, T)
      /\ SumFunctionOnSet(g, S) = g[e] + SumFunctionOnSet(g, T)
  BY SumTakeOff
<1>4. f[e] \in Nat /\ g[e] \in Nat
  OBVIOUS
<1>. HIDE DEF T
<1>. QED BY <1>2, <1>3, <1>4

\* One more of what a sum counts makes it greater by one.
LEMMA SumGrows ==
    ASSUME NEW f, NEW g, NEW S, IsFiniteSet(S), NEW e, NEW d \in Nat,
           \A x \in S : f[x] \in Nat, g[e] \in Nat, \A x \in S \ {e} : f[x] = g[x],
           e \in S => g[e] = f[e] + d, e \notin S => g[e] = d
    PROVE  SumFunctionOnSet(g, S \cup {e}) = SumFunctionOnSet(f, S) + d
<1>. DEFINE T == S \ {e}
<1>1. IsFiniteSet(T) /\ IsFiniteSet(S \cup {e}) /\ (S \cup {e}) \ {e} = T
  BY FS_Subset, FS_AddElement
<1>2. SumFunctionOnSet(f, T) = SumFunctionOnSet(g, T) /\ SumFunctionOnSet(f, T) \in Nat
  BY <1>1, SumSame, SumType
<1>3. SumFunctionOnSet(g, S \cup {e}) = g[e] + SumFunctionOnSet(g, T)
  <2>1. \A x \in S \cup {e} : g[x] \in Nat
    OBVIOUS
  <2>2. SumFunctionOnSet(g, S \cup {e}) = g[e] + SumFunctionOnSet(g, (S \cup {e}) \ {e})
    BY <1>1, <2>1, SumTakeOff
  <2>. QED BY <1>1, <2>2
<1>4. CASE e \in S
  <2>1. SumFunctionOnSet(f, S) = f[e] + SumFunctionOnSet(f, T)
    BY <1>4, SumTakeOff
  <2>. HIDE DEF T
  <2>2. f[e] \in Nat /\ g[e] = f[e] + d
    BY <1>4
  <2>. QED BY <1>2, <1>3, <2>1, <2>2
<1>5. CASE e \notin S
  <2>1. T = S /\ g[e] = d
    BY <1>5
  <2>. HIDE DEF T
  <2>. QED BY <1>2, <1>3, <2>1
<1>. QED BY <1>4, <1>5

\* A sum is not less than the number of its terms that are not zero.
LEMMA SumCounts ==
    ASSUME NEW f, NEW S, IsFiniteSet(S), \A x \in S : f[x] \in Nat,
           NEW T, T \subseteq S, \A x \in T : f[x] > 0
    PROVE  Cardinality(T) <= SumFunctionOnSet(f, S)
<1>. DEFINE C == {s \in SUBSET S : ~(Cardinality(T \cap s) <= SumFunctionOnSet(f, s))}
<1>1. SUFFICES ASSUME C # {} PROVE FALSE
  <2>1. S \notin C
    BY <1>1
  <2>2. T \cap S = T
    OBVIOUS
  <2>. QED BY <2>1, <2>2
<1>2. PICK s \in C : \A y \in C : ~(y \subseteq s /\ y # s)
  <2>1. \A y \in C : y \subseteq S
    OBVIOUS
  <2>. HIDE DEF C
  <2>. QED BY <1>1, <2>1, LeastSubset
<1>3. IsFiniteSet(s) /\ s \subseteq S /\ ~(Cardinality(T \cap s) <= SumFunctionOnSet(f, s))
  BY FS_Subset
<1>4. s # {}
  <2>1. ASSUME s = {} PROVE FALSE
    <3>1. T \cap s = {} /\ IsFiniteSet({})
      BY <2>1, FS_EmptySet
    <3>2. Cardinality({}) = 0 /\ SumFunctionOnSet(f, {}) = 0
      BY <3>1, FS_EmptySet, SumOfChosen
    <3>. QED BY <1>3, <2>1, <3>1, <3>2
  <2>. QED BY <2>1
<1>5. PICK c \in s : TRUE
  BY <1>4
<1>. DEFINE t == s \ {c}
<1>6. t \in SUBSET S /\ t \subseteq s /\ t # s /\ IsFiniteSet(t) /\ IsFiniteSet(T \cap t)
  BY <1>3, <1>5, FS_Subset
<1>7. t \notin C
  <2>. HIDE DEF t, C
  <2>. QED BY <1>2, <1>6
<1>8. Cardinality(T \cap t) <= SumFunctionOnSet(f, t)
  BY <1>6, <1>7
<1>9. SumFunctionOnSet(f, s) = f[c] + SumFunctionOnSet(f, t)
  BY <1>3, <1>5, SumTakeOff
<1>10. /\ f[c] \in Nat /\ SumFunctionOnSet(f, t) \in Nat /\ Cardinality(T \cap t) \in Nat
       /\ c \in T => f[c] > 0
  BY <1>3, <1>5, <1>6, SumType, FS_CardinalityType
<1>11. CASE c \in T
  <2>1. T \cap s = (T \cap t) \cup {c} /\ c \notin T \cap t
    BY <1>5, <1>11
  <2>2. Cardinality(T \cap s) = Cardinality(T \cap t) + 1
    BY <1>6, <2>1, FS_AddElement
  <2>. HIDE DEF t, C
  <2>. QED BY <1>3, <1>8, <1>9, <1>10, <1>11, <2>2
<1>12. CASE c \notin T
  <2>1. T \cap s = T \cap t
    BY <1>5, <1>12
  <2>. HIDE DEF t, C
  <2>. QED BY <1>3, <1>8, <1>9, <1>10, <2>1
<1>. QED BY <1>11, <1>12

\* A part of the terms adds up to no more than all of them.
LEMMA SumSubset ==
    ASSUME NEW f, NEW S, IsFiniteSet(S), \A x \in S : f[x] \in Nat, NEW T \in SUBSET S
    PROVE  SumFunctionOnSet(f, T) <= SumFunctionOnSet(f, S)
<1>. DEFINE C == {s \in SUBSET S : ~(SumFunctionOnSet(f, T \cap s) <= SumFunctionOnSet(f, s))}
<1>1. SUFFICES ASSUME C # {} PROVE FALSE
  <2>1. S \notin C
    BY <1>1
  <2>2. T \cap S = T
    OBVIOUS
  <2>. QED BY <2>1, <2>2
<1>2. PICK s \in C : \A y \in C : ~(y \subseteq s /\ y # s)
  <2>1. \A y \in C : y \subseteq S
    OBVIOUS
  <2>. HIDE DEF C
  <2>. QED BY <1>1, <2>1, LeastSubset
<1>3. /\ IsFiniteSet(s) /\ s \subseteq S
      /\ ~(SumFunctionOnSet(f, T \cap s) <= SumFunctionOnSet(f, s))
  BY FS_Subset
<1>4. s # {}
  <2>1. ASSUME s = {} PROVE FALSE
    <3>1. T \cap s = {} /\ IsFiniteSet({})
      BY <2>1, FS_EmptySet
    <3>2. SumFunctionOnSet(f, {}) = 0
      BY <3>1, SumOfChosen
    <3>. QED BY <1>3, <2>1, <3>1, <3>2
  <2>. QED BY <2>1
<1>5. PICK c \in s : TRUE
  BY <1>4
<1>. DEFINE t == s \ {c}
<1>6. /\ t \in SUBSET S /\ t \subseteq s /\ t # s /\ IsFiniteSet(t)
      /\ IsFiniteSet(T \cap t) /\ IsFiniteSet(T \cap s)
  BY <1>3, <1>5, FS_Subset
<1>7. t \notin C
  <2>. HIDE DEF t, C
  <2>. QED BY <1>2, <1>6
<1>8. SumFunctionOnSet(f, T \cap t) <= SumFunctionOnSet(f, t)
  BY <1>6, <1>7
<1>9. SumFunctionOnSet(f, s) = f[c] + SumFunctionOnSet(f, t)
  BY <1>3, <1>5, SumTakeOff
<1>10. PICK a \in Nat, b \in Nat, d \in Nat, u \in Nat :
          /\ a = f[c] /\ b = SumFunctionOnSet(f, t) /\ d = SumFunctionOnSet(f, T \cap t)
          /\ u = SumFunctionOnSet(f, T \cap s)
  <2>1. \A x \in t : f[x] \in Nat
    BY <1>6
  <2>2. (\A x \in T \cap t : f[x] \in Nat) /\ \A x \in T \cap s : f[x] \in Nat
    BY <1>6
  <2>. QED BY <1>3, <1>5, <1>6, <2>1, <2>2, SumType
<1>13. a \in Nat /\ b \in Nat /\ d \in Nat /\ d <= b /\ ~(u <= a + b)
  <2>1. d <= b
    BY <1>8, <1>10, Zenon
  <2>2. ~(u <= a + b)
    BY <1>3, <1>9, <1>10, Zenon
  <2>. QED BY <2>1, <2>2
<1>11. CASE c \in T
  <2>1. c \in T \cap s /\ (T \cap s) \ {c} = T \cap t /\ \A x \in T \cap s : f[x] \in Nat
    BY <1>5, <1>11
  <2>2. SumFunctionOnSet(f, T \cap s) = f[c] + SumFunctionOnSet(f, (T \cap s) \ {c})
    BY <1>6, <2>1, SumTakeOff
  <2>3. u = a + d
    BY <1>10, <2>1, <2>2, Zenon
  <2>. QED BY ONLY <2>3, <1>13
<1>12. CASE c \notin T
  <2>1. T \cap s = T \cap t
    BY <1>5, <1>12
  <2>2. u = d
    BY <1>10, <2>1, Zenon
  <2>. QED BY ONLY <2>2, <1>13
<1>. QED BY <1>11, <1>12

-----------------------------------------------------------------------------
(* Sums over a sequence, from left to right. *)

\* A set of indices has a last one.
LEMMA LastIndex ==
    ASSUME NEW n \in Nat, NEW s \in SUBSET (1..n), s # {}
    PROVE  Max(s) \in s /\ \A i \in s : i <= Max(s)
<1>. DEFINE T == {k \in 0..n : n - k \in s}
<1>1. PICK i \in s : TRUE
  OBVIOUS
<1>2. n - i \in T /\ T \in SUBSET Nat
  OBVIOUS
<1>3. PICK k \in T : \A j \in T : k <= j
  <2>1. T # {}
    BY <1>2
  <2>. HIDE DEF T
  <2>. QED BY <1>2, <2>1, LeastNumber
<1>4. n - k \in s /\ \A j \in s : n - k >= j
  <2>1. ASSUME NEW j \in s PROVE n - k >= j
    <3>1. n - j \in T
      OBVIOUS
    <3>2. k <= n - j
      BY <1>3, <3>1
    <3>. QED BY <3>2
  <2>. QED BY <2>1
<1>5. Max(s) \in s /\ \A j \in s : Max(s) >= j
  BY <1>4 DEF Max
<1>. QED BY <1>5

\* The recursive definition that FoldLeft takes its value from, when it adds.
AddsUp(f, n, g) ==
    g = [s \in SUBSET (1..n) |-> IF s = {} THEN 0 ELSE g[s \ {Max(s)}] + f[Max(s)]]

\* A sum over the indices is one such function.
LEMMA SumAddsUp ==
    ASSUME NEW n \in Nat, NEW f, \A i \in 1..n : f[i] \in Nat
    PROVE  AddsUp(f, n, [s \in SUBSET (1..n) |-> SumFunctionOnSet(f, s)])
<1>. DEFINE g == [s \in SUBSET (1..n) |-> SumFunctionOnSet(f, s)]
<1>1. ASSUME NEW s \in SUBSET (1..n)
      PROVE  g[s] = IF s = {} THEN 0 ELSE g[s \ {Max(s)}] + f[Max(s)]
  <2>1. IsFiniteSet(s) /\ \A i \in s : f[i] \in Nat
    <3>1. IsFiniteSet(1..n)
      BY FS_Interval
    <3>. QED BY <3>1, FS_Subset
  <2>2. CASE s = {}
    <3>1. SumFunctionOnSet(f, {}) = 0
      BY FS_EmptySet, SumOfChosen
    <3>. QED BY <2>2, <3>1
  <2>3. CASE s # {}
    <3>1. PICK c : c = Max(s)
      OBVIOUS
    <3>2. c \in s
      BY <2>3, <3>1, LastIndex
    <3>3. SumFunctionOnSet(f, s) = f[c] + SumFunctionOnSet(f, s \ {c})
      <4>. HIDE DEF g
      <4>1. IsFiniteSet(s)
        BY <2>1
      <4>2. \A i \in s : f[i] \in Nat
        BY <2>1
      <4>3. \A T : IsFiniteSet(T) /\ (\A i \in T : f[i] \in Nat) /\ c \in T =>
                SumFunctionOnSet(f, T) = f[c] + SumFunctionOnSet(f, T \ {c})
        BY SumTakeOff
      <4>. QED BY ONLY <3>2, <4>1, <4>2, <4>3
    <3>4. SumFunctionOnSet(f, s \ {c}) \in Nat /\ f[c] \in Nat /\ s \ {c} \in SUBSET (1..n)
      <4>1. IsFiniteSet(s \ {c}) /\ \A i \in s \ {c} : f[i] \in Nat
        BY <2>1, FS_Subset
      <4>. QED BY <2>1, <3>2, <4>1, SumType
    <3>5. PICK a \in Nat, b \in Nat : a = f[c] /\ b = SumFunctionOnSet(f, s \ {c})
      BY <3>4
    <3>6. g[s] = a + b
      BY <3>3, <3>5
    <3>7. g[s \ {c}] + f[c] = b + a
      BY <3>4, <3>5
    <3>8. a + b = b + a
      OBVIOUS
    <3>. QED BY <2>3, <3>1, <3>6, <3>7, <3>8
  <2>. QED BY <2>2, <2>3
<1>2. g = [s \in SUBSET (1..n) |-> g[s]]
  OBVIOUS
<1>. HIDE DEF g
<1>3. AddsUp(f, n, g)
  BY <1>1, <1>2 DEF AddsUp
<1>. QED BY <1>3 DEF g

\* And every such function is that sum.
LEMMA AddsUpSum ==
    ASSUME NEW n \in Nat, NEW f, \A i \in 1..n : f[i] \in Nat, NEW g, AddsUp(f, n, g)
    PROVE  g[1..n] = SumFunctionOnSet(f, 1..n)
<1>. DEFINE C == {s \in SUBSET (1..n) : g[s] # SumFunctionOnSet(f, s)}
<1>1. SUFFICES ASSUME C # {} PROVE FALSE
  OBVIOUS
<1>2. PICK s \in C : \A y \in C : ~(y \subseteq s /\ y # s)
  <2>1. (\A y \in C : y \subseteq 1..n) /\ IsFiniteSet(1..n)
    BY FS_Interval
  <2>. HIDE DEF C
  <2>. QED BY <1>1, <2>1, LeastSubset
<1>3. PICK h : h = [t \in SUBSET (1..n) |-> SumFunctionOnSet(f, t)]
  OBVIOUS
<1>4. AddsUp(f, n, h) /\ \A t \in SUBSET (1..n) : h[t] = SumFunctionOnSet(f, t)
  BY <1>3, SumAddsUp
<1>5. s \in SUBSET (1..n) /\ g[s] # h[s]
  BY <1>4
<1>6. /\ g[s] = IF s = {} THEN 0 ELSE g[s \ {Max(s)}] + f[Max(s)]
      /\ h[s] = IF s = {} THEN 0 ELSE h[s \ {Max(s)}] + f[Max(s)]
  BY <1>4, <1>5 DEF AddsUp
<1>7. s # {}
  BY <1>5, <1>6
<1>8. PICK t : t = s \ {Max(s)}
  OBVIOUS
<1>9. t \in SUBSET (1..n) /\ t \subseteq s /\ t # s
  BY <1>5, <1>7, <1>8, LastIndex
<1>10. g[t] = h[t]
  BY <1>2, <1>4, <1>9
<1>. HIDE DEF C
<1>. QED BY <1>5, <1>6, <1>7, <1>8, <1>10

\* Such as the one FoldLeft chooses.
LEMMA ChosenAddsUp ==
    ASSUME NEW n \in Nat, NEW h, \A i \in 1..n : h[i] \in Nat,
           NEW c, c = CHOOSE g : AddsUp(h, n, g)
    PROVE  c[1..n] = SumFunctionOnSet(h, 1..n)
<1>1. \E g : AddsUp(h, n, g)
  BY SumAddsUp
<1>2. AddsUp(h, n, c)
  BY <1>1
<1>. QED BY <1>2, AddsUpSum
=============================================================================
