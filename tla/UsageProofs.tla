----------------------------- MODULE UsageProofs -----------------------------
(***************************************************************************)
(* Proofs about the usage of users on its way through the governor: the    *)
(* table of running threads and the counters (TidTable), the buffers and   *)
(* averages of users (UserStats) and the files for lve-stats (GovStats).   *)
(*                                                                         *)
(* For any threads, users, descriptors and bounds, the table agrees with   *)
(* mysqld and no usage is charged twice. For any period, intervals, usage  *)
(* and settings of the clock, a ring buffer is the history of its user,    *)
(* averages are those of the last seconds, everything is reported once,    *)
(* and no file replaces another.                                           *)
(***************************************************************************)
EXTENDS TidTable, GovStats, FiniteSetTheorems, SequenceTheorems, TLAPS

-----------------------------------------------------------------------------
(* Induction over the natural numbers, and sums. *)

Below == {p \in Nat \X Nat : p[1] < p[2]}

\* The library's theorem about the order of the natural numbers, as a relation.
LEMMA BelowWellFounded == IsWellFoundedOn(Below, Nat)
  BY NatLessThanWellFounded DEF OpToRel, Below

\* Induction: what a set of numbers has for 0, and for n + 1 with n, it has for all.
LEMMA Induction ==
  ASSUME NEW N, 0 \in N, \A n \in Nat : n \in N => n + 1 \in N
  PROVE  \A n \in Nat : n \in N
<1> DEFINE M == Nat \ N
<1>1. SUFFICES ASSUME M # {} PROVE FALSE
  OBVIOUS
<1>2. PICK m \in M : \A k \in M : ~(<<k, m>> \in Below)
  BY <1>1, BelowWellFounded, WFMin
<1>3. \A k \in M : ~(k < m)
  BY <1>2 DEF Below
<1>4. m # 0 /\ m - 1 \in Nat /\ m - 1 < m
  OBVIOUS
<1>5. m - 1 \notin M
  BY <1>3, <1>4
<1> QED BY <1>4, <1>5

-----------------------------------------------------------------------------
(* The sum of a function over a finite set. *)

Pick(s) == CHOOSE x \in s : TRUE

\* g has the sums of f over the sets in D, one element after the other.
Rest(g, f, s) == IF s = {} THEN 0 ELSE f[Pick(s)] + g[s \ {Pick(s)}]
Sums(g, f, D) == g = [s \in D |-> Rest(g, f, s)]

\* The subsets of S with at most n elements.
Small(S, n) == {s \in SUBSET S : Cardinality(s) <= n}

\* A set that is not empty has the element picked, and one less without it.
LEMMA PickLess ==
  ASSUME NEW s, IsFiniteSet(s), s # {}
  PROVE  /\ Pick(s) \in s
         /\ IsFiniteSet(s \ {Pick(s)})
         /\ Cardinality(s) \in Nat /\ Cardinality(s \ {Pick(s)}) = Cardinality(s) - 1
<1>1. Pick(s) \in s
  BY DEF Pick
<1> QED BY <1>1, FS_RemoveElement, FS_CardinalityType

\* There are such sums.
LEMMA SumsExist ==
  ASSUME NEW S, IsFiniteSet(S), NEW f
  PROVE  \E g : Sums(g, f, SUBSET S)
<1> DEFINE N == {n \in Nat : \E g : Sums(g, f, Small(S, n))}
<1>0. \A s \in SUBSET S : IsFiniteSet(s) /\ Cardinality(s) \in Nat /\ Cardinality(s) <= Cardinality(S)
  BY FS_Subset, FS_CardinalityType
<1>1. 0 \in N
  <2>1. Small(S, 0) = {{}}
    BY <1>0, FS_EmptySet DEF Small
  <2>2. Sums([s \in {{}} |-> 0], f, {{}})
    BY DEF Sums, Rest
  <2> QED BY <2>1, <2>2
<1>2. ASSUME NEW n \in Nat, n \in N PROVE n + 1 \in N
  <2>1. PICK g : Sums(g, f, Small(S, n))
    BY <1>2
  <2> DEFINE D == Small(S, n + 1)
             h == [s \in D |-> Rest(g, f, s)]
  <2>2. \A s \in D : s # {} => s \ {Pick(s)} \in Small(S, n)
    <3> SUFFICES ASSUME NEW s \in D, s # {} PROVE s \ {Pick(s)} \in Small(S, n)
      OBVIOUS
    <3>1. s \in SUBSET S /\ Cardinality(s) <= n + 1
      BY DEF Small
    <3>2. Cardinality(s) \in Nat /\ Cardinality(s \ {Pick(s)}) = Cardinality(s) - 1
      BY <1>0, <3>1, PickLess
    <3> QED BY <3>1, <3>2 DEF Small
  <2>3. \A s \in Small(S, n) : s \in D /\ h[s] = g[s]
    <3> SUFFICES ASSUME NEW s \in Small(S, n) PROVE s \in D /\ h[s] = g[s]
      OBVIOUS
    <3>1. s \in D
      BY <1>0 DEF Small
    <3>2. g[s] = Rest(g, f, s)
      BY <2>1 DEF Sums
    <3> QED BY <3>1, <3>2
  <2> HIDE DEF D
  <2>4. \A s \in D : Rest(h, f, s) = Rest(g, f, s)
    BY <2>2, <2>3 DEF Rest
  <2>5. Sums(h, f, D)
    BY <2>4 DEF Sums
  <2> QED BY <2>5 DEF D
<1> HIDE DEF N
<1>3. Cardinality(S) \in N
  BY <1>1, <1>2, Induction, FS_CardinalityType
<1>4. Small(S, Cardinality(S)) = SUBSET S
  BY <1>0 DEF Small
<1> QED BY <1>3, <1>4 DEF N

\* They are determined by the values of the function in the set.
LEMMA SumsAgree ==
  ASSUME NEW S, NEW T, NEW f, NEW e, NEW g, NEW h,
         Sums(g, f, SUBSET S), Sums(h, e, SUBSET T),
         NEW s, IsFiniteSet(s), s \subseteq S, s \subseteq T, \A x \in s : f[x] = e[x]
  PROVE  g[s] = h[s]
<1> DEFINE N == {n \in Nat : \A t \in SUBSET s : Cardinality(t) = n => g[t] = h[t]}
<1>0. \A t \in SUBSET s : IsFiniteSet(t) /\ Cardinality(t) \in Nat
  BY FS_Subset, FS_CardinalityType
<1>1. 0 \in N
  <2>1. \A t \in SUBSET s : Cardinality(t) = 0 => t = {}
    BY <1>0, FS_EmptySet
  <2>2. g[{}] = 0 /\ h[{}] = 0
    BY DEF Sums, Rest
  <2> QED BY <2>1, <2>2
<1>2. ASSUME NEW n \in Nat, n \in N PROVE n + 1 \in N
  <2> SUFFICES ASSUME NEW t \in SUBSET s, Cardinality(t) = n + 1 PROVE g[t] = h[t]
    OBVIOUS
  <2>1. t # {}
    BY FS_EmptySet
  <2>2. Pick(t) \in t /\ Cardinality(t \ {Pick(t)}) = n
    BY <1>0, <2>1, PickLess
  <2>3. g[t \ {Pick(t)}] = h[t \ {Pick(t)}]
    BY <1>2, <2>2
  <2>4. g[t] = f[Pick(t)] + g[t \ {Pick(t)}] /\ h[t] = e[Pick(t)] + h[t \ {Pick(t)}]
    BY <2>1 DEF Sums, Rest
  <2> QED BY <2>2, <2>3, <2>4
<1> HIDE DEF N
<1>3. Cardinality(s) \in N
  BY <1>0, <1>1, <1>2, Induction
<1> QED BY <1>3 DEF N

\* SumFunctionOnSet is one of them.
LEMMA SumIsOne ==
  ASSUME NEW f, NEW S, IsFiniteSet(S)
  PROVE  \E g : Sums(g, f, SUBSET S) /\ SumFunctionOnSet(f, S) = g[S]
<1> DEFINE h == CHOOSE g : Sums(g, f, SUBSET S)
<1>1. Sums(h, f, SUBSET S)
  BY SumsExist
<1>2. SumFunctionOnSet(f, S) = h[S]
  BY DEF SumFunctionOnSet, FoldFunctionOnSet, MapThenFoldSet, Sums, Rest, Pick
<1> HIDE DEF h
<1> QED BY <1>1, <1>2

\* Functions that agree on a set have the same sum over it.
LEMMA SumSame ==
  ASSUME NEW S, IsFiniteSet(S), NEW f, NEW e, \A x \in S : f[x] = e[x]
  PROVE  SumFunctionOnSet(f, S) = SumFunctionOnSet(e, S)
<1>1. PICK g : Sums(g, f, SUBSET S) /\ SumFunctionOnSet(f, S) = g[S]
  BY SumIsOne
<1>2. PICK h : Sums(h, e, SUBSET S) /\ SumFunctionOnSet(e, S) = h[S]
  BY SumIsOne
<1> QED BY <1>1, <1>2, SumsAgree

\* The equation of the definition.
LEMMA SumEquation ==
  ASSUME NEW S, IsFiniteSet(S), NEW f
  PROVE  /\ SumFunctionOnSet(f, {}) = 0
         /\ S # {} => SumFunctionOnSet(f, S) = f[Pick(S)] + SumFunctionOnSet(f, S \ {Pick(S)})
<1>1. SumFunctionOnSet(f, {}) = 0
  <2>1. PICK g : Sums(g, f, SUBSET {}) /\ SumFunctionOnSet(f, {}) = g[{}]
    BY SumIsOne, FS_EmptySet
  <2> QED BY <2>1 DEF Sums, Rest
<1>2. ASSUME S # {}
      PROVE  SumFunctionOnSet(f, S) = f[Pick(S)] + SumFunctionOnSet(f, S \ {Pick(S)})
  <2> DEFINE T == S \ {Pick(S)}
  <2>0. IsFiniteSet(T)
    BY <1>2, PickLess
  <2>1. PICK g : Sums(g, f, SUBSET S) /\ SumFunctionOnSet(f, S) = g[S]
    BY SumIsOne
  <2>2. PICK h : Sums(h, f, SUBSET T) /\ SumFunctionOnSet(f, T) = h[T]
    BY <2>0, SumIsOne
  <2>3. g[S] = f[Pick(S)] + g[T]
    BY <1>2, <2>1 DEF Sums, Rest
  <2> HIDE DEF T
  <2>4. g[T] = h[T]
    <3>1. T \subseteq S
      BY DEF T
    <3> QED BY <2>0, <2>1, <2>2, <3>1, SumsAgree
  <2> QED BY <2>1, <2>2, <2>3, <2>4 DEF T
<1> QED BY <1>1, <1>2

\* Nothing is the sum over the empty set.
LEMMA SumEmpty == \A f : SumFunctionOnSet(f, {}) = 0
  BY SumEquation, FS_EmptySet

\* A sum of integers is one, of natural numbers a natural number.
LEMMA SumType ==
  ASSUME NEW S, IsFiniteSet(S), NEW f
  PROVE  /\ (\A x \in S : f[x] \in Int) => SumFunctionOnSet(f, S) \in Int
         /\ (\A x \in S : f[x] \in Nat) => SumFunctionOnSet(f, S) \in Nat
<1> SUFFICES ASSUME NEW Z, Z = Int \/ Z = Nat, \A x \in S : f[x] \in Z
             PROVE  SumFunctionOnSet(f, S) \in Z
  OBVIOUS
<1>0. 0 \in Z /\ \A a, b \in Z : a + b \in Z
  OBVIOUS
<1> DEFINE N == {n \in Nat : \A s \in SUBSET S : Cardinality(s) = n => SumFunctionOnSet(f, s) \in Z}
<1>1. \A s \in SUBSET S : IsFiniteSet(s) /\ Cardinality(s) \in Nat
  BY FS_Subset, FS_CardinalityType
<1>2. 0 \in N
  <2>1. \A s \in SUBSET S : Cardinality(s) = 0 => s = {}
    BY <1>1, FS_EmptySet
  <2> QED BY <1>0, <2>1, SumEquation
<1>3. ASSUME NEW n \in Nat, n \in N PROVE n + 1 \in N
  <2> SUFFICES ASSUME NEW s \in SUBSET S, Cardinality(s) = n + 1
               PROVE  SumFunctionOnSet(f, s) \in Z
    OBVIOUS
  <2>1. s # {}
    BY FS_EmptySet
  <2>2. Pick(s) \in s /\ Cardinality(s \ {Pick(s)}) = n
    BY <1>1, <2>1, PickLess
  <2>3. SumFunctionOnSet(f, s \ {Pick(s)}) \in Z
    BY <1>3, <2>2
  <2>4. f[Pick(s)] \in Z
    BY <2>2
  <2> QED BY <1>0, <1>1, <2>1, <2>3, <2>4, SumEquation
<1> HIDE DEF N
<1>4. Cardinality(S) \in N
  BY <1>1, <1>2, <1>3, Induction
<1> QED BY <1>4 DEF N

\* Any element may be taken out first.
LEMMA SumRemove ==
  ASSUME NEW S, IsFiniteSet(S), NEW f, \A x \in S : f[x] \in Int, NEW x \in S
  PROVE  SumFunctionOnSet(f, S) = f[x] + SumFunctionOnSet(f, S \ {x})
<1> DEFINE Sum(s) == SumFunctionOnSet(f, s)
           N == {n \in Nat : \A s \in SUBSET S : Cardinality(s) = n =>
                               \A y \in s : Sum(s) = f[y] + Sum(s \ {y})}
<1>1. \A s \in SUBSET S : /\ IsFiniteSet(s) /\ Cardinality(s) \in Nat
                          /\ Sum(s) \in Int
                          /\ \A y \in s : Cardinality(s \ {y}) = Cardinality(s) - 1
  BY FS_Subset, FS_CardinalityType, FS_RemoveElement, SumType
<1>2. \A s \in SUBSET S : s # {} => Pick(s) \in s /\ Sum(s) = f[Pick(s)] + Sum(s \ {Pick(s)})
  BY <1>1, SumEquation, PickLess
<1> HIDE DEF Sum
<1>3. 0 \in N
  BY <1>1, FS_EmptySet
<1>4. ASSUME NEW n \in Nat, n \in N PROVE n + 1 \in N
  <2> SUFFICES ASSUME NEW s \in SUBSET S, Cardinality(s) = n + 1, NEW y \in s
               PROVE  Sum(s) = f[y] + Sum(s \ {y})
    OBVIOUS
  <2> DEFINE c == Pick(s)
  <2>1. c \in s /\ Sum(s) = f[c] + Sum(s \ {c})
    BY <1>2
  <2> HIDE DEF c
  <2>2. CASE y = c
    BY <2>1, <2>2
  <2>3. CASE y # c
    <3> DEFINE r == (s \ {c}) \ {y}
    <3>1. y \in s \ {c} /\ c \in s \ {y} /\ (s \ {y}) \ {c} = r
      BY <2>1, <2>3
    <3>2. Cardinality(s \ {c}) = n /\ Cardinality(s \ {y}) = n
      BY <1>1, <2>1
    <3>3. s \ {c} \in SUBSET S /\ s \ {y} \in SUBSET S /\ r \in SUBSET S
      OBVIOUS
    <3>4. Sum(s \ {c}) = f[y] + Sum(r)
      BY <1>4, <3>1, <3>2, <3>3
    <3>5. Sum(s \ {y}) = f[c] + Sum(r)
      <4>1. Sum(s \ {y}) = f[c] + Sum((s \ {y}) \ {c})
        BY <1>4, <3>1, <3>2, <3>3
      <4> QED BY <3>1, <4>1
    <3>6. f[y] \in Int /\ f[c] \in Int /\ Sum(r) \in Int
      BY <1>1, <2>1, <3>3
    <3> HIDE DEF r
    <3> QED BY <2>1, <3>4, <3>5, <3>6
  <2> QED BY <2>2, <2>3
<1> HIDE DEF N
<1>5. Cardinality(S) \in N
  BY <1>1, <1>3, <1>4, Induction
<1> QED BY <1>5 DEF N, Sum

\* One more element.
LEMMA SumAdd ==
  ASSUME NEW S, IsFiniteSet(S), NEW x, x \notin S, NEW f, \A y \in S \cup {x} : f[y] \in Int
  PROVE  SumFunctionOnSet(f, S \cup {x}) = SumFunctionOnSet(f, S) + f[x]
<1>1. IsFiniteSet(S \cup {x})
  BY FS_AddElement
<1>2. (S \cup {x}) \ {x} = S
  OBVIOUS
<1>3. SumFunctionOnSet(f, S) \in Int /\ f[x] \in Int
  BY SumType
<1>4. SumFunctionOnSet(f, S \cup {x}) = f[x] + SumFunctionOnSet(f, S)
  BY <1>1, <1>2, SumRemove
<1> QED BY <1>3, <1>4

\* One other value.
LEMMA SumChange ==
  ASSUME NEW S, IsFiniteSet(S), NEW x \in S, NEW f, NEW e,
         \A y \in S : f[y] \in Int /\ e[y] \in Int,
         \A y \in S \ {x} : e[y] = f[y]
  PROVE  SumFunctionOnSet(e, S) = SumFunctionOnSet(f, S) - f[x] + e[x]
<1>1. IsFiniteSet(S \ {x})
  BY FS_RemoveElement
<1>2. SumFunctionOnSet(f, S \ {x}) = SumFunctionOnSet(e, S \ {x})
  BY <1>1, SumSame
<1>3. SumFunctionOnSet(f, S) = f[x] + SumFunctionOnSet(f, S \ {x})
  BY SumRemove
<1>4. SumFunctionOnSet(e, S) = e[x] + SumFunctionOnSet(e, S \ {x})
  BY SumRemove
<1>5. SumFunctionOnSet(f, S \ {x}) \in Int /\ f[x] \in Int /\ e[x] \in Int
  BY <1>1, SumType
<1> QED BY <1>2, <1>3, <1>4, <1>5

\* Induction over a finite set: a collection of sets that has the empty set, and
\* with a subset of S also that with one more element, has S.
LEMMA SubsetInduction ==
  ASSUME NEW S, IsFiniteSet(S), NEW P, {} \in P,
         \A s \in SUBSET S : \A x \in S \ s : s \in P => s \cup {x} \in P
  PROVE  S \in P
<1> DEFINE N == {n \in Nat : \A s \in SUBSET S : Cardinality(s) = n => s \in P}
<1>1. \A s \in SUBSET S : IsFiniteSet(s) /\ Cardinality(s) \in Nat
  BY FS_Subset, FS_CardinalityType
<1>2. 0 \in N
  BY <1>1, FS_EmptySet
<1>3. ASSUME NEW n \in Nat, n \in N PROVE n + 1 \in N
  <2> SUFFICES ASSUME NEW s \in SUBSET S, Cardinality(s) = n + 1 PROVE s \in P
    OBVIOUS
  <2>1. s # {}
    <3>1. Cardinality({}) = 0 /\ n + 1 # 0
      BY FS_EmptySet
    <3> QED BY <3>1
  <2> DEFINE t == s \ {Pick(s)}
  <2>2. Pick(s) \in s /\ Cardinality(t) = n
    BY <1>1, <2>1, PickLess
  <2>3. t \in SUBSET S /\ Pick(s) \in S \ t /\ t \cup {Pick(s)} = s
    BY <2>2
  <2> HIDE DEF t
  <2> QED BY <1>3, <2>2, <2>3
<1> HIDE DEF N
<1>4. Cardinality(S) \in N
  BY <1>1, <1>2, <1>3, Induction
<1> QED BY <1>4 DEF N

\* Sums add up term by term.
LEMMA SumPlus ==
  ASSUME NEW S, IsFiniteSet(S), NEW f, NEW e, NEW g,
         \A x \in S : f[x] \in Int /\ e[x] \in Int /\ g[x] = f[x] + e[x]
  PROVE  SumFunctionOnSet(g, S) = SumFunctionOnSet(f, S) + SumFunctionOnSet(e, S)
<1> DEFINE P == {s \in SUBSET S : SumFunctionOnSet(g, s)
                                    = SumFunctionOnSet(f, s) + SumFunctionOnSet(e, s)}
<1>1. {} \in P
  <2>1. 0 = 0 + 0
    OBVIOUS
  <2> QED BY <2>1, SumEmpty
<1>2. ASSUME NEW s \in SUBSET S, NEW x \in S \ s, s \in P PROVE s \cup {x} \in P
  <2>1. IsFiniteSet(s) /\ x \notin s
    BY FS_Subset
  <2>2. \A y \in s \cup {x} : f[y] \in Int /\ e[y] \in Int /\ g[y] \in Int
    OBVIOUS
  <2>3. /\ SumFunctionOnSet(f, s \cup {x}) = SumFunctionOnSet(f, s) + f[x]
        /\ SumFunctionOnSet(e, s \cup {x}) = SumFunctionOnSet(e, s) + e[x]
        /\ SumFunctionOnSet(g, s \cup {x}) = SumFunctionOnSet(g, s) + g[x]
    BY <2>1, <2>2, SumAdd
  <2>4. /\ SumFunctionOnSet(f, s) \in Int /\ SumFunctionOnSet(e, s) \in Int
        /\ SumFunctionOnSet(g, s) = SumFunctionOnSet(f, s) + SumFunctionOnSet(e, s)
        /\ g[x] = f[x] + e[x] /\ f[x] \in Int /\ e[x] \in Int
    BY <1>2, <2>1, <2>2, SumType
  <2>5. SumFunctionOnSet(g, s \cup {x})
          = SumFunctionOnSet(f, s \cup {x}) + SumFunctionOnSet(e, s \cup {x})
    BY <2>3, <2>4
  <2> QED BY <2>5
<1> HIDE DEF P
<1>3. S \in P
  BY <1>1, <1>2, SubsetInduction
<1> QED BY <1>3 DEF P

\* Only 0 is twice itself.
LEMMA TwiceItself == \A n \in Int : n = n + n => n = 0
  OBVIOUS

\* So the sum of nothing is nothing.
LEMMA SumZero ==
  ASSUME NEW S, IsFiniteSet(S), NEW f, \A x \in S : f[x] = 0
  PROVE  SumFunctionOnSet(f, S) = 0
<1>1. \A x \in S : f[x] \in Int /\ f[x] = f[x] + f[x]
  OBVIOUS
<1>2. SumFunctionOnSet(f, S) = SumFunctionOnSet(f, S) + SumFunctionOnSet(f, S)
  BY <1>1, SumPlus
<1>3. SumFunctionOnSet(f, S) \in Int
  BY <1>1, SumType
<1> DEFINE n == SumFunctionOnSet(f, S)
<1>4. n \in Int /\ n = n + n
  BY <1>2, <1>3
<1> HIDE DEF n
<1>5. n = 0
  BY <1>4, TwiceItself
<1> QED BY <1>5 DEF n

\* Sums compare as their terms do.
LEMMA SumLess ==
  ASSUME NEW S, IsFiniteSet(S), NEW f, NEW e,
         \A x \in S : f[x] \in Int /\ e[x] \in Int /\ f[x] <= e[x]
  PROVE  SumFunctionOnSet(f, S) <= SumFunctionOnSet(e, S)
<1> DEFINE d == [x \in S |-> e[x] - f[x]]
<1>1. \A x \in S : d[x] \in Nat /\ d[x] \in Int /\ e[x] = f[x] + d[x]
  OBVIOUS
<1> HIDE DEF d
<1>2. SumFunctionOnSet(e, S) = SumFunctionOnSet(f, S) + SumFunctionOnSet(d, S)
  BY <1>1, SumPlus
<1>3. SumFunctionOnSet(d, S) \in Nat /\ SumFunctionOnSet(f, S) \in Int
  BY <1>1, SumType
<1> QED BY <1>2, <1>3

\* A factor of all terms.
LEMMA SumTimes ==
  ASSUME NEW S, IsFiniteSet(S), NEW f, NEW g, NEW n \in Int,
         \A x \in S : f[x] \in Int /\ g[x] = n * f[x]
  PROVE  SumFunctionOnSet(g, S) = n * SumFunctionOnSet(f, S)
<1> DEFINE P == {s \in SUBSET S : SumFunctionOnSet(g, s) = n * SumFunctionOnSet(f, s)}
<1>1. {} \in P
  <2>1. n * 0 = 0
    OBVIOUS
  <2> QED BY <2>1, SumEmpty
<1>2. ASSUME NEW s \in SUBSET S, NEW x \in S \ s, s \in P PROVE s \cup {x} \in P
  <2>1. IsFiniteSet(s) /\ x \notin s
    BY FS_Subset
  <2>2. \A y \in s \cup {x} : f[y] \in Int /\ g[y] \in Int
    <3>1. \A y \in S : n * f[y] \in Int
      OBVIOUS
    <3> QED BY <3>1
  <2> DEFINE a == SumFunctionOnSet(f, s)
             b == f[x]
  <2>3. /\ SumFunctionOnSet(f, s \cup {x}) = a + b
        /\ SumFunctionOnSet(g, s \cup {x}) = n * a + n * b
    <3>1. SumFunctionOnSet(g, s) = n * a /\ g[x] = n * b
      BY <1>2
    <3>2. /\ SumFunctionOnSet(f, s \cup {x}) = SumFunctionOnSet(f, s) + f[x]
          /\ SumFunctionOnSet(g, s \cup {x}) = SumFunctionOnSet(g, s) + g[x]
      BY <2>1, <2>2, SumAdd
    <3> QED BY <3>1, <3>2
  <2>4. a \in Int /\ b \in Int
    BY <2>1, <2>2, SumType
  <2> HIDE DEF a, b
  <2>5. n * (a + b) = n * a + n * b
    BY <2>4
  <2> QED BY <2>3, <2>5
<1> HIDE DEF P
<1>3. S \in P
  BY <1>1, <1>2, SubsetInduction
<1> QED BY <1>3 DEF P

\* The same term n for every element.
LEMMA SumConstant ==
  ASSUME NEW S, IsFiniteSet(S), NEW f, NEW n \in Int, \A x \in S : f[x] = n
  PROVE  SumFunctionOnSet(f, S) = n * Cardinality(S)
<1> DEFINE P == {s \in SUBSET S : SumFunctionOnSet(f, s) = n * Cardinality(s)}
<1>1. {} \in P
  <2>1. n * 0 = 0 /\ Cardinality({}) = 0
    BY FS_EmptySet
  <2> QED BY <2>1, SumEmpty
<1>2. ASSUME NEW s \in SUBSET S, NEW x \in S \ s, s \in P PROVE s \cup {x} \in P
  <2>1. IsFiniteSet(s) /\ x \notin s
    BY FS_Subset
  <2> DEFINE c == Cardinality(s)
  <2>2. c \in Nat /\ Cardinality(s \cup {x}) = c + 1
    BY <2>1, FS_AddElement, FS_CardinalityType
  <2>3. SumFunctionOnSet(f, s \cup {x}) = n * c + n
    <3>1. SumFunctionOnSet(f, s) = n * c /\ f[x] = n
      BY <1>2
    <3>2. \A y \in s \cup {x} : f[y] \in Int
      OBVIOUS
    <3>3. SumFunctionOnSet(f, s \cup {x}) = SumFunctionOnSet(f, s) + f[x]
      BY <2>1, <3>2, SumAdd
    <3> QED BY <3>1, <3>3
  <2> HIDE DEF c
  <2>4. n * (c + 1) = n * c + n
    BY <2>2
  <2> QED BY <2>2, <2>3, <2>4
<1> HIDE DEF P
<1>3. S \in P
  BY <1>1, <1>2, SubsetInduction
<1> QED BY <1>3 DEF P

\* Numbering the terms from 0 or from 1.
LEMMA SumShift ==
  ASSUME NEW n \in Nat, NEW f, NEW e, \A i \in 1 .. n : e[i] \in Int /\ f[i - 1] = e[i]
  PROVE  SumFunctionOnSet(f, 0 .. (n - 1)) = SumFunctionOnSet(e, 1 .. n)
<1> DEFINE N == {m \in Nat : m <= n => SumFunctionOnSet(f, 0 .. (m - 1))
                                         = SumFunctionOnSet(e, 1 .. m)}
<1>1. 0 \in N
  <2>1. 0 .. (0 - 1) = {} /\ 1 .. 0 = {}
    OBVIOUS
  <2> QED BY <2>1, SumEmpty
<1>2. ASSUME NEW m \in Nat, m \in N PROVE m + 1 \in N
  <2> SUFFICES ASSUME m + 1 <= n
               PROVE  SumFunctionOnSet(f, 0 .. ((m + 1) - 1)) = SumFunctionOnSet(e, 1 .. (m + 1))
    OBVIOUS
  <2>1. /\ 0 .. ((m + 1) - 1) = (0 .. (m - 1)) \cup {m} /\ m \notin 0 .. (m - 1)
        /\ 1 .. (m + 1) = (1 .. m) \cup {m + 1} /\ m + 1 \notin 1 .. m
    OBVIOUS
  <2>2. IsFiniteSet(0 .. (m - 1)) /\ IsFiniteSet(1 .. m)
    BY FS_Interval
  <2>3. /\ \A i \in (1 .. m) \cup {m + 1} : e[i] \in Int
        /\ \A i \in (0 .. (m - 1)) \cup {m} : f[i] \in Int
    <3>1. \A i \in 0 .. m : i + 1 \in 1 .. n /\ (i + 1) - 1 = i
      OBVIOUS
    <3> QED BY <3>1
  <2>4. f[m] = e[m + 1]
    <3>1. m + 1 \in 1 .. n /\ (m + 1) - 1 = m
      OBVIOUS
    <3> QED BY <3>1
  <2> DEFINE A == 1 .. m
             B == 0 .. (m - 1)
  <2>5. /\ SumFunctionOnSet(e, A \cup {m + 1}) = SumFunctionOnSet(e, A) + e[m + 1]
        /\ SumFunctionOnSet(f, B \cup {m}) = SumFunctionOnSet(f, B) + f[m]
    <3>1. m + 1 \notin A /\ m \notin B
      BY <2>1
    <3>2. /\ \A i \in A \cup {m + 1} : e[i] \in Int
          /\ \A i \in B \cup {m} : f[i] \in Int
      BY <2>3
    <3>3. IsFiniteSet(A) /\ IsFiniteSet(B)
      BY <2>2
    <3> HIDE DEF A, B
    <3>4. PICK k : k = m + 1
      OBVIOUS
    <3>5. SumFunctionOnSet(e, A \cup {k}) = SumFunctionOnSet(e, A) + e[k]
      <4>1. k \notin A /\ \A i \in A \cup {k} : e[i] \in Int
        BY <3>1, <3>2, <3>4
      <4> QED BY <3>3, <4>1, SumAdd
    <3>6. SumFunctionOnSet(f, B \cup {m}) = SumFunctionOnSet(f, B) + f[m]
      BY <3>1, <3>2, <3>3, SumAdd
    <3> QED BY <3>4, <3>5, <3>6
  <2>6. SumFunctionOnSet(f, 0 .. (m - 1)) = SumFunctionOnSet(e, 1 .. m)
    BY <1>2
  <2> QED BY <2>1, <2>4, <2>5, <2>6
<1> HIDE DEF N
<1>3. n \in N
  BY <1>1, <1>2, Induction
<1> QED BY <1>3 DEF N

\* A sum over a subset, as one over the whole set.
LEMMA SumWithin ==
  ASSUME NEW S, IsFiniteSet(S), NEW R, R \subseteq S, NEW f, NEW g,
         \A x \in R : f[x] \in Int,
         \A x \in S : g[x] = IF x \in R THEN f[x] ELSE 0
  PROVE  SumFunctionOnSet(g, S) = SumFunctionOnSet(f, R)
<1> DEFINE P == {s \in SUBSET S : SumFunctionOnSet(g, s) = SumFunctionOnSet(f, s \cap R)}
<1>1. {} \in P
  <2>1. {} \cap R = {}
    OBVIOUS
  <2> QED BY <2>1, SumEmpty
<1>2. ASSUME NEW s \in SUBSET S, NEW x \in S \ s, s \in P PROVE s \cup {x} \in P
  <2>1. IsFiniteSet(s) /\ IsFiniteSet(s \cap R) /\ x \notin s
    BY FS_Subset, FS_Intersection
  <2>2. \A y \in s \cup {x} : g[y] \in Int
    OBVIOUS
  <2>3. SumFunctionOnSet(g, s \cup {x}) = SumFunctionOnSet(g, s) + g[x]
    BY <2>1, <2>2, SumAdd
  <2>4. SumFunctionOnSet(g, s) = SumFunctionOnSet(f, s \cap R) /\ SumFunctionOnSet(g, s) \in Int
    BY <1>2, <2>1, <2>2, SumType
  <2>5. CASE x \in R
    <3>1. (s \cup {x}) \cap R = (s \cap R) \cup {x} /\ x \notin s \cap R /\ g[x] = f[x]
      BY <2>1, <2>5
    <3>2. SumFunctionOnSet(f, (s \cap R) \cup {x}) = SumFunctionOnSet(f, s \cap R) + f[x]
      BY <2>1, <2>5, <3>1, SumAdd
    <3> QED BY <2>3, <2>4, <3>1, <3>2
  <2>6. CASE x \notin R
    <3>1. (s \cup {x}) \cap R = s \cap R /\ g[x] = 0
      BY <2>6
    <3>2. SumFunctionOnSet(g, s \cup {x}) = SumFunctionOnSet(f, s \cap R)
      BY <2>3, <2>4, <3>1
    <3> QED BY <3>1, <3>2
  <2> QED BY <2>5, <2>6
<1> HIDE DEF P
<1>3. S \in P
  BY <1>1, <1>2, SubsetInduction
<1>4. S \cap R = R
  OBVIOUS
<1> QED BY <1>3, <1>4 DEF P

\* A sum in groups: every element of R has a name in S.
LEMMA SumGroups ==
  ASSUME NEW S, IsFiniteSet(S), NEW R, IsFiniteSet(R), NEW f, NEW name \in [R -> S],
         \A x \in R : f[x] \in Int
  PROVE  SumFunctionOnSet([u \in S |-> SumFunctionOnSet(f, {x \in R : name[x] = u})], S)
           = SumFunctionOnSet(f, R)
<1> DEFINE Of(s, u) == {x \in s : name[x] = u}
           G(s) == [u \in S |-> SumFunctionOnSet(f, Of(s, u))]
           P == {s \in SUBSET R : SumFunctionOnSet(G(s), S) = SumFunctionOnSet(f, s)}
<1>1. {} \in P
  <2>1. \A u \in S : G({})[u] = 0
    <3>1. \A u \in S : Of({}, u) = {}
      OBVIOUS
    <3> QED BY <3>1, SumEmpty
  <2> HIDE DEF G
  <2> QED BY <2>1, SumZero, SumEmpty, FS_EmptySet
<1>2. ASSUME NEW s \in SUBSET R, NEW x \in R \ s, s \in P PROVE s \cup {x} \in P
  <2>1. IsFiniteSet(s) /\ x \notin s /\ name[x] \in S /\ f[x] \in Int
    BY FS_Subset
  <2>2. \A u : IsFiniteSet(Of(s, u)) /\ IsFiniteSet(Of(s \cup {x}, u))
    <3>1. \A u : Of(s, u) \in SUBSET R /\ Of(s \cup {x}, u) \in SUBSET R
      OBVIOUS
    <3> HIDE DEF Of
    <3> QED BY <3>1, FS_Subset
  <2>3. \A u \in S : G(s)[u] \in Int /\ G(s \cup {x})[u] \in Int
    <3>1. \A u \in S : /\ \A y \in Of(s, u) : f[y] \in Int
                       /\ \A y \in Of(s \cup {x}, u) : f[y] \in Int
      OBVIOUS
    <3> HIDE DEF Of
    <3> QED BY <2>2, <3>1, SumType
  <2>4. \A u \in S \ {name[x]} : G(s \cup {x})[u] = G(s)[u]
    <3>1. \A u \in S \ {name[x]} : Of(s \cup {x}, u) = Of(s, u)
      OBVIOUS
    <3> HIDE DEF Of
    <3> QED BY <3>1
  <2>5. G(s \cup {x})[name[x]] = G(s)[name[x]] + f[x]
    <3> DEFINE T == Of(s, name[x])
    <3>1. Of(s \cup {x}, name[x]) = T \cup {x} /\ x \notin T /\ \A y \in T \cup {x} : f[y] \in Int
      BY <2>1
    <3>2. IsFiniteSet(T)
      BY <2>2
    <3>3. G(s)[name[x]] = SumFunctionOnSet(f, T)
      BY <2>1
    <3>4. G(s \cup {x})[name[x]] = SumFunctionOnSet(f, Of(s \cup {x}, name[x]))
      BY <2>1
    <3> HIDE DEF T, G, Of
    <3>5. SumFunctionOnSet(f, T \cup {x}) = SumFunctionOnSet(f, T) + f[x]
      BY <3>1, <3>2, SumAdd
    <3> QED BY <3>1, <3>3, <3>4, <3>5
  <2>6. SumFunctionOnSet(f, s \cup {x}) = SumFunctionOnSet(f, s) + f[x]
    BY <2>1, SumAdd
  <2>7. SumFunctionOnSet(G(s), S) = SumFunctionOnSet(f, s)
    BY <1>2
  <2>8. SumFunctionOnSet(f, s) \in Int
    BY <2>1, SumType
  <2> DEFINE e == G(s)
             h == G(s \cup {x})
             u == name[x]
  <2>9. /\ \A v \in S : e[v] \in Int /\ h[v] \in Int
        /\ \A v \in S \ {u} : h[v] = e[v]
        /\ h[u] = e[u] + f[x] /\ u \in S /\ e[u] \in Int
    BY <2>1, <2>3, <2>4, <2>5
  <2> HIDE DEF G, e, h, u
  <2>10. SumFunctionOnSet(h, S) = SumFunctionOnSet(e, S) - e[u] + h[u]
    BY <2>9, SumChange
  <2>11. SumFunctionOnSet(h, S) = SumFunctionOnSet(f, s) + f[x]
    BY <2>1, <2>7, <2>8, <2>9, <2>10 DEF e
  <2>12. SumFunctionOnSet(h, S) = SumFunctionOnSet(f, s \cup {x})
    BY <2>6, <2>11
  <2> QED BY <2>12 DEF h
<1> HIDE DEF P
<1>3. R \in P
  BY <1>1, <1>2, SubsetInduction
<1>4. SumFunctionOnSet(G(R), S) = SumFunctionOnSet(f, R)
  BY <1>3 DEF P
<1> QED BY <1>4

\* The same, with the groups given.
LEMMA SumParts ==
  ASSUME NEW S, IsFiniteSet(S), NEW R, IsFiniteSet(R), NEW f, NEW name \in [R -> S],
         NEW part \in [S -> SUBSET R], NEW g,
         \A x \in R : f[x] \in Int,
         \A u \in S : \A x \in R : x \in part[u] <=> name[x] = u,
         \A u \in S : g[u] = SumFunctionOnSet(f, part[u])
  PROVE  SumFunctionOnSet(g, S) = SumFunctionOnSet(f, R)
<1> DEFINE h == [u \in S |-> SumFunctionOnSet(f, {x \in R : name[x] = u})]
<1>1. SumFunctionOnSet(h, S) = SumFunctionOnSet(f, R)
  BY SumGroups
<1>2. \A u \in S : h[u] = g[u]
  <2>1. \A u \in S : {x \in R : name[x] = u} = part[u]
    OBVIOUS
  <2> QED BY <2>1
<1> HIDE DEF h
<1>3. SumFunctionOnSet(h, S) = SumFunctionOnSet(g, S)
  BY <1>2, SumSame
<1> QED BY <1>1, <1>3

-----------------------------------------------------------------------------
(* The table of running threads. *)

\* There is one open connection, the plugin's; others have nothing to read.
Connected ==
  /\ sock # NoFd => conn[sock] = "open"
  /\ \A f \in Fds : conn[f] = "open" => sock = f
  /\ \A f \in Fds : conn[f] # "open" => queue[f] = <<>>

\* A thread is heard on the plugin's connection, and only while it lives.
HeardInv == \A t \in Tids : heard[t] # NoFd => heard[t] = sock /\ th[t].at # "gone"

\* The newest message of a thread says what the thread does.
LastOf(f, i) == \A j \in DOMAIN queue[f] : j > i => queue[f][j].tid # queue[f][i].tid
Says(m) ==
  /\ m.type = "begin" <=> th[m.tid].at = "busy"
  /\ m.type = "begin" => m.user = th[m.tid].user
LastInv ==
  \A f \in Fds : \A i \in DOMAIN queue[f] :
    heard[queue[f][i].tid] # NoFd /\ LastOf(f, i) => Says(queue[f][i])

\* An end that is being handled, if nothing followed it, was the last message.
EndingInv ==
  /\ ending.step = "no" <=> ending.tid = NoTid
  /\ \A t \in Tids : ending.tid = t /\ heard[t] # NoFd /\ ~Queued(t) => th[t].at # "busy"

\* The inductive invariant.
IInv == TableType /\ Connected /\ HeardInv /\ LastInv /\ EndingInv /\ TableAgrees

----------------------------------------------------------------------------
(* Types *)

\* One more message keeps a queue a queue.
LEMMA QueueAppend ==
  ASSUME NEW q \in Seq(Message), NEW m \in Message
  PROVE  /\ Append(q, m) \in Seq(Message)
         /\ DOMAIN Append(q, m) = DOMAIN q \cup {Len(q) + 1}
         /\ Len(q) + 1 \notin DOMAIN q
         /\ \A i \in DOMAIN q : Append(q, m)[i] = q[i] /\ i < Len(q) + 1
         /\ Append(q, m)[Len(q) + 1] = m
<1>1. /\ Append(q, m) \in Seq(Message) /\ Len(q) \in Nat /\ DOMAIN q = 1..Len(q)
      /\ DOMAIN Append(q, m) = 1..(Len(q) + 1)
      /\ \A i \in 1..Len(q) : Append(q, m)[i] = q[i]
      /\ Append(q, m)[Len(q) + 1] = m
  BY AppendProperties, LenProperties
<1> QED BY <1>1

\* Taking the oldest message shifts the others.
LEMMA QueueTail ==
  ASSUME NEW q \in Seq(Message), q # <<>>
  PROVE  /\ Tail(q) \in Seq(Message) /\ Head(q) \in Message
         /\ 1 \in DOMAIN q /\ q[1] = Head(q)
         /\ \A i \in DOMAIN Tail(q) : i \in Nat /\ i + 1 \in DOMAIN q /\ Tail(q)[i] = q[i + 1]
         /\ \A i \in DOMAIN q : i \in Nat /\ (i > 1 => i - 1 \in DOMAIN Tail(q))
<1>1. /\ Tail(q) \in Seq(Message) /\ Len(q) \in Nat /\ DOMAIN q = 1..Len(q) /\ Len(q) # 0
      /\ Len(Tail(q)) = Len(q) - 1
      /\ \A i \in 1..Len(Tail(q)) : Tail(q)[i] = q[i + 1]
  BY HeadTailProperties, LenProperties, EmptySeq
<1>2. DOMAIN Tail(q) = 1..(Len(q) - 1)
  BY <1>1, LenProperties
<1>3. Head(q) = q[1] /\ Head(q) \in Message
  BY HeadTailProperties
<1> QED BY <1>1, <1>2, <1>3

\* Messages that grow older stay messages.
LEMMA QueueAges ==
  ASSUME NEW q \in Seq(Message)
  PROVE  [i \in DOMAIN q |-> [q[i] EXCEPT !.old = TRUE]] \in Seq(Message)
<1>1. Len(q) \in Nat /\ DOMAIN q = 1..Len(q) /\ \A i \in 1..Len(q) : q[i] \in Message
  BY LenProperties, ElementOfSeq
<1>2. \A i \in 1..Len(q) : [q[i] EXCEPT !.old = TRUE] \in Message
  BY <1>1 DEF Message
<1> QED BY <1>1, <1>2, SeqDef

\* What is in a queue is a message of some thread.
LEMMA QueueItems ==
  ASSUME NEW q \in Seq(Message)
  PROVE  \A i \in DOMAIN q : q[i] \in Message /\ q[i].tid \in Tids
<1>1. \A i \in 1..Len(q) : q[i] \in Message
  BY ElementOfSeq
<1>2. DOMAIN q = 1..Len(q)
  BY LenProperties
<1> QED BY <1>1, <1>2 DEF Message

\* The table starts empty and nobody is connected.
LEMMA InitOK == Init => IInv
<1> SUFFICES ASSUME Init PROVE IInv
  OBVIOUS
<1>1. TableType
  <2>1. <<>> \in Seq(Message)
    BY EmptySeq
  <2> QED BY <2>1, ConstantsAssumption
          DEF Init, TableType, NotEnding, NoEntry, Entry, Thread, Gone, NoUser, NoFd,
              NoTid
<1>2. Connected /\ HeardInv /\ EndingInv /\ TableAgrees
  BY DEF Init, Connected, HeardInv, EndingInv, TableAgrees, NotEnding, NoTid
<1>3. LastInv
  <2>1. DOMAIN <<>> = {}
    OBVIOUS
  <2> QED BY <2>1 DEF Init, LastInv
<1> QED BY <1>1, <1>2, <1>3 DEF IInv

\* What mysqld does to a thread leaves it one; the usage of the others is as it was.
LEMMA ThreadStep ==
  ASSUME th \in [Tids -> Thread], NEW t \in Tids, NEW user \in Users,
         \A s \in Tids : th[s].at = "busy" => th[s].user \in Users,
         Start(t) \/ Use(t) \/ Exit(t) \/ Begin(t, user) \/ End(t)
  PROVE  /\ th' \in [Tids -> Thread]
         /\ \A s \in Tids : th'[s].at = "busy" => th'[s].user \in Users
<1> DEFINE e == th[t]
<1>0. /\ e \in Thread /\ e.cpu \in Nat /\ e.cpu + 1 \in Nat
      /\ e.at \in {"gone", "idle", "busy"} /\ e.user \in Users \cup {NoUser}
  BY DEF Thread
<1>1. \E r \in Thread : th' = [th EXCEPT ![t] = r] /\ (r.at = "busy" => r.user \in Users)
  <2>1. CASE Start(t)
    <3>1. [e EXCEPT !.at = "idle"] \in Thread /\ [e EXCEPT !.at = "idle"].at = "idle"
      BY <1>0 DEF Thread
    <3> QED BY <2>1, <3>1 DEF Start
  <2>2. CASE Use(t)
    <3>1. /\ [e EXCEPT !.cpu = e.cpu + 1] \in Thread
          /\ [e EXCEPT !.cpu = e.cpu + 1].at = e.at /\ [e EXCEPT !.cpu = e.cpu + 1].user = e.user
      BY <1>0 DEF Thread
    <3>2. th' = [th EXCEPT ![t] = [e EXCEPT !.cpu = e.cpu + 1]]
      BY <2>2 DEF Use
    <3> QED BY <3>1, <3>2
  <2>3. CASE Exit(t)
    <3>1. Gone \in Thread /\ Gone.at = "gone"
      BY DEF Thread, Gone
    <3> QED BY <2>3, <3>1 DEF Exit
  <2>4. CASE Begin(t, user)
    <3>1. [at |-> "busy", user |-> user, cpu |-> e.cpu] \in Thread
      BY <1>0 DEF Thread
    <3> QED BY <2>4, <3>1 DEF Begin
  <2>5. CASE End(t)
    <3>1. [at |-> "idle", user |-> NoUser, cpu |-> e.cpu] \in Thread
      BY <1>0 DEF Thread
    <3> QED BY <2>5, <3>1 DEF End
  <2> QED BY <2>1, <2>2, <2>3, <2>4, <2>5
<1> QED BY <1>1

\* send_info appends to the plugin's connection, or to none.
LEMMA SendType ==
  ASSUME TableType, NEW t \in Tids, NEW user \in Users, NEW type \in {"begin", "end"},
         send_info(t, user, type)
  PROVE  queue' \in [Fds -> Seq(Message)] /\ heard' \in [Tids -> Fds \cup {NoFd}] /\ sends' \in Nat
<1> DEFINE m == [type |-> type, tid |-> t, user |-> user, cpu |-> th[t].cpu, old |-> FALSE]
<1>1. m \in Message
  BY DEF Message, TableType, Thread
<1>2. heard' \in [Tids -> Fds \cup {NoFd}]
  BY DEF send_info, TableType
<1>3. sends' \in Nat
  BY DEF send_info, TableType
<1>4. CASE UNCHANGED queue
  BY <1>2, <1>3, <1>4 DEF TableType
<1>5. CASE sock # NoFd /\ queue' = [queue EXCEPT ![sock] = Append(queue[sock], m)]
  <2>1. Append(queue[sock], m) \in Seq(Message)
    BY <1>1, <1>5, QueueAppend DEF TableType
  <2> HIDE DEF m
  <2>2. queue' \in [Fds -> Seq(Message)]
    BY <1>5, <2>1 DEF TableType
  <2> QED BY <1>2, <1>3, <2>2
<1> QED BY <1>4, <1>5 DEF send_info

\* Entries stay entries when they are renewed, swept or grow older.
LEMMA EntryTypes ==
  ASSUME TableType
  PROVE  /\ NoEntry \in Entry
         /\ \A t \in Tids : Refreshed(t) \in Entry
         /\ \A e \in Entry : \A b \in BOOLEAN : [e EXCEPT !.old = b] \in Entry
         /\ \A m \in Message, f \in Fds : add_new_tid_data(m, f) \in [Tids -> Entry]
<1>1. NoEntry \in Entry
  BY DEF NoEntry, Entry
<1>2. \A t \in Tids : Refreshed(t) \in Entry
  <2> SUFFICES ASSUME NEW t \in Tids PROVE Refreshed(t) \in Entry
    OBVIOUS
  <2>1. threads_list[t] \in Entry /\ th[t].cpu \in Nat
    BY DEF TableType, Thread
  <2> QED BY <2>1 DEF Refreshed, Entry
<1>3. \A e \in Entry : \A b \in BOOLEAN : [e EXCEPT !.old = b] \in Entry
  BY DEF Entry
<1>4. \A m \in Message, f \in Fds : add_new_tid_data(m, f) \in [Tids -> Entry]
  <2> SUFFICES ASSUME NEW m \in Message, NEW f \in Fds
               PROVE  add_new_tid_data(m, f) \in [Tids -> Entry]
    OBVIOUS
  <2> DEFINE e == threads_list[m.tid]
             r == [listed |-> TRUE, user |-> m.user, fd |-> f, old |-> m.old,
                   cpu |-> IF e.listed THEN Larger(m.cpu, e.cpu) ELSE m.cpu]
  <2>1. m.tid \in Tids /\ m.user \in Users /\ m.old \in BOOLEAN /\ m.cpu \in Nat
    BY DEF Message
  <2>2. e.cpu \in Nat
    BY <2>1 DEF TableType, Entry
  <2>3. r \in Entry
    BY <2>1, <2>2 DEF Entry, Larger
  <2>4. add_new_tid_data(m, f) = [threads_list EXCEPT ![m.tid] = r]
    BY DEF add_new_tid_data
  <2> HIDE DEF r
  <2> QED BY <2>1, <2>3, <2>4 DEF TableType
<1> QED BY <1>1, <1>2, <1>3, <1>4

\* Threads, connections and the table keep their types.
LEMMA TypeStep == TableType /\ [Next]_vars => TableType'
<1> SUFFICES ASSUME TableType, [Next]_vars PROVE TableType'
  OBVIOUS
<1>0. NoEntry \in Entry /\ \A t \in Tids : threads_list[t] \in Entry
  BY EntryTypes DEF TableType
<1>1. CASE UNCHANGED vars
  BY <1>1 DEF vars, outside, governor, TableType
<1>2. ASSUME NEW t \in Tids, NEW user \in Users, Begin(t, user) PROVE TableType'
  <2>1. queue' \in [Fds -> Seq(Message)] /\ heard' \in [Tids -> Fds \cup {NoFd}] /\ sends' \in Nat
    BY <1>2, SendType DEF Begin
  <2>2. /\ th' \in [Tids -> Thread]
        /\ \A s \in Tids : th'[s].at = "busy" => th'[s].user \in Users
    BY <1>2, ThreadStep DEF TableType
  <2> QED BY <1>2, <2>1, <2>2 DEF Begin, send_info, governor, TableType
<1>3. ASSUME NEW t \in Tids, End(t) PROVE TableType'
  <2>0. th[t].user \in Users
    BY <1>3 DEF End, TableType
  <2>1. queue' \in [Fds -> Seq(Message)] /\ heard' \in [Tids -> Fds \cup {NoFd}] /\ sends' \in Nat
    BY <1>3, <2>0, SendType DEF End
  <2>2. /\ th' \in [Tids -> Thread]
        /\ \A s \in Tids : th'[s].at = "busy" => th'[s].user \in Users
    BY <1>3, <2>0, ThreadStep DEF TableType
  <2> QED BY <1>3, <2>1, <2>2 DEF End, send_info, governor, TableType
<1>4. ASSUME NEW t \in Tids, Start(t) \/ Use(t) \/ Exit(t) PROVE TableType'
  <2>1. /\ th' \in [Tids -> Thread]
        /\ \A s \in Tids : th'[s].at = "busy" => th'[s].user \in Users
    <3>1. CASE Start(t)
      <4>1. PICK r : r = [th[t] EXCEPT !.at = "idle"]
        OBVIOUS
      <4>2. th[t] \in Thread /\ th \in [Tids -> Thread]
        BY DEF TableType
      <4>3. r \in Thread /\ r.at = "idle"
        BY <4>1, <4>2 DEF Thread
      <4>4. th' = [th EXCEPT ![t] = r]
        BY <3>1, <4>1 DEF Start
      <4>5. th' \in [Tids -> Thread] /\ th'[t].at # "busy" /\ \A s \in Tids \ {t} : th'[s] = th[s]
        BY <4>2, <4>3, <4>4
      <4> QED BY <4>5 DEF TableType
    <3>2. CASE Use(t)
      BY <3>2 DEF Use, TableType, Thread
    <3>3. CASE Exit(t)
      BY <3>3 DEF Exit, TableType, Thread, Gone
    <3> QED BY <1>4, <3>1, <3>2, <3>3
  <2>2. total' \in [Tids -> Nat]
    BY <1>4 DEF Start, Use, Exit, TableType
  <2>3. heard' \in [Tids -> Fds \cup {NoFd}]
    BY <1>4 DEF Start, Use, Exit, TableType
  <2>4. UNCHANGED <<sock, sends, conn, queue, governor, late, removed>>
    BY <1>4 DEF Start, Use, Exit
  <2> QED BY <2>1, <2>2, <2>3, <2>4 DEF governor, TableType
<1>5. CASE (\E f \in Fds : Connect(f)) \/ Close
  <2>1. <<>> \in Seq(Message)
    BY EmptySeq
  <2>2. CASE \E f \in Fds : Connect(f)
    BY <2>2 DEF Connect, governor, TableType
  <2>3. CASE Close
    <3>1. heard' \in [Tids -> Fds \cup {NoFd}]
      BY <2>3 DEF Close, Forget, TableType
    <3>2. queue' \in [Fds -> Seq(Message)] /\ conn' \in [Fds -> {"free", "open", "hungup"}]
      BY <2>1, <2>3 DEF Close, TableType
    <3> QED BY <2>3, <3>1, <3>2 DEF Close, governor, TableType
  <2> QED BY <1>5, <2>2, <2>3
<1>6. ASSUME NEW f \in Fds, Disconnect(f) PROVE TableType'
  <2>1. <<>> \in Seq(Message)
    BY EmptySeq
  <2>2. threads_list' \in [Tids -> Entry]
    BY <1>0, <1>6 DEF Disconnect, remove_tid_data_by_fd
  <2> QED BY <1>6, <2>1, <2>2 DEF Disconnect, Dropped, Forget, TableType
<1>7. CASE PollError
  <2>1. <<>> \in Seq(Message)
    BY EmptySeq
  <2> QED BY <1>7, <2>1 DEF PollError, governor, TableType
<1>8. ASSUME NEW f \in Fds, ReceiveBegin(f) \/ ReceiveEnd(f) PROVE TableType'
  <2>1. /\ queue[f] \in Seq(Message) /\ queue[f] # <<>>
        /\ queue' = [queue EXCEPT ![f] = Tail(queue[f])]
    BY <1>8 DEF ReceiveBegin, ReceiveEnd, Readable, TableType
  <2>2. Tail(queue[f]) \in Seq(Message) /\ Head(queue[f]) \in Message
    BY <2>1, QueueTail
  <2>3. queue' \in [Fds -> Seq(Message)]
    BY <2>1, <2>2 DEF TableType
  <2>4. CASE ReceiveBegin(f)
    <3>1. threads_list' \in [Tids -> Entry]
      BY <2>2, <2>4, EntryTypes DEF ReceiveBegin
    <3> QED BY <2>3, <2>4, <3>1 DEF ReceiveBegin, outside, TableType
  <2>5. CASE ReceiveEnd(f)
    <3> DEFINE m == Head(queue[f])
    <3>1. m.tid \in Tids /\ m.cpu \in Nat
      BY <2>2 DEF Message
    <3>2. threads_list[m.tid] \in Entry
      BY <1>0, <3>1
    <3>3. ending' \in [step : {"no", "add", "remove"}, tid : Tids \cup {NoTid}, cpu : Nat, copy : Entry]
      BY <2>5, <3>1, <3>2 DEF ReceiveEnd, TableType
    <3> QED BY <2>3, <2>5, <3>3 DEF ReceiveEnd, outside, TableType
  <2> QED BY <1>8, <2>4, <2>5
<1>9. CASE EndAdd
  BY <1>9 DEF EndAdd, outside, TableType
<1>10. CASE EndRemove
  BY <1>0, <1>10 DEF EndRemove, outside, NotEnding, TableType
<1>11. CASE Sweep
  <2>1. threads_list' \in [Tids -> Entry]
    BY <1>0, <1>11, EntryTypes DEF Sweep
  <2>2. bad_tid_list' \subseteq Tids /\ late' \subseteq Tids
    BY <1>11 DEF Sweep, TableType
  <2> QED BY <1>11, <2>1, <2>2 DEF Sweep, outside, TableType
<1>12. ASSUME NEW t \in Tids, RemoveBad(t) PROVE TableType'
  BY <1>0, <1>12 DEF RemoveBad, outside, TableType
<1>13. CASE ProceedAccounts
  BY <1>13 DEF ProceedAccounts, outside, TableType
<1>14. CASE Elapse
  <2>1. threads_list' \in [Tids -> Entry]
    <3>1. \A t \in Tids : threads_list[t].listed \in BOOLEAN
      BY <1>0 DEF Entry
    <3> QED BY <1>0, <1>14, <3>1, EntryTypes DEF Elapse
  <2>2. queue' \in [Fds -> Seq(Message)]
    BY <1>14, QueueAges DEF Elapse, TableType
  <2>3. ending' \in [step : {"no", "add", "remove"}, tid : Tids \cup {NoTid}, cpu : Nat, copy : Entry]
    <3>1. ending.copy \in Entry
      BY DEF TableType
    <3>2. [ending.copy EXCEPT !.old = (ending.step # "no")] \in Entry
      BY <3>1, EntryTypes
    <3> QED BY <1>14, <3>2 DEF Elapse, TableType
  <2> QED BY <1>14, <2>1, <2>2, <2>3 DEF Elapse, outside, TableType
<1> QED BY <1>1, <1>2, <1>3, <1>4, <1>5, <1>6, <1>7, <1>8, <1>9, <1>10, <1>11, <1>12, <1>13, <1>14
        DEF Next, Mysqld, Handle, Monitor

----------------------------------------------------------------------------
(* The inductive step *)

\* What is to be shown besides the types.
Conclusion == Connected /\ HeardInv /\ LastInv /\ EndingInv /\ TableAgrees

\* A step that sends, receives and drops no message, and does not touch what the
\* table says of a thread that is heard and has no message on its way.
LEMMA Frame ==
  ASSUME IInv, TableType', UNCHANGED conn \/ Connected', UNCHANGED sock,
         removed \subseteq removed',
         ending'.tid = ending.tid, ending'.step = "no" <=> ending.step = "no",
         \A f \in Fds :
           /\ DOMAIN queue'[f] = DOMAIN queue[f]
           /\ queue[f] = <<>> => queue'[f] = <<>>
           /\ \A i \in DOMAIN queue[f] : /\ queue'[f][i].tid = queue[f][i].tid
                                         /\ queue'[f][i].type = queue[f][i].type
                                         /\ queue'[f][i].user = queue[f][i].user,
         \A t \in Tids : heard'[t] # NoFd =>
           /\ heard'[t] = heard[t] /\ th'[t].at = th[t].at /\ th'[t].user = th[t].user
           /\ ~OnItsWay(t) => /\ threads_list'[t].listed = threads_list[t].listed
                              /\ threads_list'[t].user = threads_list[t].user
                              /\ threads_list'[t].fd = threads_list[t].fd
  PROVE  Conclusion'
<1>1. Connected'
  BY DEF IInv, Connected
<1>2. HeardInv'
  BY DEF IInv, HeardInv
<1>3. \A t \in Tids : Queued(t)' <=> Queued(t)
  BY DEF Queued
<1>4. LastInv'
  <2> SUFFICES ASSUME NEW f \in Fds, NEW i \in DOMAIN queue'[f],
                      heard'[queue'[f][i].tid] # NoFd, LastOf(f, i)'
               PROVE  Says(queue[f][i])'
    BY DEF LastInv, Says
  <2> DEFINE t == queue[f][i].tid
  <2>1. i \in DOMAIN queue[f] /\ queue'[f][i].tid = t /\ t \in Tids
    BY QueueItems DEF IInv, TableType
  <2>2. LastOf(f, i)
    BY <2>1 DEF LastOf
  <2>3. Says(queue[f][i])
    BY <2>1, <2>2 DEF IInv, LastInv
  <2> QED BY <2>1, <2>3 DEF Says
<1>5. EndingInv'
  BY <1>3 DEF IInv, EndingInv
<1>6. TableAgrees'
  BY <1>3 DEF IInv, TableAgrees, OnItsWay
<1> QED BY <1>1, <1>2, <1>4, <1>5, <1>6 DEF Conclusion

\* When the last message of every thread is lost, nothing is said of the table.
LEMMA Silence ==
  ASSUME IInv, TableType', Connected', UNCHANGED ending, \A t \in Tids : heard'[t] = NoFd
  PROVE  Conclusion'
<1>1. \A f \in Fds : \A i \in DOMAIN queue'[f] : queue'[f][i].tid \in Tids
  BY QueueItems DEF TableType
<1>2. LastInv'
  BY <1>1 DEF LastInv
<1>3. HeardInv' /\ EndingInv' /\ TableAgrees'
  BY DEF IInv, HeardInv, EndingInv, TableAgrees
<1> QED BY <1>2, <1>3 DEF Conclusion

\* The plugin sends what the thread does, or loses it.
LEMMA SendStep ==
  ASSUME IInv, TableType', NEW t \in Tids, NEW user \in Users, NEW type \in {"begin", "end"},
         send_info(t, user, type),
         \A s \in Tids \ {t} : th'[s] = th[s],
         th'[t].at # "gone", type = "begin" <=> th'[t].at = "busy",
         type = "begin" => th'[t].user = user
  PROVE  Conclusion'
<1> DEFINE m == [type |-> type, tid |-> t, user |-> user, cpu |-> th[t].cpu, old |-> FALSE]
<1>0. UNCHANGED <<sock, conn, threads_list, ending, removed>>
  BY DEF send_info, governor
<1>1. CASE queue' = queue /\ heard' = [heard EXCEPT ![t] = NoFd]
  <2>1. \A s \in Tids : heard'[s] # NoFd => heard'[s] = heard[s] /\ th'[s] = th[s]
    BY <1>1 DEF IInv, TableType
  <2> QED BY <1>0, <1>1, <2>1, Frame
<1>2. CASE /\ sock # NoFd /\ heard' = [heard EXCEPT ![t] = sock]
           /\ queue' = [queue EXCEPT ![sock] = Append(queue[sock], m)]
  <2>0. sock \in Fds /\ queue[sock] \in Seq(Message)
    BY <1>2 DEF IInv, TableType
  <2>1. m \in Message /\ m.tid = t /\ m.type = type /\ m.user = user
    BY DEF IInv, TableType, Thread, Message
  <2> HIDE DEF m
  <2> DEFINE q == queue[sock]
             n == Len(q) + 1
  <2>2. /\ queue'[sock] = Append(q, m)
        /\ \A g \in Fds \ {sock} : queue'[g] = queue[g]
    BY <1>2, <2>0 DEF IInv, TableType
  <2>3. /\ DOMAIN queue'[sock] = DOMAIN q \cup {n} /\ n \notin DOMAIN q
        /\ \A i \in DOMAIN q : queue'[sock][i] = q[i] /\ i < n
        /\ queue'[sock][n] = m
    BY <2>0, <2>1, <2>2, QueueAppend
  <2> HIDE DEF n
  <2>4. \A g \in Fds \ {sock} : queue'[g] = <<>>
    BY <2>2 DEF IInv, Connected
  <2>5. heard'[t] = sock /\ \A s \in Tids \ {t} : heard'[s] = heard[s]
    BY <1>2 DEF IInv, TableType
  <2>6. Connected'
    BY <1>0, <1>2, <2>0, <2>4 DEF IInv, Connected
  <2>7. HeardInv'
    BY <1>0, <2>5 DEF IInv, HeardInv
  <2>8. Queued(t)' /\ \A s \in Tids : Queued(s) => Queued(s)'
    BY <2>0, <2>1, <2>2, <2>3 DEF Queued
  <2>9. LastInv'
    <3> SUFFICES ASSUME NEW g \in Fds, NEW i \in DOMAIN queue'[g],
                        heard'[queue'[g][i].tid] # NoFd, LastOf(g, i)'
                 PROVE  Says(queue[g][i])'
      BY DEF LastInv, Says
    <3>1. g = sock
      <4>1. DOMAIN <<>> = {}
        OBVIOUS
      <4> QED BY <2>4, <4>1
    <3>2. CASE i = n
      BY <2>1, <2>3, <3>1, <3>2 DEF Says
    <3>3. CASE i \in DOMAIN q
      <4> DEFINE s == q[i].tid
      <4>1. s \in Tids /\ queue'[g][i] = q[i]
        BY <2>0, <2>3, <3>1, <3>3, QueueItems
      <4>2. s # t
        BY <2>1, <2>3, <3>1, <3>3, <4>1 DEF LastOf
      <4>3. LastOf(sock, i)
        BY <2>3, <3>1, <3>3 DEF LastOf
      <4>4. Says(q[i])
        BY <2>0, <2>5, <3>1, <3>3, <4>1, <4>2, <4>3 DEF IInv, LastInv
      <4> QED BY <4>1, <4>2, <4>4 DEF Says
    <3> QED BY <2>3, <3>1, <3>2, <3>3
  <2>10. EndingInv'
    BY <1>0, <2>5, <2>8 DEF IInv, EndingInv
  <2>11. TableAgrees'
    BY <1>0, <2>5, <2>8 DEF IInv, TableAgrees, OnItsWay
  <2> QED BY <2>6, <2>7, <2>9, <2>10, <2>11 DEF Conclusion
<1> QED BY <1>1, <1>2 DEF send_info

\* The socket thread takes the oldest message.  If none of the same thread is
\* left, it says what the thread does.
LEMMA TakeStep ==
  ASSUME IInv, NEW f \in Fds, Readable(f),
         queue' = [queue EXCEPT ![f] = Tail(queue[f])], UNCHANGED <<th, sock, conn, heard>>
  PROVE  LET m == Head(queue[f])
         IN  /\ m \in Message /\ f = sock /\ Connected' /\ HeardInv' /\ LastInv'
             /\ \A s \in Tids \ {m.tid} : Queued(s)' <=> Queued(s)
             /\ \A s \in Tids : s = m.tid /\ heard[s] # NoFd /\ ~Queued(s)' => Says(m)
<1> DEFINE q == queue[f]
           m == Head(q)
<1>1. q \in Seq(Message) /\ q # <<>> /\ conn[f] = "open" /\ f = sock
  BY DEF IInv, TableType, Readable, Connected
<1>2. /\ m \in Message /\ 1 \in DOMAIN q /\ q[1] = m
      /\ \A i \in DOMAIN Tail(q) : i \in Nat /\ i + 1 \in DOMAIN q /\ Tail(q)[i] = q[i + 1]
      /\ \A i \in DOMAIN q : i \in Nat /\ (i > 1 => i - 1 \in DOMAIN Tail(q))
  BY <1>1, QueueTail
<1>3. queue'[f] = Tail(q) /\ \A g \in Fds \ {f} : queue'[g] = queue[g]
  BY DEF IInv, TableType
<1>4. \A i \in DOMAIN q : i = 1 \/ (i - 1 \in DOMAIN queue'[f] /\ queue'[f][i - 1] = q[i])
  <2> SUFFICES ASSUME NEW i \in DOMAIN q, i # 1
               PROVE  i - 1 \in DOMAIN Tail(q) /\ Tail(q)[i - 1] = q[i]
    BY <1>3
  <2>1. i \in 1..Len(q) /\ Len(q) \in Nat
    BY <1>1, LenProperties
  <2> HIDE DEF q
  <2> QED BY <1>2, <2>1
<1>5. \A g \in Fds \ {f} : queue[g] = <<>> /\ queue'[g] = <<>>
  BY <1>1, <1>3 DEF IInv, Connected
<1>6. DOMAIN <<>> = {}
  OBVIOUS
<1>7. Connected' /\ HeardInv'
  BY <1>1, <1>5 DEF IInv, Connected, HeardInv
<1> HIDE DEF q, m
<1>8. LastInv'
  <2> SUFFICES ASSUME NEW g \in Fds, NEW i \in DOMAIN queue'[g],
                      heard'[queue'[g][i].tid] # NoFd, LastOf(g, i)'
               PROVE  Says(queue[g][i])'
    BY DEF LastInv, Says
  <2>1. g = f /\ i \in Nat /\ i + 1 \in DOMAIN q /\ queue'[f][i] = q[i + 1]
    BY <1>2, <1>3, <1>5, <1>6
  <2>2. LastOf(f, i + 1)
    <3> SUFFICES ASSUME NEW j \in DOMAIN q, j > i + 1 PROVE q[j].tid # q[i + 1].tid
      BY DEF LastOf, q
    <3>1. j \in Nat /\ j - 1 \in DOMAIN queue'[f] /\ queue'[f][j - 1] = q[j] /\ j - 1 > i
      BY <1>2, <1>4, <2>1
    <3> QED BY <2>1, <3>1 DEF LastOf
  <2>3. Says(q[i + 1])
    BY <2>1, <2>2 DEF IInv, LastInv, q
  <2> QED BY <2>1, <2>3 DEF Says
<1>9. ASSUME NEW s \in Tids, s # m.tid PROVE Queued(s)' <=> Queued(s)
  <2>1. ASSUME Queued(s)' PROVE Queued(s)
    <3>1. PICK g \in Fds : \E i \in DOMAIN queue'[g] : queue'[g][i].tid = s
      BY <2>1 DEF Queued
    <3>2. g = f
      BY <1>5, <1>6, <3>1
    <3> QED BY <1>2, <1>3, <3>1, <3>2 DEF Queued, q
  <2>2. ASSUME Queued(s) PROVE Queued(s)'
    <3>1. PICK g \in Fds : \E i \in DOMAIN queue[g] : queue[g][i].tid = s
      BY <2>2 DEF Queued
    <3>2. g = f
      BY <1>5, <1>6, <3>1
    <3>3. PICK i \in DOMAIN q : q[i].tid = s
      BY <3>1, <3>2 DEF q
    <3>4. i # 1
      BY <1>2, <1>9, <3>3
    <3> QED BY <1>4, <3>3, <3>4 DEF Queued
  <2> QED BY <2>1, <2>2
<1>10. ASSUME NEW s \in Tids, s = m.tid, heard[s] # NoFd, ~Queued(s)' PROVE Says(m)
  <2>1. LastOf(f, 1)
    <3> SUFFICES ASSUME NEW j \in DOMAIN q, j > 1 PROVE q[j].tid # m.tid
      BY <1>2 DEF LastOf, q
    <3>1. j - 1 \in DOMAIN queue'[f] /\ queue'[f][j - 1] = q[j]
      BY <1>2, <1>4
    <3> QED BY <1>10, <3>1 DEF Queued
  <2> QED BY <1>2, <1>10, <2>1 DEF IInv, LastInv, q
<1> QED BY <1>1, <1>2, <1>7, <1>8, <1>9, <1>10 DEF q, m

\* Every step keeps the invariant.
LEMMA Step == IInv /\ [Next]_vars => IInv'
<1> SUFFICES ASSUME IInv, [Next]_vars PROVE IInv'
  OBVIOUS
<1>0. TableType /\ TableType'
  BY TypeStep DEF IInv
<1> SUFFICES Conclusion'
  BY <1>0 DEF IInv, Conclusion
<1>1. CASE UNCHANGED vars
  BY <1>0, <1>1, Frame DEF vars, outside, governor
<1>2. ASSUME NEW t \in Tids, Start(t) PROVE Conclusion'
  <2>1. heard[t] = NoFd
    BY <1>2 DEF Start, IInv, HeardInv
  <2>2. \A s \in Tids \ {t} : th'[s] = th[s]
    BY <1>0, <1>2 DEF Start, TableType
  <2> QED BY <1>0, <1>2, <2>1, <2>2, Frame DEF Start, governor
<1>3. ASSUME NEW t \in Tids, Use(t) PROVE Conclusion'
  <2>1. \A s \in Tids : th'[s].at = th[s].at /\ th'[s].user = th[s].user
    BY <1>0, <1>3 DEF Use, TableType, Thread
  <2> QED BY <1>0, <1>3, <2>1, Frame DEF Use, governor
<1>4. ASSUME NEW t \in Tids, Exit(t) PROVE Conclusion'
  <2>1. heard'[t] = NoFd /\ \A s \in Tids \ {t} : th'[s] = th[s] /\ heard'[s] = heard[s]
    BY <1>0, <1>4 DEF Exit, TableType
  <2> QED BY <1>0, <1>4, <2>1, Frame DEF Exit, governor
<1>5. ASSUME NEW t \in Tids, NEW user \in Users, Begin(t, user) PROVE Conclusion'
  <2>1. th'[t].at = "busy" /\ th'[t].user = user /\ \A s \in Tids \ {t} : th'[s] = th[s]
    BY <1>0, <1>5 DEF Begin, TableType
  <2> QED BY <1>0, <1>5, <2>1, SendStep DEF Begin
<1>6. ASSUME NEW t \in Tids, End(t) PROVE Conclusion'
  <2>1. th'[t].at = "idle" /\ \A s \in Tids \ {t} : th'[s] = th[s]
    BY <1>0, <1>6 DEF End, TableType
  <2>2. th[t].user \in Users
    BY <1>0, <1>6 DEF End, TableType
  <2> QED BY <1>0, <1>6, <2>1, <2>2, SendStep DEF End
<1>7. ASSUME NEW f \in Fds, Connect(f) PROVE Conclusion'
  <2>1. \A t \in Tids : heard'[t] = NoFd
    BY <1>7 DEF Connect, IInv, HeardInv
  <2>2. Connected'
    BY <1>0, <1>7, ConstantsAssumption DEF Connect, IInv, Connected, TableType
  <2> QED BY <1>0, <1>7, <2>1, <2>2, Silence DEF Connect, governor
<1>8. CASE Close
  <2>1. \A t \in Tids : heard'[t] = NoFd
    BY <1>8 DEF Close, Forget, IInv, HeardInv
  <2>2. Connected'
    BY <1>0, <1>8 DEF Close, IInv, Connected, TableType
  <2> QED BY <1>0, <1>8, <2>1, <2>2, Silence DEF Close, governor
<1>9. ASSUME NEW f \in Fds, Disconnect(f) PROVE Conclusion'
  <2>0. f # NoFd /\ UNCHANGED <<th, ending, removed>>
    BY <1>9, ConstantsAssumption DEF Disconnect
  <2>1. CASE sock = f
    <3>1. \A t \in Tids : heard'[t] = NoFd
      BY <1>9, <2>1 DEF Disconnect, Dropped, Forget, IInv, HeardInv
    <3>2. Connected'
      BY <1>0, <1>9, <2>1 DEF Disconnect, Dropped, IInv, Connected, TableType
    <3> QED BY <1>0, <2>0, <3>1, <3>2, Silence
  <2>2. CASE sock # f
    <3>1. conn[f] # "open" /\ queue[f] = <<>>
      BY <2>2 DEF IInv, Connected
    <3>2. queue' = queue /\ sock' = sock
      BY <1>0, <1>9, <2>2, <3>1 DEF Disconnect, Dropped, TableType
    <3>3. \A t \in Tids : heard'[t] = heard[t]
      BY <1>9, <2>0, <2>2 DEF Disconnect, Dropped, Forget, IInv, HeardInv
    <3>4. \A t \in Tids : heard[t] # NoFd /\ ~OnItsWay(t) => threads_list'[t] = threads_list[t]
      BY <1>9, <2>2 DEF Disconnect, remove_tid_data_by_fd, IInv, HeardInv, TableAgrees
    <3>5. conn' = [conn EXCEPT ![f] = "free"]
      BY <1>9 DEF Disconnect, Dropped
    <3>6. Connected'
      BY <1>0, <2>2, <3>1, <3>2, <3>5 DEF IInv, Connected, TableType
    <3> QED BY <1>0, <2>0, <3>2, <3>3, <3>4, <3>6, Frame
  <2> QED BY <2>1, <2>2
<1>10. CASE PollError
  <2>1. Connected'
    BY <1>10 DEF PollError, Connected
  <2> QED BY <1>0, <1>10, <2>1, Silence DEF PollError, governor
<1>11. ASSUME NEW f \in Fds, ReceiveBegin(f) PROVE Conclusion'
  <2> DEFINE m == Head(queue[f])
  <2>1. /\ Readable(f) /\ queue' = [queue EXCEPT ![f] = Tail(queue[f])]
        /\ UNCHANGED <<th, sock, conn, heard, ending>> /\ m.type = "begin"
        /\ threads_list' = add_new_tid_data(m, f) /\ removed' = removed \ {m.tid}
    BY <1>11 DEF ReceiveBegin, outside
  <2>2. /\ m \in Message /\ f = sock /\ Connected' /\ HeardInv' /\ LastInv'
        /\ \A s \in Tids \ {m.tid} : Queued(s)' <=> Queued(s)
        /\ \A s \in Tids : s = m.tid /\ heard[s] # NoFd /\ ~Queued(s)' => Says(m)
    BY <2>1, TakeStep
  <2> HIDE DEF m
  <2>3. ending.tid = NoTid /\ ending.step = "no" /\ NoTid \notin Tids
    BY <2>1, ConstantsAssumption DEF Readable, IInv, EndingInv
  <2>4. EndingInv'
    BY <2>1, <2>3 DEF EndingInv
  <2>5. m.tid \in Tids
    BY <2>2 DEF Message
  <2>6. \A s \in Tids \ {m.tid} : threads_list'[s] = threads_list[s]
    BY <1>0, <2>1, <2>5 DEF add_new_tid_data, TableType
  <2>7. threads_list'[m.tid].listed /\ threads_list'[m.tid].user = m.user /\ threads_list'[m.tid].fd = f
    BY <1>0, <2>1, <2>5 DEF add_new_tid_data, TableType
  <2>8. TableAgrees'
    <3> SUFFICES ASSUME NEW s \in Tids, heard'[s] # NoFd, ~OnItsWay(s)'
                 PROVE  /\ threads_list'[s].listed =>
                             /\ th'[s].at = "busy" /\ threads_list'[s].user = th'[s].user
                             /\ threads_list'[s].fd = heard'[s]
                        /\ th'[s].at = "busy" => threads_list'[s].listed \/ s \in removed'
      BY DEF TableAgrees
    <3>1. CASE s = m.tid
      <4>1. Says(m)
        BY <2>1, <2>2, <3>1 DEF OnItsWay
      <4>2. heard[s] = f
        BY <2>1, <2>2 DEF IInv, HeardInv
      <4> QED BY <2>1, <2>7, <3>1, <4>1, <4>2 DEF Says
    <3>2. CASE s # m.tid
      <4>1. ~OnItsWay(s)
        BY <2>1, <2>2, <3>2 DEF OnItsWay
      <4> QED BY <2>1, <2>6, <3>2, <4>1 DEF IInv, TableAgrees
    <3> QED BY <3>1, <3>2
  <2> QED BY <2>2, <2>4, <2>8 DEF Conclusion
<1>12. ASSUME NEW f \in Fds, ReceiveEnd(f) PROVE Conclusion'
  <2> DEFINE m == Head(queue[f])
  <2>1. /\ Readable(f) /\ queue' = [queue EXCEPT ![f] = Tail(queue[f])]
        /\ UNCHANGED <<th, sock, conn, heard, threads_list, removed>> /\ m.type = "end"
        /\ \/ threads_list[m.tid].listed /\ ending'.tid = m.tid /\ ending'.step = "add"
           \/ ~threads_list[m.tid].listed /\ ending' = ending
    BY <1>0, <1>12 DEF ReceiveEnd, outside
  <2>2. /\ m \in Message /\ f = sock /\ Connected' /\ HeardInv' /\ LastInv'
        /\ \A s \in Tids \ {m.tid} : Queued(s)' <=> Queued(s)
        /\ \A s \in Tids : s = m.tid /\ heard[s] # NoFd /\ ~Queued(s)' => Says(m)
    BY <2>1, TakeStep
  <2> HIDE DEF m
  <2>3. ending.tid = NoTid /\ ending.step = "no" /\ NoTid \notin Tids
    BY <2>1, ConstantsAssumption DEF Readable, IInv, EndingInv
  <2>4. m.tid \in Tids
    BY <2>2 DEF Message
  <2>5. \A s \in Tids : s = m.tid /\ heard[s] # NoFd /\ ~Queued(s)' => th[s].at # "busy"
    BY <2>1, <2>2 DEF Says
  <2>6. EndingInv'
    BY <2>1, <2>3, <2>4, <2>5 DEF EndingInv
  <2>7. TableAgrees'
    BY <2>1, <2>2, <2>3, <2>4, <2>5 DEF IInv, TableAgrees, OnItsWay
  <2> QED BY <2>2, <2>6, <2>7 DEF Conclusion
<1>13. CASE EndAdd
  <2>1. ending'.tid = ending.tid /\ ending.step # "no" /\ ending'.step # "no"
    BY <1>0, <1>13 DEF EndAdd, TableType
  <2> QED BY <1>0, <1>13, <2>1, Frame DEF EndAdd, outside
<1>14. CASE EndRemove
  <2>1. /\ UNCHANGED <<th, sock, conn, queue, heard, removed>>
        /\ ending'.step = "no" /\ ending'.tid = NoTid
        /\ threads_list' = [threads_list EXCEPT ![ending.tid] = NoEntry] /\ NoTid \notin Tids
    BY <1>14, ConstantsAssumption DEF EndRemove, outside, NotEnding
  <2>2. /\ \A s \in Tids : s # ending.tid => threads_list'[s] = threads_list[s]
        /\ \A s \in Tids : s = ending.tid => ~threads_list'[s].listed
    BY <1>0, <2>1 DEF TableType, NoEntry
  <2>3. Connected' /\ HeardInv' /\ LastInv' /\ \A s \in Tids : Queued(s)' <=> Queued(s)
    BY <2>1 DEF IInv, Connected, HeardInv, LastInv, LastOf, Says, Queued
  <2>4. EndingInv'
    BY <2>1 DEF EndingInv
  <2>5. TableAgrees'
    BY <2>1, <2>2, <2>3 DEF IInv, EndingInv, TableAgrees, OnItsWay
  <2> QED BY <2>3, <2>4, <2>5 DEF Conclusion
<1>15. CASE Sweep
  <2>1. \A t \in Tids : /\ threads_list'[t].listed = threads_list[t].listed
                        /\ threads_list'[t].user = threads_list[t].user
                        /\ threads_list'[t].fd = threads_list[t].fd
    <3>1. \A t \in Tids : threads_list'[t] = threads_list[t] \/ threads_list'[t] = Refreshed(t)
      BY <1>15 DEF Sweep
    <3>2. \A t \in Tids : threads_list[t] \in Entry
      BY <1>0 DEF TableType
    <3> QED BY <3>1, <3>2 DEF Refreshed, Entry
  <2> QED BY <1>0, <1>15, <2>1, Frame DEF Sweep, outside
<1>16. ASSUME NEW t \in Tids, RemoveBad(t) PROVE Conclusion'
  <2>1. /\ UNCHANGED <<th, sock, conn, queue, heard, ending>>
        /\ threads_list' = [threads_list EXCEPT ![t] = NoEntry]
        /\ removed' = IF threads_list[t].listed THEN removed \cup {t} ELSE removed
    BY <1>16 DEF RemoveBad, outside
  <2>2. /\ ~threads_list'[t].listed
        /\ \A s \in Tids \ {t} : threads_list'[s] = threads_list[s]
    BY <1>0, <2>1 DEF TableType, NoEntry
  <2>3. removed \subseteq removed' /\ (threads_list[t].listed => t \in removed')
    BY <2>1
  <2>4. Connected' /\ HeardInv' /\ LastInv' /\ \A s \in Tids : Queued(s)' <=> Queued(s)
    BY <2>1 DEF IInv, Connected, HeardInv, LastInv, LastOf, Says, Queued
  <2>5. EndingInv'
    BY <2>1, <2>4 DEF IInv, EndingInv
  <2>6. TableAgrees'
    BY <2>1, <2>2, <2>3, <2>4 DEF IInv, TableAgrees, OnItsWay
  <2> QED BY <2>4, <2>5, <2>6 DEF Conclusion
<1>17. CASE ProceedAccounts
  BY <1>0, <1>17, Frame DEF ProceedAccounts, outside
<1>18. CASE Elapse
  <2>1. \A t \in Tids : /\ threads_list'[t].listed = threads_list[t].listed
                        /\ threads_list'[t].user = threads_list[t].user
                        /\ threads_list'[t].fd = threads_list[t].fd
    BY <1>0, <1>18 DEF Elapse, TableType, Entry
  <2>2. ending'.tid = ending.tid /\ ending'.step = ending.step
    BY <1>0, <1>18 DEF Elapse, TableType
  <2>3. ASSUME NEW f \in Fds
        PROVE  /\ DOMAIN queue'[f] = DOMAIN queue[f]
               /\ queue[f] = <<>> => queue'[f] = <<>>
               /\ \A i \in DOMAIN queue[f] : /\ queue'[f][i].tid = queue[f][i].tid
                                             /\ queue'[f][i].type = queue[f][i].type
                                             /\ queue'[f][i].user = queue[f][i].user
    <3>1. queue'[f] = [i \in DOMAIN queue[f] |-> [queue[f][i] EXCEPT !.old = TRUE]]
      BY <1>18 DEF Elapse
    <3>2. queue[f] \in Seq(Message) /\ queue'[f] \in Seq(Message)
      BY <1>0 DEF TableType
    <3>3. \A i \in DOMAIN queue[f] : queue[f][i] \in Message
      BY <3>2, QueueItems
    <3>4. queue[f] = <<>> => queue'[f] = <<>>
      BY <3>1, <3>2, EmptySeq, LenProperties
    <3> QED BY <3>1, <3>3, <3>4 DEF Message
  <2> QED BY <1>0, <1>18, <2>1, <2>2, <2>3, Frame DEF Elapse, outside
<1> QED BY <1>1, <1>2, <1>3, <1>4, <1>5, <1>6, <1>7, <1>8, <1>9, <1>10, <1>11, <1>12, <1>13,
           <1>14, <1>15, <1>16, <1>17, <1>18
        DEF Next, Mysqld, Handle, Monitor

\* When the messages of a thread have been handled and none was lost since, an
\* entry of the table the governor charges users by is that of the thread's query,
\* and the query has one unless the one-second thread has removed it: for any
\* number of threads, users and connections (add_new_tid_data, remove_tid_data,
\* remove_tid_data_by_fd, proceed_tid_data).
THEOREM TableAgreesHolds == Spec => []TableAgrees
<1>1. IInv => TableAgrees
  BY DEF IInv
<1> QED BY <1>1, InitOK, Step, PTL DEF Spec

-----------------------------------------------------------------------------
(* No usage is charged twice. *)

\* What the plugin has sent on its connection, the only one with anything to read.
Sent == IF sock = NoFd THEN <<>> ELSE queue[sock]

\* What the earlier threads with the id t used.
Before == [t \in Tids |-> total[t] - th[t].cpu]

\* The types of the counters. Entries are charged to users.
CountType ==
  /\ counters \in [Users -> Nat] /\ taken \in Nat
  /\ \A t \in Tids : th[t].cpu <= total[t]
  /\ \A t \in Tids : threads_list[t].listed => threads_list[t].user \in Users
  /\ ending.step = "add" => ending.copy.user \in Users

\* The ledger. On the scale of total[t], on which all threads with one id follow
\* each other, mark[t] is the point up to which usage may have been charged, and
\* o[i] the point at which the thread began that sent the i-th message; so
\* o[i] + cpu is where that thread was when it sent the message. w is o of the
\* end that is being handled.
Place(o, i) == o[i] + Sent[i].cpu

Charged(mark) == taken + SumFunctionOnSet(counters, Users) <= SumFunctionOnSet(mark, Tids)

Within(mark) == \A t \in Tids : mark[t] \in Nat /\ mark[t] <= total[t]

\* Messages lie in the past, those of a thread in their order.
Placed(o) ==
  /\ \A i \in DOMAIN Sent : /\ o[i] \in Nat /\ o[i] <= Before[Sent[i].tid]
                            /\ Place(o, i) <= total[Sent[i].tid]
  /\ \A i, j \in DOMAIN Sent : i < j /\ Sent[i].tid = Sent[j].tid =>
       o[i] <= o[j] /\ Place(o, i) <= Place(o, j)

\* Nothing is charged up to a point after a message that is to come.
Ahead(mark, o) == \A i \in DOMAIN Sent : mark[Sent[i].tid] <= Place(o, i)

\* With what it is measured from, the usage of the thread now and at each message
\* to come begins where charging ended, or later.
Based(mark, o) ==
  \A t \in Tids : threads_list[t].listed /\ ending.tid # t =>
    /\ mark[t] <= Before[t] + threads_list[t].cpu
    /\ \A i \in DOMAIN Sent : Sent[i].tid = t => mark[t] <= o[i] + threads_list[t].cpu

\* So does that of the end that is being handled, and the others come after it.
Closing(mark, o, w) ==
  ending.step = "add" =>
    /\ w \in Nat
    /\ mark[ending.tid] <= w + ending.copy.cpu
    /\ mark[ending.tid] <= w + ending.cpu
    /\ w + ending.cpu <= total[ending.tid]
    /\ \A i \in DOMAIN Sent : Sent[i].tid = ending.tid => w + ending.cpu <= Place(o, i)

Ledger(mark, o, w) ==
  /\ Charged(mark) /\ Within(mark) /\ Placed(o) /\ Ahead(mark, o) /\ Based(mark, o)
  /\ Closing(mark, o, w)

\* The inductive invariant.
ChargeInv == CountType /\ (late = {} => \E mark, o, w : Ledger(mark, o, w))

\* What a message, a thread and an entry have is natural numbers.
Numbers ==
  /\ Sent \in Seq(Message)
  /\ \A i \in DOMAIN Sent : i \in Nat /\ Sent[i].tid \in Tids /\ Sent[i].cpu \in Nat
  /\ \A t \in Tids : /\ total[t] \in Nat /\ th[t].cpu \in Nat /\ Before[t] \in Nat
                     /\ Before[t] + th[t].cpu = total[t]
                     /\ threads_list[t].cpu \in Nat
  /\ ending.cpu \in Nat /\ ending.copy.cpu \in Nat
  /\ ending.step # "no" => ending.tid \in Tids

\* It follows from the invariants.
LEMMA NumbersOK == IInv /\ CountType => Numbers
<1> SUFFICES ASSUME IInv, CountType PROVE Numbers
  OBVIOUS
<1>1. Sent \in Seq(Message)
  <2>1. CASE sock = NoFd
    BY <2>1, EmptySeq DEF Sent
  <2>2. CASE sock # NoFd
    BY <2>2 DEF Sent, IInv, TableType
  <2> QED BY <2>1, <2>2
<1>2. \A i \in DOMAIN Sent : i \in Nat /\ Sent[i].tid \in Tids /\ Sent[i].cpu \in Nat
  <2>1. \A i \in DOMAIN Sent : Sent[i] \in Message
    BY <1>1, QueueItems
  <2>2. DOMAIN Sent \subseteq Nat
    BY <1>1, LenProperties
  <2> QED BY <2>1, <2>2 DEF Message
<1>3. ASSUME NEW t \in Tids
      PROVE  /\ total[t] \in Nat /\ th[t].cpu \in Nat /\ Before[t] \in Nat
             /\ Before[t] + th[t].cpu = total[t]
             /\ threads_list[t].cpu \in Nat
  <2>1. th[t] \in Thread /\ threads_list[t] \in Entry /\ total[t] \in Nat
    BY DEF IInv, TableType
  <2>2. th[t].cpu \in Nat /\ threads_list[t].cpu \in Nat
    BY <2>1 DEF Thread, Entry
  <2>3. th[t].cpu <= total[t]
    BY DEF CountType
  <2> QED BY <2>1, <2>2, <2>3 DEF Before
<1>4. ending.cpu \in Nat /\ ending.copy.cpu \in Nat
  BY DEF IInv, TableType, Entry
<1>5. ending.step # "no" => ending.tid \in Tids
  BY DEF IInv, TableType, EndingInv
<1> QED BY <1>1, <1>2, <1>3, <1>4, <1>5 DEF Numbers

\* A message of a thread is on the plugin's connection, if anywhere.
LEMMA QueuedIsSent ==
  ASSUME IInv, NEW t \in Tids
  PROVE  \A i \in DOMAIN Sent : Sent[i].tid = t => Queued(t)
<1> SUFFICES ASSUME NEW i \in DOMAIN Sent, Sent[i].tid = t PROVE Queued(t)
  OBVIOUS
<1>1. DOMAIN <<>> = {}
  OBVIOUS
<1>2. sock # NoFd
  BY <1>1 DEF Sent
<1>3. sock \in Fds
  BY <1>2 DEF IInv, TableType
<1> QED BY <1>2, <1>3 DEF Sent, Queued

\* What is added to a counter is a natural number, and no more than the usage
\* since the one it is measured from.
LEMMA DifferenceSmall ==
  ASSUME NEW cpu \in Nat, NEW e, e.cpu \in Nat, NEW x \in Difference(cpu, e)
  PROVE  x \in Nat /\ (x = 0 \/ x + e.cpu <= cpu)
<1> DEFINE diff == IF cpu >= e.cpu THEN cpu - e.cpu ELSE 0
<1>1. diff \in Nat /\ (diff = 0 \/ diff + e.cpu = cpu)
  OBVIOUS
<1>2. x \in IF e.old THEN {0} \cup 0..(diff - 1) ELSE {0, diff}
  BY DEF Difference
<1> HIDE DEF diff
<1>3. x \in Nat /\ (x = 0 \/ x <= diff)
  BY <1>1, <1>2
<1> QED BY <1>1, <1>3

\* A sweep adds to the counters what it adds for the threads it reads.
LEMMA SweepCharges ==
  ASSUME counters \in [Users -> Nat], NEW read \in SUBSET Tids, NEW x \in [read -> 0..MaxUse],
         \A t \in read : threads_list[t].user \in Users,
         counters' = [u \in Users |->
           counters[u] + SumFunctionOnSet(x, {t \in read : threads_list[t].user = u})]
  PROVE  /\ counters' \in [Users -> Nat]
         /\ SumFunctionOnSet(counters', Users)
              = SumFunctionOnSet(counters, Users) + SumFunctionOnSet(x, read)
<1>1. IsFiniteSet(Users) /\ IsFiniteSet(read) /\ \A t \in read : x[t] \in Nat /\ x[t] \in Int
  BY ConstantsAssumption, FS_Subset
<1> DEFINE name == [t \in read |-> threads_list[t].user]
           part == [u \in Users |-> {t \in read : name[t] = u}]
           g == [u \in Users |-> SumFunctionOnSet(x, part[u])]
           c == counters
           d == counters'
<1>2. \A u \in Users : {t \in read : threads_list[t].user = u} = part[u]
  OBVIOUS
<1>3. \A t \in read : name[t] \in Users
  OBVIOUS
<1>4. \A u \in Users : part[u] = {t \in read : name[t] = u} /\ part[u] \in SUBSET read
  OBVIOUS
<1>5. d = [u \in Users |-> c[u] + SumFunctionOnSet(x, part[u])] /\ c \in [Users -> Nat]
  BY <1>2
<1> HIDE DEF name, part, c, d
<1>6. \A u \in Users : g[u] = SumFunctionOnSet(x, part[u])
  OBVIOUS
<1>7. d = [u \in Users |-> c[u] + g[u]]
  BY <1>5, <1>6
<1> HIDE DEF g
<1>8. \A u \in Users : g[u] \in Nat
  <2>1. \A u \in Users : IsFiniteSet(part[u]) /\ \A t \in part[u] : x[t] \in Nat
    BY <1>1, <1>4, FS_Subset
  <2> QED BY <1>6, <2>1, SumType
<1>9. SumFunctionOnSet(g, Users) = SumFunctionOnSet(x, read)
  <2>1. \A u \in Users : \A t \in read : t \in part[u] <=> name[t] = u
    BY <1>4
  <2>2. name \in [read -> Users] /\ part \in [Users -> SUBSET read]
    BY <1>3, <1>4 DEF name, part
  <2> QED BY <1>1, <1>6, <2>1, <2>2, SumParts
<1>10. \A u \in Users : c[u] \in Int /\ g[u] \in Int /\ d[u] = c[u] + g[u]
  BY <1>5, <1>7, <1>8
<1>11. SumFunctionOnSet(d, Users) = SumFunctionOnSet(c, Users) + SumFunctionOnSet(g, Users)
  BY <1>1, <1>10, SumPlus
<1>12. d \in [Users -> Nat]
  BY <1>5, <1>7, <1>8
<1> QED BY <1>9, <1>11, <1>12 DEF c, d

\* The sum of the counters is a natural number.
LEMMA CountersSum == CountType => SumFunctionOnSet(counters, Users) \in Nat
  BY ConstantsAssumption, SumType DEF CountType

\* Counters stay natural numbers, entries stay those of users.
LEMMA CountStep == IInv /\ CountType /\ [Next]_vars => CountType'
<1> SUFFICES ASSUME IInv, CountType, [Next]_vars PROVE CountType'
  OBVIOUS
<1>0. Numbers /\ TableType
  BY NumbersOK DEF IInv
<1>a. ASSUME UNCHANGED <<counters, taken, threads_list, ending>>,
             \A t \in Tids : th'[t].cpu <= total'[t]
      PROVE  CountType'
  BY <1>a DEF CountType
<1>b. ASSUME UNCHANGED <<counters, taken, th, total>>,
             \A t \in Tids : threads_list'[t].listed => threads_list'[t].user \in Users,
             ending'.step = "add" => ending'.copy.user \in Users
      PROVE  CountType'
  BY <1>b DEF CountType
<1>1. CASE UNCHANGED vars
  BY <1>1 DEF vars, outside, governor, CountType
<1>2. ASSUME NEW t \in Tids, Start(t) \/ Exit(t) \/ Use(t) \/ End(t)
      PROVE  CountType'
  <2>1. UNCHANGED <<counters, taken, threads_list, ending>>
    BY <1>2 DEF Start, Exit, Use, End, send_info, governor
  <2>2. th'[t].cpu <= total'[t]
    <3>0. /\ th \in [Tids -> Thread] /\ th[t] \in Thread /\ total \in [Tids -> Nat]
          /\ th[t].cpu \in Nat /\ total[t] \in Nat /\ th[t].cpu <= total[t]
      BY <1>0 DEF TableType, Numbers, CountType
    <3>1. CASE Start(t)
      <4>1. th'[t].cpu = th[t].cpu /\ total' = total
        BY <3>0, <3>1 DEF Start, Thread
      <4> QED BY <3>0, <4>1
    <3>2. CASE Exit(t)
      <4>1. th'[t].cpu = 0 /\ total' = total
        BY <3>0, <3>2 DEF Exit, Gone
      <4> QED BY <3>0, <4>1
    <3>3. CASE Use(t)
      <4>1. th'[t].cpu = th[t].cpu + 1 /\ total'[t] = total[t] + 1
        BY <3>0, <3>3 DEF Use, Thread
      <4> QED BY <3>0, <4>1
    <3>4. CASE End(t)
      <4>1. th'[t].cpu = th[t].cpu /\ total' = total
        BY <3>0, <3>4 DEF End, send_info
      <4> QED BY <3>0, <4>1
    <3> QED BY <1>2, <3>1, <3>2, <3>3, <3>4
  <2>3. \A s \in Tids \ {t} : th'[s] = th[s] /\ total'[s] = total[s]
    BY <1>0, <1>2 DEF Start, Exit, Use, End, send_info, TableType
  <2>4. \A s \in Tids : th'[s].cpu <= total'[s]
    BY <2>2, <2>3 DEF CountType
  <2> QED BY <1>a, <2>1, <2>4
<1>3. ASSUME NEW t \in Tids, NEW user \in Users, Begin(t, user) PROVE CountType'
  <2>1. UNCHANGED <<counters, taken, threads_list, ending, total>>
    BY <1>3 DEF Begin, send_info, governor
  <2>2. \A s \in Tids : th'[s].cpu = th[s].cpu
    BY <1>0, <1>3 DEF Begin, TableType, Thread
  <2>3. \A s \in Tids : th'[s].cpu <= total'[s]
    BY <2>1, <2>2 DEF CountType
  <2> QED BY <1>a, <2>1, <2>3
<1>4. CASE (\E f \in Fds : Connect(f)) \/ Close \/ PollError
  <2>1. UNCHANGED <<counters, taken, threads_list, ending, th, total>>
    BY <1>4 DEF Connect, Close, PollError, governor
  <2> QED BY <1>a, <2>1 DEF CountType
<1>5. ASSUME NEW f \in Fds, Disconnect(f) PROVE CountType'
  <2>1. /\ UNCHANGED <<counters, taken, ending, th, total>>
        /\ \A t \in Tids : threads_list'[t] = NoEntry \/ threads_list'[t] = threads_list[t]
    BY <1>5 DEF Disconnect, remove_tid_data_by_fd
  <2> QED BY <1>b, <2>1 DEF CountType, NoEntry
<1>6. ASSUME NEW f \in Fds, ReceiveBegin(f) PROVE CountType'
  <2> DEFINE m == Head(queue[f])
  <2>1. m \in Message
    BY <1>0, <1>6, QueueTail DEF ReceiveBegin, Readable, TableType
  <2>2. UNCHANGED <<counters, taken, ending, th, total>> /\ threads_list' = add_new_tid_data(m, f)
    BY <1>6 DEF ReceiveBegin, outside
  <2> HIDE DEF m
  <2>3. m.tid \in Tids /\ m.user \in Users
    BY <2>1 DEF Message
  <2>4. \A t \in Tids : \/ threads_list'[t] = threads_list[t]
                        \/ threads_list'[t].user = m.user
    BY <1>0, <2>2, <2>3 DEF add_new_tid_data, TableType
  <2> QED BY <1>b, <2>2, <2>3, <2>4 DEF CountType
<1>7. ASSUME NEW f \in Fds, ReceiveEnd(f) PROVE CountType'
  <2> DEFINE m == Head(queue[f])
  <2>1. m \in Message
    BY <1>0, <1>7, QueueTail DEF ReceiveEnd, Readable, TableType
  <2>2. /\ UNCHANGED <<counters, taken, threads_list, th, total>>
        /\ \/ threads_list[m.tid].listed /\ ending'.copy = threads_list[m.tid]
           \/ ending' = ending
    BY <1>7 DEF ReceiveEnd, outside
  <2> HIDE DEF m
  <2>3. m.tid \in Tids
    BY <2>1 DEF Message
  <2> QED BY <1>b, <2>2, <2>3 DEF CountType
<1>8. CASE EndAdd
  <2>1. PICK x \in Difference(ending.cpu, ending.copy) :
               counters' = [counters EXCEPT ![ending.copy.user] = @ + x]
    BY <1>8 DEF EndAdd
  <2>2. x \in Nat
    BY <1>0, <2>1, DifferenceSmall DEF Numbers
  <2>3. counters' \in [Users -> Nat]
    BY <1>8, <2>1, <2>2 DEF EndAdd, CountType
  <2>4. UNCHANGED <<taken, threads_list, th, total>> /\ ending'.step = "remove"
    BY <1>0, <1>8 DEF EndAdd, outside, TableType
  <2> QED BY <2>3, <2>4 DEF CountType
<1>9. CASE EndRemove
  <2>1. /\ UNCHANGED <<counters, taken, th, total>> /\ ending'.step = "no"
        /\ \A t \in Tids : threads_list'[t] = NoEntry \/ threads_list'[t] = threads_list[t]
    BY <1>0, <1>9 DEF EndRemove, outside, NotEnding, TableType
  <2> QED BY <1>b, <2>1 DEF CountType, NoEntry
<1>10. CASE Sweep
  <2>1. PICK read \in SUBSET {t \in Tids : threads_list[t].listed} :
          /\ \E x \in [read -> 0..MaxUse] :
               counters' = [u \in Users |->
                 counters[u] + SumFunctionOnSet(x, {t \in read : threads_list[t].user = u})]
          /\ threads_list' = [t \in Tids |-> IF t \in read THEN Refreshed(t) ELSE threads_list[t]]
    <3>1. PICK read \in SUBSET {t \in {s \in Tids : threads_list[s].listed /\ threads_list[s].old}
                                  : th[t].at # "gone"} :
          /\ \E x \in [read -> 0..MaxUse] :
               counters' = [u \in Users |->
                 counters[u] + SumFunctionOnSet(x, {t \in read : threads_list[t].user = u})]
          /\ threads_list' = [t \in Tids |-> IF t \in read THEN Refreshed(t) ELSE threads_list[t]]
      BY <1>10 DEF Sweep
    <3>2. read \in SUBSET {t \in Tids : threads_list[t].listed}
      OBVIOUS
    <3> QED BY <3>1, <3>2
  <2>2. \A t \in read : threads_list[t].user \in Users
    BY DEF CountType
  <2>3. counters' \in [Users -> Nat]
    BY <2>1, <2>2, SweepCharges DEF CountType
  <2>4. \A t \in Tids : /\ threads_list'[t].listed = threads_list[t].listed
                        /\ threads_list'[t].user = threads_list[t].user
    BY <1>0, <2>1 DEF Refreshed, Entry, TableType
  <2>5. UNCHANGED <<taken, ending, th, total>>
    BY <1>10 DEF Sweep, outside
  <2> QED BY <2>3, <2>4, <2>5 DEF CountType
<1>11. ASSUME NEW t \in Tids, RemoveBad(t) PROVE CountType'
  <2>1. /\ UNCHANGED <<counters, taken, th, total, ending>>
        /\ \A s \in Tids : threads_list'[s] = NoEntry \/ threads_list'[s] = threads_list[s]
    BY <1>0, <1>11 DEF RemoveBad, outside, TableType
  <2> QED BY <1>b, <2>1 DEF CountType, NoEntry
<1>12. CASE ProceedAccounts
  <2>1. UNCHANGED <<threads_list, ending, th, total>>
    BY <1>12 DEF ProceedAccounts, outside
  <2>2. counters' \in [Users -> Nat] /\ taken' \in Nat
    BY <1>12, CountersSum DEF ProceedAccounts, reset_counters, CountType
  <2> QED BY <2>1, <2>2 DEF CountType
<1>13. CASE Elapse
  <2>1. UNCHANGED <<counters, taken, th, total>>
    BY <1>13 DEF Elapse, outside
  <2>2. \A t \in Tids : /\ threads_list'[t].listed = threads_list[t].listed
                        /\ threads_list'[t].user = threads_list[t].user
    BY <1>0, <1>13 DEF Elapse, TableType, Entry
  <2>3. ending'.step = ending.step /\ ending'.copy.user = ending.copy.user
    BY <1>0, <1>13 DEF Elapse, TableType, Entry
  <2> QED BY <1>b, <2>1, <2>2, <2>3 DEF CountType
<1> QED BY <1>1, <1>2, <1>3, <1>4, <1>5, <1>6, <1>7, <1>8, <1>9, <1>10, <1>11, <1>12, <1>13
        DEF Next, Mysqld, Handle, Monitor

\* The messages that are left are those at g, in their order, where they were.
Kept(g, o, p) ==
  /\ \A i \in DOMAIN Sent' : /\ g[i] \in DOMAIN Sent /\ p[i] = o[g[i]]
                             /\ Sent'[i].tid = Sent[g[i]].tid /\ Sent'[i].cpu = Sent[g[i]].cpu
  /\ \A i, j \in DOMAIN Sent' : i < j => g[i] < g[j]

\* Usage only grows, and threads only follow one another.
Later == \A t \in Tids : total[t] <= total'[t] /\ Before[t] <= Before'[t]

\* Entries are kept or removed, and the end that is handled is the same or none.
TableKept ==
  \A t \in Tids : threads_list'[t].listed /\ ending'.tid # t =>
    /\ threads_list[t].listed /\ ending.tid # t
    /\ threads_list'[t].cpu = threads_list[t].cpu
EndingKept ==
  ending'.step = "add" =>
    /\ ending.step = "add" /\ ending'.tid = ending.tid
    /\ ending'.cpu = ending.cpu /\ ending'.copy.cpu = ending.copy.cpu

\* Nothing is charged.
NothingCharged ==
  taken' + SumFunctionOnSet(counters', Users) = taken + SumFunctionOnSet(counters, Users)

\* Messages that are left lie where they did.
LEMMA MessagesKept ==
  ASSUME Numbers, Numbers', Later, NEW mark, NEW g, NEW o, NEW p, Kept(g, o, p),
         Within(mark), Placed(o), Ahead(mark, o)
  PROVE  Within(mark)' /\ Placed(p)' /\ Ahead(mark, p)'
<1>1. ASSUME NEW i \in DOMAIN Sent'
      PROVE  /\ g[i] \in DOMAIN Sent /\ p[i] = o[g[i]] /\ Sent'[i].tid = Sent[g[i]].tid
             /\ Place(p, i)' = Place(o, g[i]) /\ Sent[g[i]].tid \in Tids /\ Sent[g[i]].cpu \in Nat
             /\ o[g[i]] \in Nat
  BY DEF Kept, Place, Numbers, Placed
<1>2. Within(mark)'
  BY DEF Within, Later, Numbers
<1>3. ASSUME NEW i \in DOMAIN Sent'
      PROVE  /\ p[i] \in Nat /\ p[i] <= Before'[Sent'[i].tid] /\ Place(p, i)' <= total'[Sent'[i].tid]
  <2> DEFINE t == Sent[g[i]].tid
  <2>1. o[g[i]] <= Before[t] /\ Place(o, g[i]) <= total[t] /\ Place(o, g[i]) \in Nat
    BY <1>1 DEF Placed, Place
  <2>2. /\ t \in Tids /\ total[t] \in Nat /\ total'[t] \in Nat /\ Before[t] \in Nat /\ Before'[t] \in Nat
        /\ total[t] <= total'[t] /\ Before[t] <= Before'[t] /\ Sent'[i].tid = t
    BY <1>1 DEF Later, Numbers
  <2> HIDE DEF t
  <2> QED BY <1>1, <2>1, <2>2
<1>4. ASSUME NEW i \in DOMAIN Sent', NEW j \in DOMAIN Sent', i < j, Sent'[i].tid = Sent'[j].tid
      PROVE  p[i] <= p[j] /\ Place(p, i)' <= Place(p, j)'
  <2>1. g[i] < g[j]
    BY <1>4 DEF Kept
  <2> QED BY <1>1, <1>4, <2>1 DEF Placed
<1>5. Placed(p)'
  BY <1>3, <1>4 DEF Placed
<1>6. Ahead(mark, p)'
  BY <1>1 DEF Ahead
<1> QED BY <1>2, <1>5, <1>6

\* A step that charges nothing, sends nothing and leaves entries alone or removes
\* them keeps the ledger.
LEMMA LedgerFrame ==
  ASSUME Numbers, Numbers', Later, NEW mark, NEW o, NEW w, Ledger(mark, o, w),
         \A i \in DOMAIN Sent' : /\ i \in DOMAIN Sent
                                 /\ Sent'[i].tid = Sent[i].tid /\ Sent'[i].cpu = Sent[i].cpu,
         TableKept, EndingKept, NothingCharged
  PROVE  Ledger(mark, o, w)'
<1>0. Charged(mark) /\ Within(mark) /\ Placed(o) /\ Ahead(mark, o) /\ Based(mark, o)
      /\ Closing(mark, o, w)
  BY DEF Ledger
<1> DEFINE g == [i \in DOMAIN Sent' |-> i]
<1>1. Kept(g, o, o)
  BY DEF Kept
<1> HIDE DEF g
<1>2. Within(mark)' /\ Placed(o)' /\ Ahead(mark, o)'
  BY <1>0, <1>1, MessagesKept
<1>3. Charged(mark)'
  BY <1>0 DEF Charged, NothingCharged
<1>4. Based(mark, o)'
  <2> SUFFICES ASSUME NEW t \in Tids, threads_list'[t].listed, ending'.tid # t
               PROVE  /\ mark[t] <= Before'[t] + threads_list'[t].cpu
                      /\ \A i \in DOMAIN Sent' : Sent'[i].tid = t =>
                           mark[t] <= o[i] + threads_list'[t].cpu
    BY DEF Based
  <2>1. threads_list[t].listed /\ ending.tid # t /\ threads_list'[t].cpu = threads_list[t].cpu
    BY DEF TableKept
  <2>2. /\ mark[t] <= Before[t] + threads_list[t].cpu
        /\ \A i \in DOMAIN Sent : Sent[i].tid = t => mark[t] <= o[i] + threads_list[t].cpu
    BY <1>0, <2>1 DEF Based
  <2>3. /\ mark[t] \in Nat /\ Before[t] \in Nat /\ Before'[t] \in Nat /\ threads_list[t].cpu \in Nat
        /\ Before[t] <= Before'[t]
    BY <1>0 DEF Within, Numbers, Later
  <2>4. mark[t] <= Before'[t] + threads_list[t].cpu
    BY <2>2, <2>3
  <2> QED BY <2>1, <2>2, <2>4
<1>5. Closing(mark, o, w)'
  <2> SUFFICES ASSUME ending'.step = "add"
               PROVE  /\ w \in Nat
                      /\ mark[ending'.tid] <= w + ending'.copy.cpu
                      /\ mark[ending'.tid] <= w + ending'.cpu
                      /\ w + ending'.cpu <= total'[ending'.tid]
                      /\ \A i \in DOMAIN Sent' : Sent'[i].tid = ending'.tid =>
                           w + ending'.cpu <= Place(o, i)'
    BY DEF Closing
  <2>1. /\ ending.step = "add" /\ ending'.tid = ending.tid
        /\ ending'.cpu = ending.cpu /\ ending'.copy.cpu = ending.copy.cpu
    BY DEF EndingKept
  <2> DEFINE t == ending.tid
  <2>2. /\ w \in Nat /\ mark[t] <= w + ending.copy.cpu /\ mark[t] <= w + ending.cpu
        /\ w + ending.cpu <= total[t]
        /\ \A i \in DOMAIN Sent : Sent[i].tid = t => w + ending.cpu <= Place(o, i)
    BY <1>0, <2>1 DEF Closing
  <2>3. /\ t \in Tids /\ ending.cpu \in Nat /\ total[t] \in Nat /\ total'[t] \in Nat
        /\ total[t] <= total'[t]
    BY <2>1 DEF Numbers, Later
  <2>4. w + ending.cpu <= total'[t]
    BY <2>2, <2>3
  <2>5. \A i \in DOMAIN Sent' : i \in DOMAIN Sent /\ Sent'[i].tid = Sent[i].tid
                                /\ Place(o, i)' = Place(o, i)
    BY DEF Place
  <2> HIDE DEF t
  <2> QED BY <2>1, <2>2, <2>4, <2>5 DEF t
<1> QED BY <1>2, <1>3, <1>4, <1>5 DEF Ledger

\* Usage, threads and what was charged are as before.
SameUsage == UNCHANGED <<total, taken, counters>> /\ Before' = Before

\* A message that is sent lies where its thread is.
LEMMA LedgerSend ==
  ASSUME Numbers, Numbers', NEW mark, NEW o, NEW w, Ledger(mark, o, w), NEW m \in Message,
         m.tid \in Tids, m.cpu = th[m.tid].cpu, Sent' = Append(Sent, m),
         SameUsage, UNCHANGED <<threads_list, ending>>
  PROVE  \E p : Ledger(mark, p, w)'
<1> DEFINE t == m.tid
<1>n. PICK n : n = Len(Sent) + 1
  OBVIOUS
<1>p. PICK p : p = [i \in DOMAIN Sent' |-> IF i \in DOMAIN Sent THEN o[i] ELSE Before[t]]
  OBVIOUS
<1>0. Charged(mark) /\ Within(mark) /\ Placed(o) /\ Ahead(mark, o) /\ Based(mark, o)
      /\ Closing(mark, o, w) /\ UNCHANGED <<total, taken, counters, threads_list, ending>>
      /\ Before' = Before
  BY DEF Ledger, SameUsage
<1>1. /\ DOMAIN Sent' = DOMAIN Sent \cup {n} /\ n \notin DOMAIN Sent
      /\ \A i \in DOMAIN Sent : Sent'[i] = Sent[i] /\ i < n
      /\ Sent'[n] = m
  BY <1>n, QueueAppend DEF Numbers
<1>2. /\ \A i \in DOMAIN Sent : p[i] = o[i] /\ Place(p, i)' = Place(o, i)
      /\ p[n] = Before[t] /\ Place(p, n)' = Before[t] + th[t].cpu
  BY <1>p, <1>1 DEF Place
<1>3. /\ t \in Tids /\ Before[t] \in Nat /\ th[t].cpu \in Nat /\ total[t] \in Nat
      /\ Before[t] + th[t].cpu = total[t] /\ mark[t] \in Nat /\ mark[t] <= total[t]
  BY <1>0 DEF Numbers, Within
<1>a. n \in Nat /\ \A i \in DOMAIN Sent : i \in Nat /\ Sent[i].tid \in Tids /\ Sent[i].cpu \in Nat
                                       /\ o[i] \in Nat
  BY <1>n, <1>0, LenProperties DEF Numbers, Placed
<1>4. Place(p, n)' = total[t] /\ Place(p, n)' \in Nat
  BY <1>2, <1>3
<1>5. Placed(p)'
  <2>1. ASSUME NEW i \in DOMAIN Sent'
        PROVE  /\ p[i] \in Nat /\ p[i] <= Before'[Sent'[i].tid]
               /\ Place(p, i)' <= total'[Sent'[i].tid]
    <3>1. CASE i = n
      BY <1>0, <1>1, <1>2, <1>3, <1>4, <3>1
    <3>2. CASE i \in DOMAIN Sent
      BY <1>0, <1>1, <1>2, <3>2 DEF Placed
    <3> QED BY <1>1, <3>1, <3>2
  <2>2. ASSUME NEW i \in DOMAIN Sent', NEW j \in DOMAIN Sent', i < j, Sent'[i].tid = Sent'[j].tid
        PROVE  p[i] <= p[j] /\ Place(p, i)' <= Place(p, j)'
    <3>1. i \in DOMAIN Sent
      BY <1>1, <1>a, <2>2
    <3>2. CASE j = n
      <4>1. Sent[i].tid = t
        BY <1>1, <2>2, <3>1, <3>2
      <4>2. o[i] <= Before[t] /\ Place(o, i) <= total[t]
        BY <1>0, <3>1, <4>1 DEF Placed
      <4> QED BY <1>2, <1>4, <3>1, <3>2, <4>2
    <3>3. CASE j \in DOMAIN Sent
      BY <1>0, <1>1, <1>2, <2>2, <3>1, <3>3 DEF Placed
    <3> QED BY <1>1, <3>2, <3>3
  <2> QED BY <2>1, <2>2 DEF Placed
<1>6. Ahead(mark, p)'
  <2> SUFFICES ASSUME NEW i \in DOMAIN Sent' PROVE mark[Sent'[i].tid] <= Place(p, i)'
    BY DEF Ahead
  <2>1. CASE i = n
    BY <1>1, <1>3, <1>4, <2>1
  <2>2. CASE i \in DOMAIN Sent
    BY <1>0, <1>1, <1>2, <2>2 DEF Ahead
  <2> QED BY <1>1, <2>1, <2>2
<1>7. Based(mark, p)'
  <2> SUFFICES ASSUME NEW s \in Tids, threads_list[s].listed, ending.tid # s
               PROVE  /\ mark[s] <= Before[s] + threads_list[s].cpu
                      /\ \A i \in DOMAIN Sent' : Sent'[i].tid = s =>
                           mark[s] <= p[i] + threads_list[s].cpu
    BY <1>0 DEF Based
  <2>1. /\ mark[s] <= Before[s] + threads_list[s].cpu
        /\ \A i \in DOMAIN Sent : Sent[i].tid = s => mark[s] <= o[i] + threads_list[s].cpu
    BY <1>0 DEF Based
  <2> QED BY <1>1, <1>2, <2>1
<1>8. Closing(mark, p, w)'
  <2> SUFFICES ASSUME ending.step = "add"
               PROVE  /\ w \in Nat
                      /\ mark[ending.tid] <= w + ending.copy.cpu
                      /\ mark[ending.tid] <= w + ending.cpu
                      /\ w + ending.cpu <= total[ending.tid]
                      /\ \A i \in DOMAIN Sent' : Sent'[i].tid = ending.tid =>
                           w + ending.cpu <= Place(p, i)'
    BY <1>0 DEF Closing
  <2>1. /\ w \in Nat
        /\ mark[ending.tid] <= w + ending.copy.cpu
        /\ mark[ending.tid] <= w + ending.cpu
        /\ w + ending.cpu <= total[ending.tid]
        /\ \A i \in DOMAIN Sent : Sent[i].tid = ending.tid => w + ending.cpu <= Place(o, i)
    BY <1>0 DEF Closing
  <2> QED BY <1>1, <1>2, <1>4, <2>1
<1>9. Charged(mark)' /\ Within(mark)'
  BY <1>0 DEF Charged, Within
<1>10. Ledger(mark, p, w)'
  BY <1>5, <1>6, <1>7, <1>8, <1>9 DEF Ledger
<1> QED BY <1>10

\* The oldest message is taken: the others follow it, and move up by one.
LEMMA LedgerTake ==
  ASSUME Numbers, Numbers', NEW mark, NEW o, NEW w, Ledger(mark, o, w), Sent # <<>>,
         Sent' = Tail(Sent), SameUsage, NEW p, p = [i \in DOMAIN Sent' |-> o[i + 1]]
  PROVE  LET m == Head(Sent)
             t == Head(Sent).tid
         IN  /\ Charged(mark)' /\ Within(mark)' /\ Placed(p)' /\ Ahead(mark, p)'
             /\ m \in Message /\ t \in Tids /\ m.cpu \in Nat /\ o[1] \in Nat
             /\ mark[t] \in Nat /\ Before[t] \in Nat /\ total[t] \in Nat
             /\ o[1] <= Before[t] /\ o[1] + m.cpu <= total[t]
             /\ mark[t] <= o[1] + m.cpu
             /\ 1 \in DOMAIN Sent /\ Sent[1] = m
             /\ \A i \in DOMAIN Sent' :
                  /\ p[i] \in Nat /\ i + 1 \in DOMAIN Sent
                  /\ p[i] = o[i + 1] /\ Sent'[i] = Sent[i + 1] /\ Place(p, i)' = Place(o, i + 1)
                  /\ Sent'[i].tid = t => o[1] <= p[i] /\ o[1] + m.cpu <= Place(p, i)'
<1> DEFINE m == Head(Sent)
           t == m.tid
           g == [i \in DOMAIN Sent' |-> i + 1]
<1>0. Charged(mark) /\ Within(mark) /\ Placed(o) /\ Ahead(mark, o)
      /\ UNCHANGED <<total, taken, counters>> /\ Before' = Before
  BY DEF Ledger, SameUsage
<1>1. /\ m \in Message /\ 1 \in DOMAIN Sent /\ Sent[1] = m
      /\ \A i \in DOMAIN Sent' : i \in Nat /\ i + 1 \in DOMAIN Sent /\ Sent'[i] = Sent[i + 1]
  BY QueueTail DEF Numbers
<1> HIDE DEF m
<1>2. \A i \in DOMAIN Sent' : p[i] = o[i + 1] /\ g[i] = i + 1
  OBVIOUS
<1> HIDE DEF g
<1>3. Kept(g, o, p)
  <2>1. \A i, j \in DOMAIN Sent' : i < j => g[i] < g[j]
    BY <1>1, <1>2
  <2> QED BY <1>1, <1>2, <2>1 DEF Kept
<1>4. Later
  BY <1>0 DEF Later, Numbers
<1>5. Within(mark)' /\ Placed(p)' /\ Ahead(mark, p)'
  BY <1>0, <1>3, <1>4, MessagesKept
<1>6. Charged(mark)'
  BY <1>0 DEF Charged
<1>7. /\ t \in Tids /\ m.cpu \in Nat /\ o[1] \in Nat /\ mark[t] \in Nat /\ Before[t] \in Nat
      /\ total[t] \in Nat /\ Place(o, 1) = o[1] + m.cpu
  BY <1>0, <1>1 DEF Numbers, Placed, Within, Place
<1>8. o[1] <= Before[t] /\ Place(o, 1) <= total[t] /\ mark[t] <= Place(o, 1)
  BY <1>0, <1>1 DEF Placed, Ahead
<1>9. ASSUME NEW i \in DOMAIN Sent'
      PROVE  /\ p[i] \in Nat /\ i + 1 \in DOMAIN Sent /\ p[i] = o[i + 1]
             /\ Sent'[i] = Sent[i + 1] /\ Place(p, i)' = Place(o, i + 1)
             /\ Sent'[i].tid = t => o[1] <= p[i] /\ Place(o, 1) <= Place(p, i)'
  <2>1. /\ i + 1 \in DOMAIN Sent /\ p[i] = o[i + 1] /\ Sent'[i] = Sent[i + 1] /\ o[i + 1] \in Nat
        /\ i \in Nat
    BY <1>0, <1>1, <1>2 DEF Placed
  <2>2. Place(p, i)' = Place(o, i + 1)
    BY <2>1 DEF Place
  <2>3. Sent'[i].tid = t => o[1] <= o[i + 1] /\ Place(o, 1) <= Place(o, i + 1)
    <3>1. 1 < i + 1 \/ i = 0
      BY <2>1
    <3>2. i # 0
      <4>1. Sent' \in Seq(Message)
        BY DEF Numbers
      <4> QED BY <4>1, LenProperties
    <3> QED BY <1>0, <1>1, <2>1, <3>1, <3>2 DEF Placed
  <2> QED BY <2>1, <2>2, <2>3
<1> HIDE DEF t
<1>10. o[1] + m.cpu <= total[t] /\ mark[t] <= o[1] + m.cpu
  BY <1>7, <1>8
<1>11. \A i \in DOMAIN Sent' :
         /\ p[i] \in Nat /\ i + 1 \in DOMAIN Sent
         /\ p[i] = o[i + 1] /\ Sent'[i] = Sent[i + 1] /\ Place(p, i)' = Place(o, i + 1)
         /\ Sent'[i].tid = t => o[1] <= p[i] /\ o[1] + m.cpu <= Place(p, i)'
  BY <1>7, <1>9
<1> QED BY <1>1, <1>5, <1>6, <1>7, <1>8, <1>10, <1>11 DEF t, m

\* A begin: usage is measured from what the message says, or from more.
LEMMA LedgerBegin ==
  ASSUME Numbers, Numbers', NEW mark, NEW o, NEW w, Ledger(mark, o, w), Sent # <<>>,
         Sent' = Tail(Sent), SameUsage, ending.step = "no", UNCHANGED ending,
         ending.tid \notin Tids,
         threads_list'[Head(Sent).tid].cpu >= Head(Sent).cpu,
         \A s \in Tids \ {Head(Sent).tid} : threads_list'[s] = threads_list[s]
  PROVE  \E p : Ledger(mark, p, w)'
<1>p. PICK p : p = [i \in DOMAIN Sent' |-> o[i + 1]]
  OBVIOUS
<1>m. PICK m : m = Head(Sent)
  OBVIOUS
<1> DEFINE t == m.tid
<1>1. /\ Charged(mark)' /\ Within(mark)' /\ Placed(p)' /\ Ahead(mark, p)'
      /\ t \in Tids /\ m.cpu \in Nat /\ o[1] \in Nat
      /\ mark[t] \in Nat /\ Before[t] \in Nat
      /\ o[1] <= Before[t] /\ mark[t] <= o[1] + m.cpu
      /\ \A i \in DOMAIN Sent' :
           /\ p[i] \in Nat /\ i + 1 \in DOMAIN Sent
           /\ p[i] = o[i + 1] /\ Sent'[i] = Sent[i + 1]
           /\ Sent'[i].tid = t => o[1] <= p[i]
  BY <1>p, <1>m, LedgerTake
<1>2. Based(mark, o) /\ Before' = Before
  BY DEF Ledger, SameUsage
<1>3. Based(mark, p)'
  <2> SUFFICES ASSUME NEW s \in Tids, threads_list'[s].listed
               PROVE  /\ mark[s] <= Before[s] + threads_list'[s].cpu
                      /\ \A i \in DOMAIN Sent' : Sent'[i].tid = s =>
                           mark[s] <= p[i] + threads_list'[s].cpu
    BY <1>2 DEF Based
  <2>1. CASE s = t
    <3>1. threads_list'[s].cpu >= m.cpu /\ threads_list'[s].cpu \in Nat
      BY <1>m, <2>1 DEF Numbers
    <3> QED BY <1>1, <2>1, <3>1
  <2>2. CASE s # t
    <3>1. threads_list'[s] = threads_list[s]
      BY <1>m, <2>2
    <3>2. /\ mark[s] <= Before[s] + threads_list[s].cpu
          /\ \A i \in DOMAIN Sent : Sent[i].tid = s => mark[s] <= o[i] + threads_list[s].cpu
      BY <1>2, <3>1 DEF Based
    <3> QED BY <1>1, <3>1, <3>2
  <2> QED BY <2>1, <2>2
<1>4. Closing(mark, p, w)'
  BY DEF Closing
<1>5. Ledger(mark, p, w)'
  BY <1>1, <1>3, <1>4 DEF Ledger
<1> QED BY <1>5

\* An end: its thread is left to the steps that follow.
LEMMA LedgerEnd ==
  ASSUME Numbers, Numbers', NEW mark, NEW o, NEW w, Ledger(mark, o, w), Sent # <<>>,
         Sent' = Tail(Sent), SameUsage, ending.step = "no", UNCHANGED threads_list,
         ending.tid \notin Tids,
         \/ /\ threads_list[Head(Sent).tid].listed
            /\ ending' = [step |-> "add", tid |-> Head(Sent).tid, cpu |-> Head(Sent).cpu,
                          copy |-> threads_list[Head(Sent).tid]]
         \/ ending' = ending
  PROVE  \E p, v : Ledger(mark, p, v)'
<1>p. PICK p : p = [i \in DOMAIN Sent' |-> o[i + 1]]
  OBVIOUS
<1>m. PICK m : m = Head(Sent)
  OBVIOUS
<1> DEFINE t == m.tid
<1>1. /\ Charged(mark)' /\ Within(mark)' /\ Placed(p)' /\ Ahead(mark, p)'
      /\ t \in Tids /\ m.cpu \in Nat /\ o[1] \in Nat
      /\ mark[t] \in Nat /\ Before[t] \in Nat
      /\ o[1] + m.cpu <= total[t] /\ mark[t] <= o[1] + m.cpu
      /\ 1 \in DOMAIN Sent /\ Sent[1] = m
      /\ \A i \in DOMAIN Sent' :
           /\ p[i] \in Nat /\ i + 1 \in DOMAIN Sent
           /\ p[i] = o[i + 1] /\ Sent'[i] = Sent[i + 1]
           /\ Sent'[i].tid = t => o[1] + m.cpu <= Place(p, i)'
  <2>1. LET n == Head(Sent)
            s == Head(Sent).tid
        IN  /\ Charged(mark)' /\ Within(mark)' /\ Placed(p)' /\ Ahead(mark, p)'
            /\ s \in Tids /\ n.cpu \in Nat /\ o[1] \in Nat
            /\ mark[s] \in Nat /\ Before[s] \in Nat
            /\ o[1] + n.cpu <= total[s] /\ mark[s] <= o[1] + n.cpu
            /\ 1 \in DOMAIN Sent /\ Sent[1] = n
            /\ \A i \in DOMAIN Sent' :
                 /\ p[i] \in Nat /\ i + 1 \in DOMAIN Sent
                 /\ p[i] = o[i + 1] /\ Sent'[i] = Sent[i + 1]
                 /\ Sent'[i].tid = s => o[1] + n.cpu <= Place(p, i)'
    BY <1>p, LedgerTake
  <2> QED BY <1>m, <2>1
<1>2. Based(mark, o) /\ Before' = Before /\ total' = total
  BY DEF Ledger, SameUsage
<1>3. Based(mark, p)'
  <2> SUFFICES ASSUME NEW s \in Tids, threads_list[s].listed
               PROVE  /\ mark[s] <= Before[s] + threads_list[s].cpu
                      /\ \A i \in DOMAIN Sent' : Sent'[i].tid = s =>
                           mark[s] <= p[i] + threads_list[s].cpu
    BY <1>2 DEF Based
  <2>1. /\ mark[s] <= Before[s] + threads_list[s].cpu
        /\ \A i \in DOMAIN Sent : Sent[i].tid = s => mark[s] <= o[i] + threads_list[s].cpu
    BY <1>2 DEF Based
  <2> QED BY <1>1, <2>1
<1>4. Closing(mark, p, o[1])'
  <2>1. CASE ending' = ending
    BY <2>1 DEF Closing
  <2>2. CASE /\ threads_list[t].listed
             /\ ending' = [step |-> "add", tid |-> t, cpu |-> m.cpu, copy |-> threads_list[t]]
    <3>1. ending'.tid = t /\ ending'.cpu = m.cpu /\ ending'.copy = threads_list[t]
      BY <2>2
    <3>2. mark[t] <= o[1] + threads_list[t].cpu
      BY <1>1, <1>2, <2>2 DEF Based
    <3> QED BY <1>1, <1>2, <3>1, <3>2 DEF Closing
  <2> QED BY <1>m, <2>1, <2>2
<1>5. Ledger(mark, p, o[1])'
  BY <1>1, <1>3, <1>4 DEF Ledger
<1> QED BY <1>5

\* The end is charged: its place becomes the mark, at most.
LEMMA LedgerAdd ==
  ASSUME Numbers, Numbers', CountType, CountType', NEW mark, NEW o, NEW w, Ledger(mark, o, w),
         Sent' = Sent, Before' = Before, UNCHANGED <<total, taken, threads_list>>,
         ending.step = "add", ending'.step = "remove", ending'.tid = ending.tid,
         NEW x \in Difference(ending.cpu, ending.copy),
         counters' = [counters EXCEPT ![ending.copy.user] = @ + x]
  PROVE  \E next : Ledger(next, o, w)'
<1>t. PICK t : t = ending.tid
  OBVIOUS
<1>n. PICK next : next = [s \in Tids |-> IF s = t THEN mark[s] + x ELSE mark[s]]
  OBVIOUS
<1> DEFINE u == ending.copy.user
<1>0. Charged(mark) /\ Within(mark) /\ Placed(o) /\ Ahead(mark, o) /\ Based(mark, o)
      /\ Closing(mark, o, w)
  BY DEF Ledger
<1>1. /\ x \in Nat /\ (x = 0 \/ x + ending.copy.cpu <= ending.cpu)
      /\ ending.copy.cpu \in Nat /\ ending.cpu \in Nat /\ t \in Tids
  BY <1>t, DifferenceSmall DEF Numbers
<1>2. /\ next[t] = mark[t] + x /\ mark[t] \in Nat
      /\ \A s \in Tids : next[s] \in Nat /\ (s # t => next[s] = mark[s])
  BY <1>n, <1>0, <1>1 DEF Within
<1>3. /\ w \in Nat /\ mark[t] <= w + ending.copy.cpu /\ mark[t] <= w + ending.cpu
      /\ w + ending.cpu <= total[t] /\ total[t] \in Nat
      /\ \A i \in DOMAIN Sent : Sent[i].tid = t => w + ending.cpu <= Place(o, i)
  BY <1>t, <1>0, <1>1 DEF Closing, Numbers
<1>4. next[t] <= w + ending.cpu
  BY <1>1, <1>2, <1>3
<1>5. Within(next)'
  <2>1. next[t] <= total[t]
    BY <1>1, <1>2, <1>3, <1>4
  <2> QED BY <1>0, <1>2, <2>1 DEF Within
<1>6. Placed(o)'
  BY <1>0 DEF Placed, Place
<1>7. Ahead(next, o)'
  <2> SUFFICES ASSUME NEW i \in DOMAIN Sent PROVE next[Sent[i].tid] <= Place(o, i)
    BY DEF Ahead, Place
  <2>1. CASE Sent[i].tid = t
    <3>1. Place(o, i) \in Nat /\ w + ending.cpu <= Place(o, i)
      BY <1>0, <1>3, <2>1 DEF Placed, Place, Numbers
    <3> QED BY <1>1, <1>2, <1>3, <1>4, <2>1, <3>1
  <2>2. CASE Sent[i].tid # t
    BY <1>0, <1>2, <2>2 DEF Ahead, Numbers
  <2> QED BY <2>1, <2>2
<1>8. Based(next, o)'
  BY <1>t, <1>0, <1>2 DEF Based
<1>9. Closing(next, o, w)'
  BY DEF Closing
<1>10. Charged(next)'
  <2>1. IsFiniteSet(Users) /\ IsFiniteSet(Tids)
    BY ConstantsAssumption
  <2>2. u \in Users /\ counters \in [Users -> Nat] /\ taken \in Nat
    BY DEF CountType
  <2> DEFINE c == counters
             d == counters'
  <2>3. /\ \A v \in Users : c[v] \in Int /\ d[v] \in Int
        /\ \A v \in Users \ {u} : d[v] = c[v]
        /\ d[u] = c[u] + x /\ c[u] \in Int
    BY <1>1, <2>2
  <2>4. Charged(mark) <=> taken + SumFunctionOnSet(c, Users) <= SumFunctionOnSet(mark, Tids)
    BY DEF Charged
  <2>5. Charged(next)' <=> taken + SumFunctionOnSet(d, Users) <= SumFunctionOnSet(next, Tids)
    BY DEF Charged
  <2> HIDE DEF c, d, u
  <2>6. SumFunctionOnSet(d, Users) = SumFunctionOnSet(c, Users) - c[u] + d[u]
    BY <2>1, <2>2, <2>3, SumChange
  <2>7. SumFunctionOnSet(next, Tids) = SumFunctionOnSet(mark, Tids) - mark[t] + next[t]
    <3>1. /\ \A s \in Tids : mark[s] \in Int /\ next[s] \in Int
          /\ \A s \in Tids \ {t} : next[s] = mark[s]
      BY <1>0, <1>2 DEF Within
    <3> QED BY <1>1, <2>1, <3>1, SumChange
  <2>8. SumFunctionOnSet(c, Users) \in Int /\ SumFunctionOnSet(mark, Tids) \in Int
    BY <1>0, <2>1, <2>3, SumType DEF Within
  <2> QED BY <1>0, <1>1, <1>2, <2>2, <2>3, <2>4, <2>5, <2>6, <2>7, <2>8
<1>11. Ledger(next, o, w)'
  BY <1>5, <1>6, <1>7, <1>8, <1>9, <1>10 DEF Ledger
<1> QED BY <1>11

\* The threads read have no message on their way, and x is charged for them.
Swept(read, x) ==
  /\ \A t \in read : /\ threads_list[t].listed /\ x[t] \in Difference(th[t].cpu, threads_list[t])
                     /\ ending.tid # t /\ threads_list'[t].cpu = th[t].cpu
                     /\ \A i \in DOMAIN Sent : Sent[i].tid # t
  /\ \A t \in Tids \ read : threads_list'[t] = threads_list[t]
  /\ counters' = [u \in Users |->
       counters[u] + SumFunctionOnSet(x, {t \in read : threads_list[t].user = u})]

\* A sweep charges threads up to now, and measures them from now on. No message
\* of theirs is on its way.
LEMMA LedgerSweep ==
  ASSUME Numbers, Numbers', CountType, NEW mark, NEW o, NEW w, Ledger(mark, o, w),
         Sent' = Sent, Before' = Before, UNCHANGED <<total, taken, th, ending>>,
         NEW read \in SUBSET Tids, NEW x \in [read -> 0..MaxUse], Swept(read, x)
  PROVE  \E next : Ledger(next, o, w)'
<1> USE DEF Swept
<1>e. PICK ext : ext = [t \in Tids |-> IF t \in read THEN x[t] ELSE 0]
  OBVIOUS
<1>n. PICK next : next = [t \in Tids |-> mark[t] + ext[t]]
  OBVIOUS
<1>0. Charged(mark) /\ Within(mark) /\ Placed(o) /\ Ahead(mark, o) /\ Based(mark, o)
      /\ Closing(mark, o, w)
  BY DEF Ledger
<1>1. /\ \A t \in read : x[t] \in Nat /\ x[t] \in Int
      /\ \A t \in Tids : /\ mark[t] \in Nat /\ ext[t] \in Nat /\ ext[t] \in Int /\ mark[t] \in Int
                         /\ next[t] \in Nat /\ next[t] = mark[t] + ext[t]
                         /\ ext[t] = IF t \in read THEN x[t] ELSE 0
      /\ \A t \in Tids \ read : next[t] = mark[t]
  BY <1>e, <1>n, <1>0 DEF Within
<1>2. ASSUME NEW t \in read PROVE next[t] <= Before[t] + th[t].cpu
  <2>1. /\ th[t].cpu \in Nat /\ threads_list[t].cpu \in Nat /\ Before[t] \in Nat
        /\ Before[t] + th[t].cpu = total[t] /\ mark[t] <= total[t]
        /\ x[t] \in Difference(th[t].cpu, threads_list[t])
    BY <1>0 DEF Numbers, Within
  <2>2. x[t] = 0 \/ x[t] + threads_list[t].cpu <= th[t].cpu
    BY <2>1, DifferenceSmall
  <2>3. mark[t] <= Before[t] + threads_list[t].cpu
    BY <1>0 DEF Based
  <2>4. next[t] = mark[t] + x[t] /\ x[t] \in Nat /\ mark[t] \in Nat
    BY <1>1
  <2> QED BY <2>1, <2>2, <2>3, <2>4
<1>3. Within(next)'
  <2>1. ASSUME NEW t \in Tids PROVE next[t] <= total[t]
    <3>1. CASE t \in read
      BY <1>2, <3>1 DEF Numbers
    <3>2. CASE t \notin read
      BY <1>0, <1>1, <3>2 DEF Within
    <3> QED BY <3>1, <3>2
  <2> QED BY <1>1, <2>1 DEF Within
<1>4. Placed(o)'
  BY <1>0 DEF Placed, Place
<1>5. Ahead(next, o)'
  <2> SUFFICES ASSUME NEW i \in DOMAIN Sent PROVE next[Sent[i].tid] <= Place(o, i)
    BY DEF Ahead, Place
  <2>1. Sent[i].tid \in Tids \ read
    BY DEF Numbers
  <2> QED BY <1>0, <1>1, <2>1 DEF Ahead
<1>6. Based(next, o)'
  <2> SUFFICES ASSUME NEW t \in Tids, threads_list'[t].listed, ending.tid # t
               PROVE  /\ next[t] <= Before[t] + threads_list'[t].cpu
                      /\ \A i \in DOMAIN Sent : Sent[i].tid = t =>
                           next[t] <= o[i] + threads_list'[t].cpu
    BY DEF Based
  <2>1. CASE t \in read
    BY <1>2, <2>1
  <2>2. CASE t \notin read
    BY <1>0, <1>1, <2>2 DEF Based
  <2> QED BY <2>1, <2>2
<1>7. Closing(next, o, w)'
  <2>1. ending.step = "add" => next[ending.tid] = mark[ending.tid]
    BY <1>1 DEF Numbers
  <2> QED BY <1>0, <2>1 DEF Closing, Place
<1>8. Charged(next)'
  <2>1. IsFiniteSet(Users) /\ IsFiniteSet(Tids) /\ counters \in [Users -> Nat] /\ taken \in Nat
    BY ConstantsAssumption DEF CountType
  <2>2. \A t \in read : threads_list[t].user \in Users
    BY DEF CountType
  <2>3. SumFunctionOnSet(counters', Users)
          = SumFunctionOnSet(counters, Users) + SumFunctionOnSet(x, read)
    BY <2>1, <2>2, SweepCharges
  <2> DEFINE a == SumFunctionOnSet(counters, Users)
             b == SumFunctionOnSet(counters', Users)
  <2>4. b = a + SumFunctionOnSet(x, read) /\ a \in Int
    BY <2>1, <2>3, CountersSum
  <2>5. taken + a <= SumFunctionOnSet(mark, Tids)
    BY <1>0 DEF Charged
  <2>6. Charged(next)' <=> taken + b <= SumFunctionOnSet(next, Tids)
    BY DEF Charged
  <2> HIDE DEF a, b
  <2>7. SumFunctionOnSet(next, Tids) = SumFunctionOnSet(mark, Tids) + SumFunctionOnSet(ext, Tids)
    BY <1>1, <2>1, SumPlus
  <2>8. SumFunctionOnSet(ext, Tids) = SumFunctionOnSet(x, read)
    BY <1>1, <2>1, SumWithin
  <2>9. SumFunctionOnSet(mark, Tids) \in Int /\ SumFunctionOnSet(ext, Tids) \in Int
    BY <1>1, <2>1, SumType
  <2> QED BY <2>1, <2>4, <2>5, <2>6, <2>7, <2>8, <2>9
<1>9. Ledger(next, o, w)'
  BY <1>3, <1>4, <1>5, <1>6, <1>7, <1>8 DEF Ledger
<1> QED BY <1>9

\* Every step keeps the ledger.
LEMMA LedgerStep ==
  ASSUME IInv, IInv', CountType, CountType', [Next]_vars, late' = {},
         NEW mark, NEW o, NEW w, Ledger(mark, o, w)
  PROVE  \E a, b, c : Ledger(a, b, c)'
<1>0. Numbers /\ Numbers' /\ TableType /\ TableType'
  <2>1. IInv' /\ CountType' => Numbers'
    BY NumbersOK, PTL
  <2> QED BY <2>1, NumbersOK DEF IInv
<1>f. ASSUME Later, TableKept, EndingKept, NothingCharged,
             \A i \in DOMAIN Sent' : /\ i \in DOMAIN Sent
                                     /\ Sent'[i].tid = Sent[i].tid /\ Sent'[i].cpu = Sent[i].cpu
      PROVE  \E a, b, c : Ledger(a, b, c)'
  BY <1>0, <1>f, LedgerFrame
<1>t. UNCHANGED <<threads_list, ending>> => TableKept /\ EndingKept
  BY DEF TableKept, EndingKept
<1>c. UNCHANGED <<taken, counters>> => NothingCharged
  BY DEF NothingCharged
<1>l. UNCHANGED <<total, th>> => Later /\ Before' = Before
  BY <1>0 DEF Later, Before, Numbers
<1>s. UNCHANGED <<sock, queue>> => Sent' = Sent
  BY DEF Sent
<1>e. DOMAIN <<>> = {}
  OBVIOUS
<1>1. CASE UNCHANGED vars
  BY <1>1, <1>f, <1>t, <1>c, <1>l, <1>s DEF vars, outside, governor
<1>2. ASSUME NEW t \in Tids, Start(t) \/ Exit(t) \/ Use(t)
      PROVE  \E a, b, c : Ledger(a, b, c)'
  <2>1. UNCHANGED <<counters, taken, threads_list, ending, sock, queue>>
    BY <1>2 DEF Start, Exit, Use, governor
  <2>2. Later
    <3>0. /\ th \in [Tids -> Thread] /\ th[t] \in Thread /\ total \in [Tids -> Nat]
          /\ th[t].cpu \in Nat /\ total[t] \in Nat /\ th[t].cpu <= total[t]
      BY <1>0 DEF TableType, Numbers, CountType
    <3>1. total[t] <= total'[t] /\ total[t] - th[t].cpu <= total'[t] - th'[t].cpu
      <4>1. CASE Start(t)
        <5>1. th'[t].cpu = th[t].cpu /\ total' = total
          BY <3>0, <4>1 DEF Start, Thread
        <5> QED BY <3>0, <5>1
      <4>2. CASE Exit(t)
        <5>1. th'[t].cpu = 0 /\ total' = total
          BY <3>0, <4>2 DEF Exit, Gone
        <5> QED BY <3>0, <5>1
      <4>3. CASE Use(t)
        <5>1. th'[t].cpu = th[t].cpu + 1 /\ total'[t] = total[t] + 1
          BY <3>0, <4>3 DEF Use, Thread
        <5> QED BY <3>0, <5>1
      <4> QED BY <1>2, <4>1, <4>2, <4>3
    <3>2. \A s \in Tids \ {t} : th'[s] = th[s] /\ total'[s] = total[s]
      BY <1>0, <1>2 DEF Start, Exit, Use, TableType
    <3>3. \A s \in Tids \ {t} : Before'[s] = Before[s] /\ Before[s] \in Nat /\ total[s] \in Nat
      BY <1>0, <3>2 DEF Before, Numbers
    <3>4. Before'[t] = total'[t] - th'[t].cpu /\ Before[t] = total[t] - th[t].cpu
      BY DEF Before
    <3>5. \A s \in Tids \ {t} : total[s] <= total'[s] /\ Before[s] <= Before'[s]
      BY <3>2, <3>3
    <3> QED BY <3>1, <3>4, <3>5 DEF Later
  <2> QED BY <1>f, <1>t, <1>c, <1>s, <2>1, <2>2
<1>3. ASSUME NEW t \in Tids, NEW user \in Users, NEW type \in {"begin", "end"},
             send_info(t, user, type), \A s \in Tids : th'[s].cpu = th[s].cpu
      PROVE  \E a, b, c : Ledger(a, b, c)'
  <2>1. UNCHANGED <<counters, taken, threads_list, ending, sock, total>>
    BY <1>3 DEF send_info, governor
  <2>2. Before' = Before
    BY <1>3, <2>1 DEF Before
  <2>3. Later
    BY <1>0, <2>1, <2>2 DEF Later, Numbers
  <2>4. CASE queue' = queue
    BY <1>f, <1>t, <1>c, <1>s, <2>1, <2>3, <2>4
  <2>5. CASE sock # NoFd /\ queue' # queue
    <3>m. PICK m : m = [type |-> type, tid |-> t, user |-> user, cpu |-> th[t].cpu, old |-> FALSE]
      OBVIOUS
    <3>1. queue' = [queue EXCEPT ![sock] = Append(queue[sock], m)]
      BY <1>3, <2>5, <3>m DEF send_info
    <3>2. m \in Message /\ m.tid \in Tids /\ m.cpu = th[m.tid].cpu
      BY <1>0, <3>m DEF Message, Numbers
    <3>3. Sent' = Append(Sent, m)
      BY <1>0, <2>1, <2>5, <3>1 DEF Sent, TableType
    <3>4. SameUsage
      BY <2>1, <2>2 DEF SameUsage
    <3> QED BY <1>0, <2>1, <3>2, <3>3, <3>4, LedgerSend
  <2> QED BY <1>3, <2>4, <2>5 DEF send_info
<1>4. ASSUME NEW t \in Tids, NEW user \in Users, Begin(t, user)
      PROVE  \E a, b, c : Ledger(a, b, c)'
  <2>1. \A s \in Tids : th'[s].cpu = th[s].cpu
    BY <1>0, <1>4 DEF Begin, TableType, Thread
  <2> QED BY <1>3, <1>4, <2>1 DEF Begin
<1>5. ASSUME NEW t \in Tids, End(t) PROVE \E a, b, c : Ledger(a, b, c)'
  <2>1. \A s \in Tids : th'[s].cpu = th[s].cpu
    BY <1>0, <1>5 DEF End, TableType, Thread
  <2>2. th[t].user \in Users
    BY <1>0, <1>5 DEF End, TableType
  <2> QED BY <1>3, <1>5, <2>1, <2>2 DEF End
<1>6. CASE (\E f \in Fds : Connect(f)) \/ Close \/ PollError
  <2>1. UNCHANGED <<counters, taken, threads_list, ending, th, total>>
    BY <1>6 DEF Connect, Close, PollError, governor
  <2>2. Sent' = <<>>
    <3>1. CASE \E f \in Fds : Connect(f)
      <4>1. PICK f \in Fds : conn[f] = "free" /\ sock' = f /\ queue' = queue
        BY <3>1 DEF Connect
      <4> QED BY <4>1 DEF Sent, IInv, Connected
    <3>2. CASE Close \/ PollError
      BY <3>2 DEF Close, PollError, Sent
    <3> QED BY <1>6, <3>1, <3>2
  <2> QED BY <1>f, <1>t, <1>c, <1>l, <1>e, <2>1, <2>2
<1>7. ASSUME NEW f \in Fds, Disconnect(f) PROVE \E a, b, c : Ledger(a, b, c)'
  <2>1. /\ UNCHANGED <<counters, taken, ending, th, total>>
        /\ \A t \in Tids : threads_list'[t] = NoEntry \/ threads_list'[t] = threads_list[t]
    BY <1>7 DEF Disconnect, remove_tid_data_by_fd
  <2>2. TableKept /\ EndingKept
    BY <2>1 DEF TableKept, EndingKept, NoEntry
  <2>3. Sent' = <<>> \/ Sent' = Sent
    <3>1. CASE sock = f
      BY <1>7, <3>1 DEF Disconnect, Dropped, Sent
    <3>2. CASE sock # f
      BY <1>0, <1>7, <3>2 DEF Disconnect, Dropped, Sent, TableType
    <3> QED BY <3>1, <3>2
  <2> QED BY <1>f, <1>c, <1>l, <1>e, <2>1, <2>2, <2>3
<1>8. ASSUME NEW f \in Fds, ReceiveBegin(f) \/ ReceiveEnd(f)
      PROVE  \E a, b, c : Ledger(a, b, c)'
  <2>1. /\ Readable(f) /\ queue' = [queue EXCEPT ![f] = Tail(queue[f])]
        /\ UNCHANGED <<sock, th, total, taken, counters>>
    BY <1>8 DEF ReceiveBegin, ReceiveEnd, outside
  <2>2. f = sock /\ f # NoFd /\ queue[f] # <<>> /\ ending.step = "no"
    BY <2>1, ConstantsAssumption DEF Readable, IInv, Connected
  <2>3. Sent = queue[f] /\ Sent # <<>> /\ Sent' = Tail(Sent)
    BY <1>0, <2>1, <2>2 DEF Sent, TableType
  <2>4. ending.tid \notin Tids
    BY <2>2, ConstantsAssumption DEF IInv, EndingInv
  <2>5. SameUsage
    BY <1>l, <2>1 DEF SameUsage
  <2>6. CASE ReceiveBegin(f)
    <3>m. PICK m : m = Head(Sent)
      OBVIOUS
    <3>1. threads_list' = add_new_tid_data(m, f) /\ ending' = ending
      BY <2>3, <2>6, <3>m DEF ReceiveBegin
    <3>2. m.tid \in Tids /\ m.cpu \in Nat /\ threads_list[m.tid].cpu \in Nat
      <4>1. m \in Message
        BY <1>0, <2>3, <3>m, QueueTail DEF Numbers
      <4>2. m.tid \in Tids /\ m.cpu \in Nat
        BY <4>1 DEF Message
      <4> QED BY <1>0, <4>2 DEF Numbers
    <3>3. \A s \in Tids \ {m.tid} : threads_list'[s] = threads_list[s]
      BY <1>0, <3>1, <3>2 DEF add_new_tid_data, TableType
    <3>4. threads_list'[m.tid].cpu = IF threads_list[m.tid].listed
                                     THEN Larger(m.cpu, threads_list[m.tid].cpu) ELSE m.cpu
      BY <1>0, <3>1, <3>2 DEF add_new_tid_data, TableType
    <3>5. threads_list'[m.tid].cpu >= m.cpu
      BY <3>2, <3>4 DEF Larger
    <3> QED BY <1>0, <2>2, <2>3, <2>4, <2>5, <3>m, <3>1, <3>3, <3>5, LedgerBegin
  <2>7. CASE ReceiveEnd(f)
    <3>1. /\ threads_list' = threads_list
          /\ \/ /\ threads_list[Head(Sent).tid].listed
                /\ ending' = [step |-> "add", tid |-> Head(Sent).tid, cpu |-> Head(Sent).cpu,
                              copy |-> threads_list[Head(Sent).tid]]
             \/ ending' = ending
      BY <2>3, <2>7 DEF ReceiveEnd
    <3> QED BY <1>0, <2>2, <2>3, <2>4, <2>5, <3>1, LedgerEnd
  <2> QED BY <1>8, <2>6, <2>7
<1>9. CASE EndAdd
  <2>1. PICK x \in Difference(ending.cpu, ending.copy) :
               counters' = [counters EXCEPT ![ending.copy.user] = @ + x]
    BY <1>9 DEF EndAdd
  <2>2. /\ ending.step = "add" /\ ending'.step = "remove" /\ ending'.tid = ending.tid
        /\ UNCHANGED <<sock, queue, th, total, taken, threads_list>>
    BY <1>0, <1>9 DEF EndAdd, outside, TableType
  <2> QED BY <1>0, <1>l, <1>s, <2>1, <2>2, LedgerAdd
<1>10. CASE EndRemove
  <2>1. /\ UNCHANGED <<sock, queue, th, total, taken, counters>>
        /\ threads_list' = [threads_list EXCEPT ![ending.tid] = NoEntry]
        /\ ending'.step = "no"
    BY <1>10 DEF EndRemove, outside, NotEnding
  <2>2. TableKept /\ EndingKept
    BY <1>0, <2>1 DEF TableKept, EndingKept, TableType, NoEntry
  <2> QED BY <1>f, <1>c, <1>l, <1>s, <2>1, <2>2
<1>11. CASE Sweep
  <2>1. PICK read \in SUBSET {t \in Tids : threads_list[t].listed} :
          \E x \in [read -> 0..MaxUse] :
          /\ \A t \in read : x[t] \in Difference(th[t].cpu, threads_list[t])
          /\ counters' = [u \in Users |->
               counters[u] + SumFunctionOnSet(x, {t \in read : threads_list[t].user = u})]
          /\ threads_list' = [t \in Tids |-> IF t \in read THEN Refreshed(t) ELSE threads_list[t]]
          /\ late' = late \cup {t \in read : OnItsWay(t)}
    <3>1. PICK read \in SUBSET {t \in {s \in Tids : threads_list[s].listed /\ threads_list[s].old}
                                  : th[t].at # "gone"} :
          \E x \in [read -> 0..MaxUse] :
          /\ \A t \in read : x[t] \in Difference(th[t].cpu, threads_list[t])
          /\ counters' = [u \in Users |->
               counters[u] + SumFunctionOnSet(x, {t \in read : threads_list[t].user = u})]
          /\ threads_list' = [t \in Tids |-> IF t \in read THEN Refreshed(t) ELSE threads_list[t]]
          /\ late' = late \cup {t \in read : OnItsWay(t)}
      BY <1>11 DEF Sweep
    <3>2. read \in SUBSET {t \in Tids : threads_list[t].listed}
      OBVIOUS
    <3> QED BY <3>1, <3>2
  <2>2. PICK x \in [read -> 0..MaxUse] :
          /\ \A t \in read : x[t] \in Difference(th[t].cpu, threads_list[t])
          /\ counters' = [u \in Users |->
               counters[u] + SumFunctionOnSet(x, {t \in read : threads_list[t].user = u})]
          /\ threads_list' = [t \in Tids |-> IF t \in read THEN Refreshed(t) ELSE threads_list[t]]
          /\ late' = late \cup {t \in read : OnItsWay(t)}
    BY <2>1
  <2>3. UNCHANGED <<sock, queue, th, total, taken, ending>> /\ read \in SUBSET Tids
    BY <1>11 DEF Sweep, outside
  <2>4. \A t \in read : ~OnItsWay(t)
    BY <2>2
  <2>5. \A t \in read : ending.tid # t /\ \A i \in DOMAIN Sent : Sent[i].tid # t
    BY <2>3, <2>4, QueuedIsSent DEF OnItsWay
  <2>6. \A t \in read : threads_list'[t].cpu = th[t].cpu
    <3> SUFFICES ASSUME NEW t \in read PROVE threads_list'[t].cpu = th[t].cpu
      OBVIOUS
    <3>1. t \in Tids
      BY <2>3
    <3>2. threads_list'[t] = Refreshed(t)
      BY <2>2, <3>1
    <3>3. threads_list[t] \in Entry
      BY <1>0, <3>1 DEF TableType
    <3>4. Refreshed(t).cpu = th[t].cpu
      BY <3>3 DEF Refreshed, Entry
    <3> QED BY <3>2, <3>4
  <2>7. \A t \in Tids \ read : threads_list'[t] = threads_list[t]
    BY <2>2
  <2>8. \A t \in read : /\ threads_list[t].listed
                        /\ x[t] \in Difference(th[t].cpu, threads_list[t])
                        /\ ending.tid # t /\ threads_list'[t].cpu = th[t].cpu
                        /\ \A i \in DOMAIN Sent : Sent[i].tid # t
    BY <2>2, <2>5, <2>6
  <2>9. counters' = [u \in Users |->
          counters[u] + SumFunctionOnSet(x, {t \in read : threads_list[t].user = u})]
    BY <2>2
  <2>10. Sent' = Sent /\ Before' = Before /\ UNCHANGED <<total, taken, th, ending>>
    BY <1>l, <1>s, <2>3
  <2>11. read \in SUBSET Tids /\ x \in [read -> 0..MaxUse]
    BY <2>2, <2>3
  <2>12. Swept(read, x)
    BY <2>7, <2>8, <2>9 DEF Swept
  <2> QED BY <1>0, <2>10, <2>11, <2>12, LedgerSweep
<1>12. ASSUME NEW t \in Tids, RemoveBad(t) PROVE \E a, b, c : Ledger(a, b, c)'
  <2>1. /\ UNCHANGED <<counters, taken, th, total, ending, sock, queue>>
        /\ \A s \in Tids : threads_list'[s] = NoEntry \/ threads_list'[s] = threads_list[s]
    BY <1>0, <1>12 DEF RemoveBad, outside, TableType
  <2>2. TableKept /\ EndingKept
    BY <2>1 DEF TableKept, EndingKept, NoEntry
  <2> QED BY <1>f, <1>c, <1>l, <1>s, <2>1, <2>2
<1>13. CASE ProceedAccounts
  <2>1. UNCHANGED <<threads_list, ending, th, total, sock, queue>>
    BY <1>13 DEF ProceedAccounts, outside
  <2>2. NothingCharged
    <3>1. CASE UNCHANGED <<counters, taken>>
      BY <1>c, <3>1
    <3>2. CASE taken' = taken + SumFunctionOnSet(counters, Users) /\ reset_counters
      <4>1. SumFunctionOnSet(counters', Users) = 0
        BY <3>2, ConstantsAssumption, SumZero DEF reset_counters
      <4>2. taken \in Nat /\ SumFunctionOnSet(counters, Users) \in Nat
        BY CountersSum DEF CountType
      <4> QED BY <3>2, <4>1, <4>2 DEF NothingCharged
    <3> QED BY <1>13, <3>1, <3>2 DEF ProceedAccounts
  <2> QED BY <1>f, <1>t, <1>l, <1>s, <2>1, <2>2
<1>14. CASE Elapse
  <2>1. UNCHANGED <<counters, taken, th, total, sock>>
    BY <1>14 DEF Elapse, outside
  <2>2. \A t \in Tids : /\ threads_list'[t].listed = threads_list[t].listed
                        /\ threads_list'[t].cpu = threads_list[t].cpu
    BY <1>0, <1>14 DEF Elapse, TableType, Entry
  <2>3. /\ ending'.step = ending.step /\ ending'.tid = ending.tid
        /\ ending'.cpu = ending.cpu /\ ending'.copy.cpu = ending.copy.cpu
    BY <1>0, <1>14 DEF Elapse, TableType, Entry
  <2>4. TableKept /\ EndingKept
    BY <2>2, <2>3 DEF TableKept, EndingKept
  <2>5. ASSUME NEW i \in DOMAIN Sent'
        PROVE  i \in DOMAIN Sent /\ Sent'[i].tid = Sent[i].tid /\ Sent'[i].cpu = Sent[i].cpu
    <3>1. sock # NoFd
      BY <1>e, <2>1 DEF Sent
    <3>2. sock \in Fds /\ Sent = queue[sock] /\ Sent' = queue'[sock]
      BY <1>0, <2>1, <3>1 DEF Sent, TableType
    <3>3. queue'[sock] = [j \in DOMAIN queue[sock] |-> [queue[sock][j] EXCEPT !.old = TRUE]]
      BY <1>14, <3>2 DEF Elapse
    <3>4. i \in DOMAIN queue[sock] /\ queue'[sock][i] = [queue[sock][i] EXCEPT !.old = TRUE]
      BY <3>2, <3>3
    <3>5. queue[sock][i] \in Message
      BY <1>0, <3>2, <3>4, QueueItems DEF TableType
    <3>6. queue'[sock][i].tid = queue[sock][i].tid /\ queue'[sock][i].cpu = queue[sock][i].cpu
      BY <3>4, <3>5 DEF Message
    <3> QED BY <3>2, <3>4, <3>6
  <2> QED BY <1>f, <1>c, <1>l, <2>1, <2>4, <2>5
<1> QED BY <1>1, <1>2, <1>4, <1>5, <1>6, <1>7, <1>8, <1>9, <1>10, <1>11, <1>12, <1>13, <1>14
        DEF Next, Mysqld, Handle, Monitor

\* Nothing is charged at first.
LEMMA ChargeInitOK == Init => ChargeInv
<1> SUFFICES ASSUME Init PROVE ChargeInv
  OBVIOUS
<1>1. CountType
  BY DEF Init, CountType, Gone, NoEntry, NotEnding
<1>m. PICK mark : mark = [t \in Tids |-> 0]
  OBVIOUS
<1>2. Sent = <<>> /\ DOMAIN <<>> = {}
  BY DEF Init, Sent
<1>3. Charged(mark)
  <2>1. SumFunctionOnSet(counters, Users) = 0
    BY ConstantsAssumption, SumZero DEF Init
  <2>2. SumFunctionOnSet(mark, Tids) = 0
    BY <1>m, ConstantsAssumption, SumZero
  <2> QED BY <2>1, <2>2 DEF Charged, Init
<1>4. Within(mark) /\ Placed(mark) /\ Ahead(mark, mark)
  BY <1>m, <1>2 DEF Init, Within, Placed, Ahead
<1>5. Based(mark, mark) /\ Closing(mark, mark, 0)
  BY DEF Init, Based, Closing, NoEntry, NotEnding
<1>6. Ledger(mark, mark, 0)
  BY <1>3, <1>4, <1>5 DEF Ledger
<1> QED BY <1>1, <1>6 DEF ChargeInv

\* Once a message was late, one always was.
LEMMA ChargeStep == IInv /\ ChargeInv /\ [Next]_vars => ChargeInv'
<1> SUFFICES ASSUME IInv, ChargeInv, [Next]_vars PROVE ChargeInv'
  OBVIOUS
<1>1. IInv' /\ CountType /\ CountType'
  BY Step, CountStep DEF ChargeInv
<1>2. late' = {} => late = {}
  <2>1. late \subseteq late'
    BY DEF Next, Mysqld, Handle, Monitor, vars, Start, Use, Exit, Begin, End, send_info,
           Connect, Close, ReceiveBegin, ReceiveEnd, EndAdd, EndRemove, Disconnect,
           PollError, Sweep, RemoveBad, ProceedAccounts, Elapse
  <2> QED BY <2>1
<1>3. ASSUME late' = {} PROVE \E a, b, c : Ledger(a, b, c)'
  <2>1. PICK mark, o, w : Ledger(mark, o, w)
    BY <1>2, <1>3 DEF ChargeInv
  <2> QED BY <1>1, <1>3, <2>1, LedgerStep
<1> QED BY <1>1, <1>3 DEF ChargeInv

\* Types of threads, connections, table and counters: what is added to a counter
\* (clac_stats_difference_inner_add_to_counters) is never negative, and goes to a
\* user.
THEOREM TableTypeCorrect == Spec => []TypeOK
<1>1. IInv /\ ChargeInv => TypeOK
  BY DEF IInv, ChargeInv, CountType, TypeOK
<1> QED BY <1>1, InitOK, Step, ChargeInitOK, ChargeStep, PTL DEF Spec

\* No usage is charged twice (add_new_tid_data, clac_stats_difference_add_to_counters,
\* proceed_tid_data): for any number of threads and users, thread ids used again,
\* nested queries, lost messages and connections, the counters and what was taken
\* from them are at most what the threads used, as long as no thread was swept
\* while a message of it was on its way.
THEOREM NoOverchargeHolds == Spec => []NoOvercharge
<1>1. IInv /\ ChargeInv => NoOvercharge
  <2> SUFFICES ASSUME IInv, ChargeInv, late = {} PROVE
                 taken + SumFunctionOnSet(counters, Users) <= SumFunctionOnSet(total, Tids)
    BY DEF NoOvercharge
  <2>1. PICK mark, o, w : Ledger(mark, o, w)
    BY DEF ChargeInv
  <2>2. Charged(mark) /\ Within(mark) /\ IsFiniteSet(Tids)
    BY <2>1, ConstantsAssumption DEF Ledger
  <2>3. \A t \in Tids : mark[t] \in Int /\ total[t] \in Int /\ mark[t] <= total[t]
    BY <2>2 DEF Within, IInv, TableType
  <2>4. SumFunctionOnSet(mark, Tids) <= SumFunctionOnSet(total, Tids)
    BY <2>2, <2>3, SumLess
  <2>5. /\ SumFunctionOnSet(mark, Tids) \in Int /\ SumFunctionOnSet(total, Tids) \in Int
        /\ SumFunctionOnSet(counters, Users) \in Nat /\ taken \in Nat
    BY <2>2, <2>3, SumType, CountersSum DEF ChargeInv, CountType
  <2> QED BY <2>2, <2>4, <2>5 DEF Charged
<1> QED BY <1>1, InitOK, Step, ChargeInitOK, ChargeStep, PTL DEF Spec

-----------------------------------------------------------------------------
(* The statistics files. *)

Items(s) == {s[i] : i \in DOMAIN s}
Files == Items(reports)

\* The name of every file is a time up to that of the last one, which is 0 as
\* long as there is no file; the clock was never at 0.
FilesInv ==
  /\ clock \in Nat \ {0} /\ old_tm_stats \in Nat
  /\ reports \in Seq(Files)
  /\ \A i \in DOMAIN reports : /\ reports[i].name \in Nat
                               /\ reports[i].name <= old_tm_stats
  /\ old_tm_stats = 0 => reports = <<>>
  /\ NamesIncrease

\* A sequence is one of its own members.
LEMMA SeqOfItsRange ==
  ASSUME NEW T, NEW s \in Seq(T)
  PROVE  s \in Seq(Items(s))
<1> DEFINE R == Items(s)
<1>1. Len(s) \in Nat /\ s \in [1 .. Len(s) -> T] /\ DOMAIN s = 1 .. Len(s)
  BY LenProperties
<1>2. \A i \in 1 .. Len(s) : s[i] \in R
  BY <1>1 DEF Items
<1> HIDE DEF R
<1>3. s \in [1 .. Len(s) -> R]
  BY <1>1, <1>2
<1>4. s \in UNION {[1 .. n -> R] : n \in Nat}
  BY <1>1, <1>3
<1>5. s \in Seq(R)
  BY <1>4, SeqDef
<1> QED BY <1>5 DEF R

\* One more file, a period after the last or later.
LEMMA NewFile ==
  ASSUME FilesInv, NEW now \in Nat \ {0}, NEW x, x.name = now,
         old_tm_stats # 0, now - old_tm_stats >= Period,
         reports' = Append(reports, x), old_tm_stats' = now, clock' = now
  PROVE  FilesInv'
<1> USE DEF FilesInv
<1> DEFINE n == Len(reports)
<1>1. n \in Nat /\ DOMAIN reports = 1 .. n
  BY LenProperties
<1>2. reports \in Seq(Files \cup {x})
  <2>1. \A i \in 1 .. n : reports[i] \in Files
    BY <1>1 DEF Files, Items
  <2> QED BY <1>1, <2>1, SeqDef
<1>3. /\ reports' \in Seq(Files \cup {x})
      /\ Len(reports') = n + 1
      /\ \A i \in 1 .. n : reports'[i] = reports[i]
      /\ reports'[n + 1] = x
  BY <1>2, AppendProperties
<1>4. DOMAIN reports' = 1 .. (n + 1)
  BY <1>3, LenProperties
<1>5. reports' \in Seq(Files')
  BY <1>3, SeqOfItsRange DEF Files
<1>6. Period \in Nat \ {0}
  BY PeriodAssumption
<1>7. \A i \in 1 .. (n + 1) : i \in 1 .. n \/ i = n + 1
  BY <1>1
<1>8. \A i \in DOMAIN reports' : reports'[i].name \in Nat /\ reports'[i].name <= now
  BY <1>1, <1>3, <1>4, <1>6, <1>7
<1>9. NamesIncrease'
  <2>1. SUFFICES ASSUME NEW i \in 1 .. (n + 1), NEW j \in 1 .. (n + 1), i < j
                 PROVE  reports'[i].name + Period <= reports'[j].name
    BY <1>4 DEF NamesIncrease
  <2>2. i \in 1 .. n /\ reports'[i] = reports[i]
    BY <1>1, <1>3, <2>1
  <2>3. CASE j \in 1 .. n
    BY <1>1, <1>3, <2>1, <2>2, <2>3 DEF NamesIncrease
  <2>4. CASE j = n + 1
    BY <1>1, <1>3, <1>6, <2>2, <2>4
  <2> QED BY <1>7, <2>3, <2>4
<1> QED BY <1>5, <1>8, <1>9

\* No file is written: the time of the last one is kept, or set for the first
\* time while there are no files.
LEMMA NoFile ==
  ASSUME FilesInv, reports' = reports, clock' \in Nat \ {0},
         \/ old_tm_stats' = old_tm_stats
         \/ old_tm_stats = 0 /\ old_tm_stats' = clock'
  PROVE  FilesInv'
<1>1. Files' = Files /\ (NamesIncrease <=> NamesIncrease')
  BY DEF Files, NamesIncrease
<1>2. CASE old_tm_stats' = old_tm_stats
  BY <1>1, <1>2 DEF FilesInv
<1>3. CASE old_tm_stats = 0 /\ old_tm_stats' = clock'
  <2>1. reports = <<>> /\ DOMAIN reports = {}
    BY <1>3, EmptySeq DEF FilesInv
  <2> QED BY <1>1, <1>3, <2>1 DEF FilesInv
<1> QED BY <1>2, <1>3

\* AddDbGovStatitrics writes only if the time of the last file is known and a
\* period ago.
LEMMA AddStep ==
  ASSUME FilesInv, NEW now \in Nat \ {0}, clock' = now, NEW current,
         AddDbGovStatitrics(now, current)
  PROVE  FilesInv'
<1> DEFINE old == IF old_tm_stats = 0 THEN now ELSE old_tm_stats
<1>0. Period \in Nat \ {0} /\ old_tm_stats \in Nat
  BY PeriodAssumption DEF FilesInv
<1>1. \/ /\ Elapsed(now, old) >= Period
         /\ old_tm_stats' = now
         /\ \E line : reports' = Append(reports, [name |-> now, line |-> line])
      \/ reports' = reports /\ old_tm_stats' = old
  BY DEF AddDbGovStatitrics
<1>2. CASE reports' = reports /\ old_tm_stats' = old
  BY <1>2, NoFile
<1>3. ASSUME Elapsed(now, old) >= Period, old_tm_stats' = now, NEW line,
             reports' = Append(reports, [name |-> now, line |-> line])
      PROVE  FilesInv'
  <2>1. old_tm_stats # 0 /\ now - old_tm_stats >= Period
    <3>1. now - old >= Period
      BY <1>3 DEF Elapsed
    <3>2. CASE old_tm_stats = 0
      <4>1. now - now >= Period
        BY <3>1, <3>2
      <4> QED BY <1>0, <4>1
    <3>3. CASE old_tm_stats # 0
      BY <3>1, <3>3
    <3> QED BY <3>2, <3>3
  <2>2. [name |-> now, line |-> line].name = now
    OBVIOUS
  <2> QED BY <1>3, <2>1, <2>2, NewFile
<1> QED BY <1>1, <1>2, <1>3

\* Files are written by a pass, and named by the clock.
LEMMA FilesStep == FilesInv /\ [StatNext]_<<userVars, statVars>> => FilesInv'
<1> SUFFICES ASSUME FilesInv, [StatNext]_<<userVars, statVars>> PROVE FilesInv'
  OBVIOUS
<1>0. clock \in Nat \ {0} /\ Period \in Nat \ {0}
  BY PeriodAssumption DEF FilesInv
<1>1. CASE StatPass
  <2>1. clock' \in Nat \ {0}
    BY <1>0, <1>1 DEF StatPass
  <2>2. CASE mode.statistic
    BY <1>1, <2>1, <2>2, AddStep DEF StatPass
  <2>3. CASE ~mode.statistic
    BY <1>1, <2>1, <2>3, NoFile DEF StatPass
  <2> QED BY <2>2, <2>3
<1>2. CASE \E reason \in Reasons : IncNumberOfRestricts(reason)
  BY <1>0, <1>2, NoFile DEF IncNumberOfRestricts
<1>3. CASE StatReread
  BY <1>0, <1>3, NoFile DEF StatReread
<1>4. CASE ClockSetBack
  <2>1. clock' \in Nat \ {0}
    BY <1>0, <1>4 DEF ClockSetBack
  <2> QED BY <1>4, <2>1, NoFile DEF ClockSetBack
<1>5. CASE UNCHANGED statVars
  BY <1>0, <1>5, NoFile DEF statVars
<1> QED BY <1>1, <1>2, <1>3, <1>4, <1>5 DEF StatNext

\* There are no files at first.
LEMMA FilesInitOK == StatInit => FilesInv
<1> SUFFICES ASSUME StatInit PROVE FilesInv
  OBVIOUS
<1>1. reports = <<>> /\ clock = StartTime /\ old_tm_stats = 0
  BY DEF StatInit
<1>2. DOMAIN reports = {} /\ reports \in Seq(Files)
  BY <1>1, EmptySeq
<1> QED BY <1>1, <1>2, PeriodAssumption DEF FilesInv, NamesIncrease

\* No file takes the name of an earlier one, whatever the clock does: names are
\* a period apart (AddDbGovStatitrics, WriteDbGovStatitrics).
THEOREM NamesIncreaseHolds == StatSpec => []NamesIncrease
<1>1. FilesInv => NamesIncrease
  BY DEF FilesInv
<1> QED BY <1>1, FilesInitOK, FilesStep, PTL DEF StatSpec

----------------------------------------------------------------------------
(* The ring buffer and the history of a user *)

\* A buffer of n slots whose newest entry is in slot k.
Ring(n, k, a) == [size |-> n, first |-> k, ar |-> a]
IsRing(f) ==
  \E n \in Nat \ {0} : \E k \in 0 .. (n - 1) : \E a :
    DOMAIN a = 0 .. (n - 1) /\ f = Ring(n, k, a)

\* A buffer that holds history h.
Holds(f, h) == \A i \in 1 .. f.size : fifo_stats_get(f, i - 1) = Used(h, i)

\* The statistics of a user: tick, buffer and averages.
IsStat(x) == \E t, f, a : x = [tick |-> t, fifo |-> f, average |-> a]

\* Buffers are well formed and no user is ahead of the tick; those of users that
\* are known hold their history, and the others have none.
BufferInv ==
  /\ tick_id \in Nat /\ interval \in Intervals
  /\ \A u \in Members : spent[u] \in Seq(Nat)
  /\ \A u \in Members : u \notin known => spent[u] = <<>>
  /\ DOMAIN us = Members /\ DOMAIN spent = Members /\ known \subseteq Members
  /\ \A u \in known :
       /\ IsStat(us[u]) /\ IsRing(us[u].fifo)
       /\ us[u].tick \in Nat /\ us[u].tick <= tick_id
       /\ Holds(us[u].fifo, spent[u])

\* A new buffer is as long as the longest interval and holds an empty history.
LEMMA NewRing ==
  ASSUME interval \in Intervals
  PROVE  /\ IsStat(init_user_stats) /\ IsRing(init_user_stats.fifo)
         /\ init_user_stats.tick = 0
         /\ Holds(init_user_stats.fifo, <<>>)
<1> DEFINE S == {interval[s] : s \in Spans}
           n == Max(S)
<1>1. interval["short"] \in Nat \ {0} /\ interval["mid"] \in Nat \ {0}
      /\ interval["long"] \in Nat \ {0}
  BY IntervalsAssumption DEF Spans
<1>2. S = {interval["short"], interval["mid"], interval["long"]}
  BY DEF Spans
<1>3. \E x \in S : \A y \in S : x >= y
  <2> HIDE DEF S
  <2> DEFINE a == interval["short"]
             b == interval["mid"]
             c == interval["long"]
  <2>1. a \in Nat /\ b \in Nat /\ c \in Nat /\ S = {a, b, c}
    BY <1>1, <1>2
  <2> HIDE DEF a, b, c
  <2>2. CASE a >= b /\ a >= c
    BY <2>1, <2>2
  <2>3. CASE b >= a /\ b >= c
    BY <2>1, <2>3
  <2>4. CASE c >= a /\ c >= b
    BY <2>1, <2>4
  <2> QED BY <2>1, <2>2, <2>3, <2>4
<1>4. n \in S
  BY <1>3 DEF Max
<1>5. n \in Nat \ {0}
  BY <1>1, <1>2, <1>4
<1>6. init_user_stats = [tick |-> 0, fifo |-> fifo_stats_init(n), average |-> [s \in Spans |-> 0]]
  BY DEF init_user_stats
<1> HIDE DEF n
<1> DEFINE a0 == [i \in 0 .. (n - 1) |-> 0]
<1>7. fifo_stats_init(n) = Ring(n, 0, a0) /\ DOMAIN a0 = 0 .. (n - 1) /\ 0 \in 0 .. (n - 1)
  BY <1>5 DEF fifo_stats_init, Ring
<1>8. IsRing(fifo_stats_init(n))
  BY <1>5, <1>7 DEF IsRing
<1>9. Holds(fifo_stats_init(n), <<>>)
  <2>0. Ring(n, 0, a0).size = n
    BY DEF Ring
  <2> SUFFICES ASSUME NEW i \in 1 .. n
               PROVE  fifo_stats_get(Ring(n, 0, a0), i - 1) = Used(<<>>, i)
    <3> HIDE DEF a0
    <3> QED BY <1>7, <2>0 DEF Holds
  <2>1. fifo_stats_get(Ring(n, 0, a0), i - 1) = 0
    BY <1>5 DEF fifo_stats_get, Ring
  <2>2. Used(<<>>, i) = 0
    BY <1>5, EmptySeq DEF Used
  <2> QED BY <2>1, <2>2
<1> QED BY <1>6, <1>8, <1>9 DEF IsStat

\* What a user used i seconds ago, after one more second.
LEMMA UsedNext ==
  ASSUME NEW h \in Seq(Nat), NEW x \in Nat
  PROVE  /\ <<x>> \o h \in Seq(Nat)
         /\ Used(<<x>> \o h, 1) = x
         /\ \A i \in Nat \ {0, 1} : Used(<<x>> \o h, i) = Used(h, i - 1)
<1> DEFINE q == <<x>> \o h
<1>1. <<x>> \in Seq(Nat) /\ Len(<<x>>) = 1 /\ <<x>>[1] = x /\ Len(h) \in Nat
  BY LenProperties
<1>2. /\ q \in Seq(Nat) /\ Len(q) = 1 + Len(h)
      /\ \A i \in 1 .. (1 + Len(h)) : q[i] = IF i <= 1 THEN <<x>>[i] ELSE h[i - 1]
  BY <1>1, ConcatProperties
<1> HIDE DEF q
<1>3. q[1] = x
  BY <1>1, <1>2
<1>4. Used(q, 1) = x
  BY <1>1, <1>2, <1>3 DEF Used
<1>5. ASSUME NEW i \in Nat \ {0, 1} PROVE Used(q, i) = Used(h, i - 1)
  <2>1. CASE i <= Len(q)
    <3>1. i \in 1 .. (1 + Len(h)) /\ ~(i <= 1) /\ i - 1 <= Len(h)
      BY <1>1, <1>2, <2>1
    <3>2. q[i] = h[i - 1]
      BY <1>2, <3>1
    <3> QED BY <2>1, <3>1, <3>2 DEF Used
  <2>2. CASE ~(i <= Len(q))
    <3>1. ~(i - 1 <= Len(h))
      BY <1>1, <1>2, <2>2
    <3> QED BY <2>2, <3>1 DEF Used
  <2> QED BY <2>1, <2>2
<1> QED BY <1>2, <1>4, <1>5 DEF q

\* Pushing usage x makes it the newest entry and moves the others back by one;
\* the oldest goes.
LEMMA PushHolds ==
  ASSUME NEW f, IsRing(f), NEW h \in Seq(Nat), NEW x \in Nat, Holds(f, h)
  PROVE  IsRing(fifo_stats_push(f, x)) /\ Holds(fifo_stats_push(f, x), <<x>> \o h)
<1>0. PICK n \in Nat \ {0} : \E k \in 0 .. (n - 1) : \E a :
             DOMAIN a = 0 .. (n - 1) /\ f = Ring(n, k, a)
  BY DEF IsRing
<1>a. PICK k \in 0 .. (n - 1) : \E a : DOMAIN a = 0 .. (n - 1) /\ f = Ring(n, k, a)
  BY <1>0
<1>1. PICK a : DOMAIN a = 0 .. (n - 1) /\ f = Ring(n, k, a)
  BY <1>a
<1> DEFINE p == IF k - 1 < 0 THEN n - 1 ELSE k - 1
           b == [a EXCEPT ![p] = x]
<1>2. p \in 0 .. (n - 1) /\ DOMAIN b = 0 .. (n - 1) /\ b[p] = x
      /\ \A i \in 0 .. (n - 1) : i # p => b[i] = a[i]
  BY <1>1
<1>3. fifo_stats_push(f, x) = Ring(n, p, b)
  <2>1. f.first = k /\ f.size = n /\ f.ar = a
    BY <1>1 DEF Ring
  <2>2. fifo_stats_push(f, x) = [f EXCEPT !.first = p, !.ar[p] = x]
    BY <2>1 DEF fifo_stats_push
  <2> HIDE DEF p
  <2>3. [Ring(n, k, a) EXCEPT !.first = p, !.ar[p] = x]
          = [[Ring(n, k, a) EXCEPT !.first = p] EXCEPT !.ar[p] = x]
    OBVIOUS
  <2>4. [Ring(n, k, a) EXCEPT !.first = p] = Ring(n, p, a)
    BY DEF Ring
  <2>5. [Ring(n, p, a) EXCEPT !.ar[p] = x] = Ring(n, p, b)
    BY DEF Ring
  <2> QED BY <1>1, <2>2, <2>3, <2>4, <2>5
<1> HIDE DEF b
<1>4. IsRing(Ring(n, p, b))
  BY <1>2 DEF IsRing
<1>5. fifo_stats_get(Ring(n, p, b), 0) = x
  BY <1>2 DEF fifo_stats_get, Ring
<1>6. ASSUME NEW i \in 1 .. (n - 1)
      PROVE  fifo_stats_get(Ring(n, p, b), i) = fifo_stats_get(Ring(n, k, a), i - 1)
  <2> DEFINE m == IF p + i >= n THEN p + i - n ELSE p + i
  <2>1. m = (IF k + (i - 1) >= n THEN k + (i - 1) - n ELSE k + (i - 1))
    OBVIOUS
  <2>2. m \in 0 .. (n - 1) /\ m # p
    OBVIOUS
  <2>3. fifo_stats_get(Ring(n, p, b), i) = b[m]
    BY DEF fifo_stats_get, Ring
  <2>4. fifo_stats_get(Ring(n, k, a), i - 1)
          = a[IF k + (i - 1) >= n THEN k + (i - 1) - n ELSE k + (i - 1)]
    BY DEF fifo_stats_get, Ring
  <2> HIDE DEF m, p
  <2> QED BY <1>2, <2>1, <2>2, <2>3, <2>4
<1> HIDE DEF p
<1>7. ASSUME NEW i \in 1 .. n
      PROVE  fifo_stats_get(Ring(n, p, b), i - 1) = Used(<<x>> \o h, i)
  <2>1. CASE i = 1
    BY <1>5, <2>1, UsedNext
  <2>2. CASE i # 1
    <3>1. i - 1 \in 1 .. (n - 1) /\ i - 1 \in 1 .. n /\ i \in Nat \ {0, 1}
      BY <2>2
    <3>2. fifo_stats_get(Ring(n, p, b), i - 1) = fifo_stats_get(Ring(n, k, a), (i - 1) - 1)
      BY <1>6, <3>1
    <3>3. fifo_stats_get(Ring(n, k, a), (i - 1) - 1) = Used(h, i - 1)
      BY <1>1, <3>1 DEF Holds, Ring
    <3> QED BY <3>1, <3>2, <3>3, UsedNext
  <2> QED BY <2>1, <2>2
<1>8. Holds(Ring(n, p, b), <<x>> \o h)
  BY <1>7 DEF Holds, Ring
<1> QED BY <1>3, <1>4, <1>8

\* A push changes buffer and averages of a user, and nothing else.
LEMMA PushStat ==
  ASSUME NEW u, IsStat(u), NEW t, NEW x
  PROVE  /\ IsStat(push_stats(x, [u EXCEPT !.tick = t]))
         /\ push_stats(x, [u EXCEPT !.tick = t]).tick = t
         /\ push_stats(x, [u EXCEPT !.tick = t]).fifo = fifo_stats_push(u.fifo, x)
         /\ push_stats(x, [u EXCEPT !.tick = t]).average
              = [s \in Spans |-> fifo_stats_avg(fifo_stats_push(u.fifo, x), interval[s])]
<1>1. PICK t0, f, a : u = [tick |-> t0, fifo |-> f, average |-> a]
  BY DEF IsStat
<1>2. [u EXCEPT !.tick = t] = [tick |-> t, fifo |-> f, average |-> a] /\ u.fifo = f
  BY <1>1
<1> DEFINE g == fifo_stats_push(f, x)
           av == [s \in Spans |-> fifo_stats_avg(g, interval[s])]
<1>3. push_stats(x, [tick |-> t, fifo |-> f, average |-> a])
        = [[tick |-> t, fifo |-> f, average |-> a] EXCEPT !.fifo = g, !.average = av]
  BY DEF push_stats, Averaged
<1> HIDE DEF g, av
<1>4. push_stats(x, [tick |-> t, fifo |-> f, average |-> a])
        = [tick |-> t, fifo |-> g, average |-> av]
  BY <1>3
<1> DEFINE v == push_stats(x, [u EXCEPT !.tick = t])
<1>5. v = [tick |-> t, fifo |-> g, average |-> av]
  BY <1>2, <1>4
<1> HIDE DEF v
<1>6. IsStat(v) /\ v.tick = t /\ v.fifo = g /\ v.average = av
  BY <1>5 DEF IsStat
<1>7. av = [s \in Spans |-> fifo_stats_avg(g, interval[s])]
  BY DEF av
<1> QED BY <1>2, <1>6, <1>7 DEF v, g

\* One pass gives every user it knows one entry: its usage, or none.
LEMMA PassBuffer ==
  ASSUME BufferInv, Pass
  PROVE  /\ BufferInv' /\ interval' = interval
         /\ \A u \in known' :
              us'[u].average = [s \in Spans |-> fifo_stats_avg(us'[u].fifo, interval[s])]
         /\ ac' = IF known' = {} THEN ac ELSE calc_acc_stats(known', us')
<1>1. PICK users \in SUBSET Members : \E sample \in [users -> Samples] :
             proceed_accounts(users, sample)
  BY DEF Pass
<1>2. PICK sample \in [users -> Samples] : proceed_accounts(users, sample)
  BY <1>1
<1> DEFINE tick == tick_id + 1
           old(u) == IF u \in known THEN us[u] ELSE init_user_stats
           counted == [u \in Members |-> IF u \in users
                                       THEN add_new_stats(old(u), sample[u], tick)
                                       ELSE us[u]]
           x(u) == IF u \in users THEN sample[u] ELSE 0
<1>3. /\ tick_id' = tick /\ known' = known \cup users /\ interval' = interval
      /\ us' = [u \in Members |-> IF u \in known \cup users
                                THEN tick_empty_users(counted[u], tick) ELSE us[u]]
      /\ spent' = [u \in Members |-> IF u \in known' THEN <<x(u)>> \o spent[u] ELSE spent[u]]
  BY <1>2 DEF proceed_accounts
<1>4. tick \in Nat /\ interval \in Intervals /\ known \subseteq Members /\ known' \subseteq Members
  BY <1>3 DEF BufferInv
<1>5. \A u \in Members : x(u) \in Nat /\ spent[u] \in Seq(Nat)
  BY SamplesAssumption DEF BufferInv
<1>6. ASSUME NEW u \in known'
      PROVE  /\ IsStat(us'[u]) /\ IsRing(us'[u].fifo) /\ us'[u].tick = tick
             /\ Holds(us'[u].fifo, <<x(u)>> \o spent[u])
             /\ us'[u].average = [s \in Spans |-> fifo_stats_avg(us'[u].fifo, interval[s])]
  <2> DEFINE o == old(u)
             v == push_stats(x(u), [o EXCEPT !.tick = tick])
  <2>1. u \in Members /\ u \in known \cup users
    BY <1>3, <1>4
  <2>2. /\ IsStat(o) /\ IsRing(o.fifo) /\ o.tick \in Nat /\ o.tick <= tick_id
        /\ Holds(o.fifo, spent[u])
    <3>1. CASE u \in known
      BY <3>1 DEF BufferInv
    <3>2. CASE u \notin known
      BY <1>4, <2>1, <3>2, NewRing DEF BufferInv
    <3> QED BY <3>1, <3>2
  <2>3. o.tick # tick
    BY <2>2 DEF BufferInv
  <2>4. us'[u] = tick_empty_users(counted[u], tick)
    BY <1>3, <2>1
  <2>5. /\ IsStat(v) /\ v.tick = tick /\ v.fifo = fifo_stats_push(o.fifo, x(u))
        /\ v.average = [s \in Spans |-> fifo_stats_avg(v.fifo, interval[s])]
    <3> HIDE DEF o
    <3>1. /\ IsStat(v) /\ v.tick = tick /\ v.fifo = fifo_stats_push(o.fifo, x(u))
          /\ v.average = [s \in Spans |-> fifo_stats_avg(fifo_stats_push(o.fifo, x(u)), interval[s])]
      BY <2>2, PushStat
    <3> HIDE DEF v
    <3> QED BY <3>1
  <2>6. us'[u] = v
    <3>1. CASE u \in users
      <4>1. counted[u] = add_new_stats(o, sample[u], tick) /\ x(u) = sample[u]
        BY <2>1, <3>1
      <4> HIDE DEF o, counted
      <4>2. counted[u] = v
        BY <2>3, <4>1 DEF add_new_stats
      <4> QED BY <2>4, <2>5, <4>2 DEF tick_empty_users
    <3>2. CASE u \notin users
      <4>1. counted[u] = o /\ x(u) = 0
        BY <2>1, <3>2
      <4> HIDE DEF o, counted
      <4> QED BY <2>3, <2>4, <4>1 DEF tick_empty_users
    <3> QED BY <3>1, <3>2
  <2> HIDE DEF o, v
  <2>7. /\ IsRing(fifo_stats_push(o.fifo, x(u)))
        /\ Holds(fifo_stats_push(o.fifo, x(u)), <<x(u)>> \o spent[u])
    <3> DEFINE y == x(u)
               h == spent[u]
               f == o.fifo
    <3>1. y \in Nat /\ h \in Seq(Nat) /\ IsRing(f) /\ Holds(f, h)
      BY <1>5, <2>1, <2>2
    <3> HIDE DEF y, h, f
    <3>2. IsRing(fifo_stats_push(f, y)) /\ Holds(fifo_stats_push(f, y), <<y>> \o h)
      BY <3>1, PushHolds
    <3> QED BY <3>2 DEF y, h, f
  <2> QED BY <2>5, <2>6, <2>7
<1>7. \A u \in Members : u \notin known' => spent'[u] = <<>>
  BY <1>3 DEF BufferInv
<1>8. ASSUME NEW u \in Members PROVE spent'[u] \in Seq(Nat)
  <2> DEFINE y == x(u)
             h == spent[u]
  <2>1. y \in Nat /\ h \in Seq(Nat)
    BY <1>5
  <2>2. spent'[u] = IF u \in known' THEN <<y>> \o h ELSE h
    BY <1>3
  <2> HIDE DEF y, h
  <2> QED BY <2>1, <2>2, UsedNext
<1>9. DOMAIN us' = Members /\ DOMAIN spent' = Members
  BY <1>3
<1>10. \A u \in known' : spent'[u] = <<x(u)>> \o spent[u]
  BY <1>3, <1>4
<1> HIDE DEF x
<1>11. \A u \in known' : Holds(us'[u].fifo, spent'[u])
  BY <1>6, <1>10
<1>12. \A u \in known' : us'[u].tick \in Nat /\ us'[u].tick <= tick_id'
  <2>1. ASSUME NEW u \in known' PROVE us'[u].tick = tick
    BY <1>6
  <2>2. tick_id' = tick /\ tick \in Nat
    BY <1>3, <1>4
  <2> HIDE DEF tick
  <2>3. tick <= tick
    BY <2>2
  <2> QED BY <2>1, <2>2, <2>3
<1>13. \A u \in known' : IsStat(us'[u]) /\ IsRing(us'[u].fifo)
  BY <1>6
<1>14. tick_id' \in Nat /\ interval' \in Intervals
  BY <1>3, <1>4
<1>15. BufferInv'
  BY <1>4, <1>7, <1>8, <1>9, <1>11, <1>12, <1>13, <1>14 DEF BufferInv
<1>16. ac' = IF known' = {} THEN ac ELSE calc_acc_stats(known', us')
  BY <1>2 DEF proceed_accounts
<1> HIDE DEF BufferInv
<1> QED BY <1>3, <1>6, <1>15, <1>16

\* Every other step leaves buffers and history alone, or starts an empty one.
LEMMA BufferStep == BufferInv /\ [StatNext]_<<userVars, statVars>> => BufferInv'
<1> SUFFICES ASSUME BufferInv, [StatNext]_<<userVars, statVars>> PROVE BufferInv'
  OBVIOUS
<1>1. CASE StatPass
  BY <1>1, PassBuffer DEF StatPass
<1>2. ASSUME UNCHANGED userVars PROVE BufferInv'
  BY <1>2 DEF userVars, BufferInv
<1>3. CASE (\E reason \in Reasons : IncNumberOfRestricts(reason)) \/ ClockSetBack
  BY <1>2, <1>3 DEF IncNumberOfRestricts, ClockSetBack
<1>4. CASE StatReread
  BY <1>4 DEF StatReread, RereadConfig, BufferInv
<1>5. ASSUME NEW u \in Members, add_user_stats(u) PROVE BufferInv'
  <2>1. /\ u \notin known /\ known' = known \cup {u}
        /\ us' = [us EXCEPT ![u] = init_user_stats]
        /\ UNCHANGED <<tick_id, interval, spent>>
    BY <1>5 DEF add_user_stats
  <2>2. /\ IsStat(init_user_stats) /\ IsRing(init_user_stats.fifo) /\ init_user_stats.tick = 0
        /\ Holds(init_user_stats.fifo, spent[u])
    BY <2>1, NewRing DEF BufferInv
  <2>3. us'[u] = init_user_stats /\ \A v \in known : us'[v] = us[v]
    BY <2>1 DEF BufferInv
  <2>4. DOMAIN us' = Members /\ tick_id \in Nat
    BY <2>1 DEF BufferInv
  <2> HIDE DEF init_user_stats
  <2> QED BY <2>1, <2>2, <2>3, <2>4 DEF BufferInv
<1> QED BY <1>1, <1>2, <1>3, <1>4, <1>5 DEF StatNext

\* Nobody is known at first, and nobody has a history.
LEMMA BufferInitOK == StatInit => BufferInv
<1> SUFFICES ASSUME StatInit PROVE BufferInv
  OBVIOUS
<1>1. /\ tick_id = 0 /\ interval \in Intervals /\ known = {}
      /\ us = [u \in Members |-> init_user_stats] /\ spent = [u \in Members |-> <<>>]
  BY DEF StatInit, UserInit
<1>2. \A u \in Members : spent[u] = <<>> /\ spent[u] \in Seq(Nat)
  BY <1>1, EmptySeq
<1>3. DOMAIN us = Members /\ DOMAIN spent = Members
  BY <1>1
<1> QED BY <1>1, <1>2, <1>3 DEF BufferInv

\* The ring buffer of every known user is its usage in the last seconds, newest
\* first, with one entry for each pass, for any sizes of the buffers, intervals
\* changed by rereads, and any order of users becoming known and having counters.
THEOREM BufferIsHistoryHolds == StatSpec => []BufferIsHistory
<1>1. BufferInv => BufferIsHistory
  BY DEF BufferInv, BufferIsHistory, Holds
<1> QED BY <1>1, BufferInitOK, BufferStep, PTL DEF StatSpec

----------------------------------------------------------------------------
(* Averages *)

\* The smaller of two numbers.
LEMMA MinOfTwo ==
  ASSUME NEW a \in Nat, NEW b \in Nat
  PROVE  /\ Min({a, b}) \in {a, b} /\ Min({a, b}) <= a /\ Min({a, b}) <= b
         /\ a <= b => Min({a, b}) = a
<1>1. \E x \in {a, b} : \A y \in {a, b} : x <= y
  <2>1. CASE a <= b
    BY <2>1
  <2>2. CASE b <= a
    BY <2>2
  <2> QED BY <2>1, <2>2
<1>2. Min({a, b}) \in {a, b} /\ \A y \in {a, b} : Min({a, b}) <= y
  BY <1>1 DEF Min
<1> DEFINE m == Min({a, b})
<1> HIDE DEF m
<1>3. m \in {a, b} /\ m <= a /\ m <= b
  BY <1>2 DEF m
<1>4. a <= b => m = a
  BY <1>3
<1> QED BY <1>3, <1>4 DEF m

\* What a user used in its last n seconds is a natural number.
LEMMA UsedType ==
  ASSUME NEW h \in Seq(Nat)
  PROVE  /\ \A i \in Nat \ {0} : Used(h, i) \in Nat
         /\ \A n \in Nat : UsedIn(h, n) \in Nat
<1>1. ASSUME NEW i \in Nat \ {0} PROVE Used(h, i) \in Nat
  <2>1. Len(h) \in Nat /\ \A j \in 1 .. Len(h) : h[j] \in Nat
    BY LenProperties, ElementOfSeq
  <2>2. CASE i <= Len(h)
    BY <2>1, <2>2 DEF Used
  <2>3. CASE ~(i <= Len(h))
    BY <2>3 DEF Used
  <2> QED BY <2>2, <2>3
<1>2. ASSUME NEW n \in Nat PROVE UsedIn(h, n) \in Nat
  <2> DEFINE e == [i \in 1 .. n |-> Used(h, i)]
  <2>1. \A i \in 1 .. n : e[i] \in Nat
    BY <1>1
  <2>2. UsedIn(h, n) = SumFunctionOnSet(e, 1 .. n)
    BY DEF UsedIn, SumFunction
  <2>3. IsFiniteSet(1 .. n)
    BY FS_Interval
  <2> HIDE DEF e
  <2> QED BY <2>1, <2>2, <2>3, SumType
<1> QED BY <1>1, <1>2

\* The average over a buffer that holds a history is one of that history.
LEMMA AverageOfHistory ==
  ASSUME NEW f, IsRing(f), NEW h \in Seq(Nat), Holds(f, h), NEW k \in Nat \ {0}
  PROVE  /\ f.size \in Nat \ {0}
         /\ Min({k, f.size}) \in Nat \ {0}
         /\ fifo_stats_avg(f, k) = UsedIn(h, Min({k, f.size})) \div Min({k, f.size})
<1>1. f.size \in Nat \ {0}
  BY DEF IsRing, Ring
<1> DEFINE n == Min({k, f.size})
<1>2. n \in Nat \ {0} /\ n <= f.size
  BY <1>1, MinOfTwo
<1> DEFINE g == [i \in 0 .. (n - 1) |-> fifo_stats_get(f, i)]
           e == [i \in 1 .. n |-> Used(h, i)]
<1>3. fifo_stats_avg(f, k) = SumFunctionOnSet(g, 0 .. (n - 1)) \div n
  BY DEF fifo_stats_avg, SumFunction
<1>4. UsedIn(h, n) = SumFunctionOnSet(e, 1 .. n)
  BY DEF UsedIn, SumFunction
<1> HIDE DEF n
<1>5. \A i \in 1 .. n : e[i] \in Int /\ g[i - 1] = e[i]
  <2> SUFFICES ASSUME NEW i \in 1 .. n PROVE e[i] \in Int /\ g[i - 1] = e[i]
    OBVIOUS
  <2>1. i \in Nat \ {0} /\ i \in 1 .. f.size /\ i - 1 \in 0 .. (n - 1)
    BY <1>1, <1>2
  <2>2. g[i - 1] = fifo_stats_get(f, i - 1) /\ e[i] = Used(h, i)
    BY <2>1
  <2>3. Used(h, i) \in Nat /\ fifo_stats_get(f, i - 1) = Used(h, i)
    BY <2>1, UsedType DEF Holds
  <2> HIDE DEF g, e
  <2> QED BY <2>2, <2>3
<1> HIDE DEF g, e
<1>6. SumFunctionOnSet(g, 0 .. (n - 1)) = SumFunctionOnSet(e, 1 .. n)
  BY <1>2, <1>5, SumShift
<1>7. fifo_stats_avg(f, k) = UsedIn(h, n) \div n
  BY <1>3, <1>4, <1>6
<1> QED BY <1>1, <1>2, <1>7 DEF n

\* After a pass the averages of every user are those of its history.
LEMMA PassAverages ==
  ASSUME BufferInv, Pass, NEW u \in known', NEW s \in Spans
  PROVE  /\ us'[u].fifo.size \in Nat \ {0} /\ spent'[u] \in Seq(Nat)
         /\ interval[s] \in Nat \ {0} /\ Min({interval[s], us'[u].fifo.size}) \in Nat \ {0}
         /\ us'[u].average[s] = UsedIn(spent'[u], Min({interval[s], us'[u].fifo.size}))
                                  \div Min({interval[s], us'[u].fifo.size})
<1>1. /\ BufferInv'
      /\ us'[u].average = [r \in Spans |-> fifo_stats_avg(us'[u].fifo, interval[r])]
  BY PassBuffer
<1>2. IsRing(us'[u].fifo) /\ Holds(us'[u].fifo, spent'[u]) /\ spent'[u] \in Seq(Nat)
  BY <1>1 DEF BufferInv
<1>3. interval[s] \in Nat \ {0}
  BY IntervalsAssumption DEF BufferInv
<1>4. us'[u].average[s] = fifo_stats_avg(us'[u].fifo, interval[s])
  BY <1>1
<1> DEFINE f == us'[u].fifo
           h == spent'[u]
           k == interval[s]
<1> HIDE DEF f, h, k
<1>5. /\ f.size \in Nat \ {0} /\ Min({k, f.size}) \in Nat \ {0}
      /\ fifo_stats_avg(f, k) = UsedIn(h, Min({k, f.size})) \div Min({k, f.size})
  BY <1>2, <1>3, AverageOfHistory DEF f, h, k
<1> QED BY <1>2, <1>3, <1>4, <1>5 DEF f, h, k

\* After every pass the averages of a user are those of its last seconds
\* (push_stats, fifo_stats_avg), for any intervals, any buffer sized by an
\* earlier configuration, and any usage.
THEOREM AveragesAreRecentHolds == StatSpec => AveragesAreRecent
<1>1. StatSpec => []BufferInv
  BY BufferInitOK, BufferStep, PTL DEF StatSpec
<1>2. BufferInv =>
        [Pass => \A u \in known' : \A s \in Spans :
           LET n == Min({interval[s], us'[u].fifo.size})
           IN  us'[u].average[s] = UsedIn(spent'[u], n) \div n]_userVars
  BY PassAverages
<1> QED BY <1>1, <1>2, PTL DEF AveragesAreRecent

\* An account without users has used nothing.
AccountInv == known = {} => ac = [current |-> 0, average |-> [s \in Spans |-> 0]]

\* Users stay known, and without any the account is left alone.
LEMMA AccountStep ==
  BufferInv /\ AccountInv /\ [StatNext]_<<userVars, statVars>> => AccountInv'
<1> SUFFICES ASSUME BufferInv, AccountInv, [StatNext]_<<userVars, statVars>>, known' = {}
             PROVE  known = {} /\ ac' = ac
  BY DEF AccountInv
<1>1. CASE StatPass
  <2>1. PICK users \in SUBSET Members : \E sample \in [users -> Samples] :
               proceed_accounts(users, sample)
    BY <1>1 DEF StatPass, Pass
  <2>2. known' = known \cup users /\ (known' = {} => ac' = ac)
    BY <2>1 DEF proceed_accounts
  <2> QED BY <2>2
<1>2. CASE UNCHANGED userVars
  BY <1>2 DEF userVars
<1>3. CASE (\E reason \in Reasons : IncNumberOfRestricts(reason)) \/ ClockSetBack
  BY <1>2, <1>3 DEF IncNumberOfRestricts, ClockSetBack
<1>4. CASE StatReread
  BY <1>4 DEF StatReread, RereadConfig
<1>5. ASSUME NEW u \in Members, add_user_stats(u) PROVE known' # {}
  BY <1>5 DEF add_user_stats
<1> QED BY <1>1, <1>2, <1>3, <1>4, <1>5 DEF StatNext

\* Integer division rounds down by less than one.
LEMMA Rounding ==
  ASSUME NEW a \in Nat, NEW n \in Nat \ {0}
  PROVE  /\ a \div n \in Nat /\ n * (a \div n) \in Nat
         /\ n * (a \div n) <= a /\ a <= n * (a \div n) + (n - 1)
<1> DEFINE q == a \div n
           r == a % n
           p == n * q
<1>1. a = p + r /\ q \in Nat /\ r \in 0 .. (n - 1)
  OBVIOUS
<1> HIDE DEF q, r
<1>2. p \in Int /\ p >= 0
  BY <1>1
<1> HIDE DEF p
<1>3. p <= a /\ a <= p + (n - 1) /\ p \in Nat
  BY <1>1, <1>2
<1> QED BY <1>1, <1>3 DEF p, q

\* A sum of averages over n seconds, each rounded down, against the sum of what
\* they are averages of.
LEMMA RoundedSum ==
  ASSUME NEW S, IsFiniteSet(S), NEW n \in Nat \ {0}, NEW b, NEW a,
         \A u \in S : b[u] \in Nat /\ a[u] = b[u] \div n
  PROVE  /\ n * SumFunctionOnSet(a, S) <= SumFunctionOnSet(b, S)
         /\ SumFunctionOnSet(b, S) - n * SumFunctionOnSet(a, S) <= (n - 1) * Cardinality(S)
<1> DEFINE m == [u \in S |-> n * a[u]]
           c == [u \in S |-> n - 1]
           d == [u \in S |-> m[u] + c[u]]
<1>1. \A u \in S : /\ b[u] \in Int /\ a[u] \in Int /\ m[u] \in Int /\ m[u] = n * a[u]
                   /\ m[u] <= b[u] /\ b[u] <= m[u] + (n - 1)
  <2> SUFFICES ASSUME NEW u \in S
               PROVE  /\ b[u] \in Int /\ a[u] \in Int /\ n * a[u] \in Int
                      /\ n * a[u] <= b[u] /\ b[u] <= n * a[u] + (n - 1)
    BY DEF m
  <2>1. b[u] \in Nat /\ a[u] = b[u] \div n
    OBVIOUS
  <2>2. /\ b[u] \div n \in Nat /\ n * (b[u] \div n) \in Nat
        /\ n * (b[u] \div n) <= b[u] /\ b[u] <= n * (b[u] \div n) + (n - 1)
    BY <2>1, Rounding
  <2> DEFINE x == b[u] \div n
             y == n * x
  <2>3. a[u] = x /\ x \in Nat /\ y \in Nat /\ y <= b[u] /\ b[u] <= y + (n - 1)
    BY <2>1, <2>2
  <2> HIDE DEF x
  <2>4. n * a[u] = y
    BY <2>3
  <2> HIDE DEF y
  <2> QED BY <2>1, <2>3, <2>4
<1>2. \A u \in S : c[u] = n - 1 /\ d[u] = m[u] + c[u]
  BY DEF c, d
<1> HIDE DEF m, c, d
<1>3. \A u \in S : d[u] \in Int /\ c[u] \in Int /\ b[u] <= d[u]
  BY <1>1, <1>2
<1>4. SumFunctionOnSet(m, S) = n * SumFunctionOnSet(a, S)
  BY <1>1, SumTimes
<1>5. SumFunctionOnSet(m, S) <= SumFunctionOnSet(b, S)
  BY <1>1, SumLess
<1>6. SumFunctionOnSet(d, S) = SumFunctionOnSet(m, S) + SumFunctionOnSet(c, S)
  BY <1>1, <1>2, <1>3, SumPlus
<1>7. n - 1 \in Int /\ SumFunctionOnSet(c, S) = (n - 1) * Cardinality(S)
  <2> DEFINE k == n - 1
  <2>1. k \in Int /\ \A u \in S : c[u] = k
    BY <1>2
  <2> HIDE DEF k
  <2>2. SumFunctionOnSet(c, S) = k * Cardinality(S)
    BY <2>1, SumConstant
  <2> QED BY <2>1, <2>2 DEF k
<1>8. SumFunctionOnSet(b, S) <= SumFunctionOnSet(d, S)
  BY <1>1, <1>3, SumLess
<1>9. /\ SumFunctionOnSet(m, S) \in Int /\ SumFunctionOnSet(c, S) \in Int
      /\ SumFunctionOnSet(b, S) \in Int /\ SumFunctionOnSet(d, S) \in Int
  BY <1>1, <1>3, SumType
<1>10. SumFunctionOnSet(b, S) - SumFunctionOnSet(m, S) <= SumFunctionOnSet(c, S)
  BY <1>6, <1>8, <1>9
<1> QED BY <1>4, <1>5, <1>7, <1>10

\* A pass adds up the averages of the users.
LEMMA PassAccount ==
  ASSUME BufferInv, AccountInv, Pass, NEW s \in Spans,
         \A u \in known' : us'[u].fifo.size >= interval[s]
  PROVE  LET n    == interval[s]
             used == SumFunction([u \in known' |-> UsedIn(spent'[u], n)])
         IN  /\ n * ac'.average[s] <= used
             /\ used - n * ac'.average[s] <= (n - 1) * Cardinality(known')
<1> DEFINE n == interval[s]
           b == [u \in known' |-> UsedIn(spent'[u], n)]
           a == [u \in known' |-> us'[u].average[s]]
<1>1. /\ BufferInv' /\ interval' = interval
      /\ ac' = IF known' = {} THEN ac ELSE calc_acc_stats(known', us')
  BY PassBuffer
<1>2. IsFiniteSet(known')
  BY <1>1, SamplesAssumption, FS_Subset DEF BufferInv
<1>3. n \in Nat \ {0}
  BY IntervalsAssumption DEF BufferInv
<1>4. \A u \in known' : b[u] \in Nat /\ a[u] = b[u] \div n
  <2> SUFFICES ASSUME NEW u \in known'
               PROVE  UsedIn(spent'[u], n) \in Nat /\ us'[u].average[s] = UsedIn(spent'[u], n) \div n
    OBVIOUS
  <2>1. /\ us'[u].fifo.size \in Nat \ {0} /\ spent'[u] \in Seq(Nat)
        /\ us'[u].average[s] = UsedIn(spent'[u], Min({n, us'[u].fifo.size}))
                                  \div Min({n, us'[u].fifo.size})
    BY PassAverages
  <2> HIDE DEF n
  <2>2. Min({n, us'[u].fifo.size}) = n
    BY <1>3, <2>1, MinOfTwo DEF n
  <2>3. UsedIn(spent'[u], n) \in Nat
    BY <1>3, <2>1, UsedType
  <2> QED BY <2>1, <2>2, <2>3
<1>5. ac'.average[s] = SumFunctionOnSet(a, known')
  <2>1. CASE known' = {}
    <3>1. known = {}
      BY <2>1 DEF Pass, proceed_accounts
    <3>2. ac'.average[s] = 0
      BY <1>1, <2>1, <3>1 DEF AccountInv
    <3> QED BY <2>1, <3>2, SumEmpty
  <2>2. CASE known' # {}
    BY <1>1, <2>2 DEF calc_acc_stats, SumFunction
  <2> QED BY <2>1, <2>2
<1>6. SumFunction(b) = SumFunctionOnSet(b, known')
  BY DEF SumFunction
<1> HIDE DEF n, a, b
<1>7. /\ n * SumFunctionOnSet(a, known') <= SumFunctionOnSet(b, known')
      /\ SumFunctionOnSet(b, known') - n * SumFunctionOnSet(a, known')
           <= (n - 1) * Cardinality(known')
  BY <1>2, <1>3, <1>4, RoundedSum
<1> QED BY <1>5, <1>6, <1>7 DEF n, b

\* The average of an account, a sum of the rounded averages of its users
\* (calc_acc_stats), is never above the average of their total, and below it by
\* less than one unit for each user, for any number of users.
THEOREM AccountAverageCloseHolds == StatSpec => AccountAverageClose
<1>1. StatInit => AccountInv
  BY DEF StatInit, UserInit, AccountInv
<1>2. StatSpec => [](BufferInv /\ AccountInv)
  BY <1>1, BufferInitOK, BufferStep, AccountStep, PTL DEF StatSpec
<1>3. BufferInv /\ AccountInv =>
        [Pass => \A s \in Spans :
           LET n     == interval[s]
               used  == SumFunction([u \in known' |-> UsedIn(spent'[u], n)])
           IN  (\A u \in known' : us'[u].fifo.size >= n) =>
                 /\ n * ac'.average[s] <= used
                 /\ used - n * ac'.average[s] <= (n - 1) * Cardinality(known')]_userVars
  BY PassAccount
<1> QED BY <1>2, <1>3, PTL DEF AccountAverageClose

----------------------------------------------------------------------------
(* Everything is reported once. *)

Line == [n : Nat, sum : Nat, max : Nat, restricts : Nat, cause : BOOLEAN, ignored : BOOLEAN]
Amount == [usage : Nat, restricts : Nat]

UsageInFiles    == SumFunction([i \in DOMAIN reports |-> reports[i].line.sum])
RestrictsInFiles == SumFunction([i \in DOMAIN reports |-> reports[i].line.restricts])

\* Everything counted is a natural number, and nothing is counted before there is
\* a user: a file without a new sample of the entry has nothing to say.
ReportInv ==
  /\ FilesInv
  /\ mode \in [statistic : BOOLEAN, ignored : BOOLEAN]
  /\ entry \in Line /\ restricts \in Nat /\ consumed \in Amount /\ lost \in Amount
  /\ \A i \in DOMAIN reports : reports[i].line \in Line
  /\ cause \in BOOLEAN
  /\ known = {} => entry = NoStat /\ restricts = 0
  /\ ReportedOnce

\* One more term at the end.
LEMMA SumNext ==
  ASSUME NEW n \in Nat, NEW f, NEW g,
         \A i \in 1 .. n : f[i] \in Int /\ g[i] = f[i], g[n + 1] \in Int
  PROVE  /\ SumFunctionOnSet(f, 1 .. n) \in Int
         /\ SumFunctionOnSet(g, 1 .. (n + 1)) = SumFunctionOnSet(f, 1 .. n) + g[n + 1]
<1> DEFINE S == 1 .. n
           x == n + 1
<1>1. 1 .. (n + 1) = S \cup {x} /\ x \notin S
  OBVIOUS
<1>2. IsFiniteSet(S)
  BY FS_Interval
<1>3. \A i \in S \cup {x} : g[i] \in Int
  OBVIOUS
<1>4. \A i \in S : g[i] = f[i] /\ f[i] \in Int
  OBVIOUS
<1> HIDE DEF S
<1>5. SumFunctionOnSet(g, S \cup {x}) = SumFunctionOnSet(g, S) + g[x]
  <2> HIDE DEF x
  <2> QED BY <1>1, <1>2, <1>3, SumAdd
<1>6. SumFunctionOnSet(g, S) = SumFunctionOnSet(f, S)
  BY <1>2, <1>4, SumSame
<1>7. SumFunctionOnSet(f, S) \in Int
  BY <1>2, <1>4, SumType
<1> QED BY <1>1, <1>5, <1>6, <1>7 DEF S

\* A new file adds its line to what the files have.
LEMMA FilesGrow ==
  ASSUME ReportInv, NEW r, r.line \in Line, reports' = Append(reports, r)
  PROVE  /\ UsageInFiles \in Int /\ RestrictsInFiles \in Int
         /\ UsageInFiles' = UsageInFiles + r.line.sum
         /\ RestrictsInFiles' = RestrictsInFiles + r.line.restricts
         /\ \A i \in DOMAIN reports' : reports'[i].line \in Line
<1> DEFINE n == Len(reports)
<1>1. n \in Nat /\ DOMAIN reports = 1 .. n /\ reports \in Seq(Files)
  BY LenProperties DEF ReportInv, FilesInv
<1>2. reports \in Seq(Files \cup {r})
  <2>1. \A i \in 1 .. n : reports[i] \in Files
    BY <1>1 DEF Files, Items
  <2> QED BY <1>1, <2>1, SeqDef
<1>3. /\ DOMAIN reports' = 1 .. (n + 1)
      /\ \A i \in 1 .. n : reports'[i] = reports[i]
      /\ reports'[n + 1] = r
  BY <1>2, AppendProperties, LenProperties
<1>4. \A i \in 1 .. n : reports[i].line \in Line
  BY <1>1 DEF ReportInv
<1>5. \A l \in Line : l.sum \in Int /\ l.restricts \in Int
  BY DEF Line
<1> HIDE DEF n
<1>6. /\ UsageInFiles \in Int
      /\ UsageInFiles' = UsageInFiles + r.line.sum
  <2> DEFINE f == [i \in DOMAIN reports |-> reports[i].line.sum]
             g == [i \in DOMAIN reports' |-> reports'[i].line.sum]
  <2>1. /\ UsageInFiles = SumFunctionOnSet(f, 1 .. n)
        /\ UsageInFiles' = SumFunctionOnSet(g, 1 .. (n + 1))
    BY <1>1, <1>3 DEF UsageInFiles, SumFunction
  <2>2. n + 1 \in 1 .. (n + 1) /\ \A i \in 1 .. n : i \in 1 .. (n + 1)
    BY <1>1
  <2>3. \A i \in 1 .. n : f[i] \in Int /\ g[i] = f[i]
    BY <1>1, <1>3, <1>4, <1>5, <2>2
  <2>4. g[n + 1] = r.line.sum /\ g[n + 1] \in Int
    BY <1>3, <1>5, <2>2
  <2> HIDE DEF f, g
  <2> QED BY <1>1, <2>1, <2>3, <2>4, SumNext
<1>7. /\ RestrictsInFiles \in Int
      /\ RestrictsInFiles' = RestrictsInFiles + r.line.restricts
  <2> DEFINE f == [i \in DOMAIN reports |-> reports[i].line.restricts]
             g == [i \in DOMAIN reports' |-> reports'[i].line.restricts]
  <2>1. /\ RestrictsInFiles = SumFunctionOnSet(f, 1 .. n)
        /\ RestrictsInFiles' = SumFunctionOnSet(g, 1 .. (n + 1))
    BY <1>1, <1>3 DEF RestrictsInFiles, SumFunction
  <2>2. n + 1 \in 1 .. (n + 1) /\ \A i \in 1 .. n : i \in 1 .. (n + 1)
    BY <1>1
  <2>3. \A i \in 1 .. n : f[i] \in Int /\ g[i] = f[i]
    BY <1>1, <1>3, <1>4, <1>5, <2>2
  <2>4. g[n + 1] = r.line.restricts /\ g[n + 1] \in Int
    BY <1>3, <1>5, <2>2
  <2> HIDE DEF f, g
  <2> QED BY <1>1, <2>1, <2>3, <2>4, SumNext
<1>8. \A i \in 1 .. (n + 1) : i \in 1 .. n \/ i = n + 1
  BY <1>1
<1>9. \A i \in DOMAIN reports' : reports'[i].line \in Line
  BY <1>3, <1>4, <1>8
<1> QED BY <1>6, <1>7, <1>9

\* What the files have is a number.
LEMMA FilesSum ==
  ASSUME ReportInv
  PROVE  UsageInFiles \in Int /\ RestrictsInFiles \in Int
<1>1. Len(reports) \in Nat /\ DOMAIN reports = 1 .. Len(reports)
  BY LenProperties DEF ReportInv, FilesInv
<1>2. IsFiniteSet(DOMAIN reports)
  BY <1>1, FS_Interval
<1>3. \A i \in DOMAIN reports : reports[i].line.sum \in Int /\ reports[i].line.restricts \in Int
  BY DEF ReportInv, Line
<1> DEFINE f == [i \in DOMAIN reports |-> reports[i].line.sum]
           g == [i \in DOMAIN reports |-> reports[i].line.restricts]
<1>4. \A i \in DOMAIN reports : f[i] \in Int /\ g[i] \in Int
  BY <1>3
<1>5. DOMAIN f = DOMAIN reports /\ DOMAIN g = DOMAIN reports
  OBVIOUS
<1>6. UsageInFiles = SumFunction(f) /\ RestrictsInFiles = SumFunction(g)
  BY DEF UsageInFiles, RestrictsInFiles
<1> HIDE DEF f, g
<1> QED BY <1>2, <1>4, <1>5, <1>6, SumType DEF SumFunction

\* The usage of an account in a pass is a natural number.
LEMMA CurrentType ==
  ASSUME BufferInv, Pass
  PROVE  (IF known' = {} THEN 0 ELSE ac'.current) \in Nat
<1> SUFFICES ASSUME known' # {} PROVE ac'.current \in Nat
  OBVIOUS
<1>1. BufferInv' /\ ac' = calc_acc_stats(known', us')
  BY PassBuffer
<1>2. IsFiniteSet(known')
  BY <1>1, SamplesAssumption, FS_Subset DEF BufferInv
<1> DEFINE f == [u \in known' |-> fifo_stats_get(us'[u].fifo, 0)]
<1>3. ac'.current = SumFunctionOnSet(f, known')
  BY <1>1 DEF calc_acc_stats, SumFunction
<1>4. \A u \in known' : f[u] \in Nat
  <2> SUFFICES ASSUME NEW u \in known' PROVE fifo_stats_get(us'[u].fifo, 0) \in Nat
    OBVIOUS
  <2>1. /\ IsRing(us'[u].fifo) /\ Holds(us'[u].fifo, spent'[u]) /\ spent'[u] \in Seq(Nat)
    BY <1>1 DEF BufferInv
  <2> DEFINE r == us'[u].fifo
             h == spent'[u]
  <2> HIDE DEF r, h
  <2>2. r.size \in Nat \ {0}
    BY <2>1 DEF IsRing, Ring, r
  <2>3. 1 \in 1 .. r.size /\ 1 - 1 = 0 /\ 1 \in Nat \ {0}
    BY <2>2
  <2>4. fifo_stats_get(r, 0) = Used(h, 1)
    BY <2>1, <2>3 DEF Holds, r, h
  <2>5. Used(h, 1) \in Nat
    BY <2>1, <2>3, UsedType DEF h
  <2> QED BY <2>4, <2>5 DEF r
<1> HIDE DEF f
<1> QED BY <1>2, <1>3, <1>4, SumType

\* The entry with or without a new sample, and the line it gives: what is not in
\* the line is that of an ignored account, or restrictions without a cause of an
\* account without usage.
LEMMA LineOfEntry ==
  ASSUME NEW e \in Line
  PROVE  /\ dbstat_print_table(e) \in Line
         /\ dbstat_print_table(e).sum + (IF e.ignored THEN e.sum ELSE 0) = e.sum
         /\ dbstat_print_table(e).restricts
              + (IF e.ignored \/ (e.sum = 0 /\ ~e.cause) THEN e.restricts ELSE 0) = e.restricts
<1>1. e.sum \in Nat /\ e.restricts \in Nat /\ e.ignored \in BOOLEAN /\ e.cause \in BOOLEAN
  BY DEF Line
<1>2. NoStat \in Line /\ NoStat.sum = 0 /\ NoStat.restricts = 0
  BY DEF NoStat, Line
<1>3. CASE e.ignored
  <2>1. dbstat_print_table(e) = NoStat
    BY <1>3 DEF dbstat_print_table, dbgov_was_user_activity
  <2> QED BY <1>1, <1>2, <1>3, <2>1
<1>4. CASE ~e.ignored /\ (e.sum > 0 \/ e.cause)
  <2>1. dbstat_print_table(e) = e
    BY <1>4 DEF dbstat_print_table, dbgov_was_user_activity
  <2>2. ~(e.sum = 0 /\ ~e.cause)
    BY <1>1, <1>4
  <2> QED BY <1>1, <1>4, <2>1, <2>2
<1>5. CASE ~e.ignored /\ e.sum = 0 /\ ~e.cause
  <2>1. dbstat_print_table(e) = NoStat
    BY <1>5 DEF dbstat_print_table, dbgov_was_user_activity
  <2> QED BY <1>1, <1>2, <1>5, <2>1
<1> QED BY <1>1, <1>3, <1>4, <1>5

\* A sample adds the usage of a pass to the entry.
LEMMA SampleOfEntry ==
  ASSUME ReportInv, NEW current \in Nat
  PROVE  /\ dbstat_add_to_table(current) \in Line
         /\ dbstat_add_to_table(current).sum = entry.sum + current
         /\ dbstat_add_to_table(current).restricts = restricts
<1>1. /\ entry.n \in Nat /\ entry.sum \in Nat /\ entry.max \in Nat /\ restricts \in Nat
      /\ mode.ignored \in BOOLEAN /\ cause \in BOOLEAN
  BY DEF ReportInv, Line
<1> DEFINE m == IF entry.n = 0 \/ current > entry.max THEN current ELSE entry.max
<1>2. m \in Nat /\ entry.n + 1 \in Nat /\ entry.sum + current \in Nat
  BY <1>1
<1>3. dbstat_add_to_table(current)
        = [n |-> entry.n + 1, sum |-> entry.sum + current, max |-> m,
           restricts |-> restricts, cause |-> cause, ignored |-> mode.ignored]
  BY DEF dbstat_add_to_table
<1> HIDE DEF m
<1> QED BY <1>1, <1>2, <1>3 DEF Line

\* A pass with the statistics on: its usage goes to the entry, and with it to a
\* file, or is left out for a reason.
LEMMA AddReport ==
  ASSUME ReportInv, NEW now \in Nat \ {0}, clock' = now, NEW current \in Nat,
         AddDbGovStatitrics(now, current), known \subseteq known', known' = {} => current = 0,
         consumed' = [consumed EXCEPT !.usage = @ + current], mode' = mode
  PROVE  ReportInv'
<1> DEFINE old == IF old_tm_stats = 0 THEN now ELSE old_tm_stats
           sampled == Elapsed(now, old) >= 1 /\ known' # {}
           e == IF sampled THEN dbstat_add_to_table(current) ELSE entry
           missed == IF sampled THEN 0 ELSE current
           unnoticed == e.ignored \/ (e.sum = 0 /\ ~e.cause)
           wrote == [usage |-> lost.usage + missed + (IF e.ignored THEN e.sum ELSE 0),
                     restricts |-> lost.restricts + (IF unnoticed THEN restricts ELSE 0)]
<1>1. FilesInv'
  BY AddStep DEF ReportInv
<1>2. \/ /\ Elapsed(now, old) >= Period
         /\ reports' = Append(reports, [name |-> now, line |-> dbstat_print_table(e)])
         /\ entry' = NoStat /\ restricts' = 0 /\ cause' = FALSE /\ lost' = wrote
      \/ /\ entry' = e /\ lost' = [lost EXCEPT !.usage = @ + missed]
         /\ UNCHANGED <<restricts, cause, reports>>
  BY DEF AddDbGovStatitrics
<1>3. /\ lost.usage \in Nat /\ lost.restricts \in Nat /\ consumed.usage \in Nat
      /\ consumed.restricts \in Nat /\ restricts \in Nat /\ entry \in Line /\ entry.sum \in Nat
      /\ lost \in Amount /\ consumed \in Amount
  BY DEF ReportInv, Amount, Line
<1>4. consumed' \in Amount /\ consumed'.usage = consumed.usage + current
      /\ consumed'.restricts = consumed.restricts
  BY <1>3 DEF Amount
<1>5. /\ e \in Line /\ missed \in Nat /\ e.sum \in Nat /\ e.restricts \in Nat
      /\ e.ignored \in BOOLEAN /\ e.sum + missed = entry.sum + current
  <2>1. e \in Line /\ missed \in Nat /\ e.sum + missed = entry.sum + current
    <3>1. CASE sampled
      <4>1. e = dbstat_add_to_table(current) /\ missed = 0
        BY <3>1
      <4> HIDE DEF e, missed
      <4> QED BY <1>3, <4>1, SampleOfEntry
    <3>2. CASE ~sampled
      <4>1. e = entry /\ missed = current
        BY <3>2
      <4> HIDE DEF e, missed
      <4> QED BY <1>3, <4>1
    <3> QED BY <3>1, <3>2
  <2> HIDE DEF e, missed
  <2> QED BY <2>1 DEF Line
<1>6. /\ UsageInFiles + entry.sum + lost.usage = consumed.usage
      /\ RestrictsInFiles + restricts + lost.restricts = consumed.restricts
      /\ UsageInFiles \in Int /\ RestrictsInFiles \in Int
  BY FilesSum DEF ReportInv, ReportedOnce, UsageInFiles, RestrictsInFiles
<1>7. known' = {} => known = {} /\ entry = NoStat /\ restricts = 0
  BY DEF ReportInv
<1>8. CASE /\ Elapsed(now, old) >= Period
           /\ reports' = Append(reports, [name |-> now, line |-> dbstat_print_table(e)])
           /\ entry' = NoStat /\ restricts' = 0 /\ cause' = FALSE /\ lost' = wrote
  <2>1. e.restricts = restricts
    <3>1. CASE known' = {}
      <4>1. e = entry
        BY <3>1
      <4> QED BY <1>7, <3>1, <4>1 DEF NoStat
    <3>2. CASE known' # {}
      <4>1. Elapsed(now, old) >= 1
        <5>1. old \in Nat /\ Period \in Nat \ {0}
          BY PeriodAssumption DEF ReportInv, FilesInv
        <5> HIDE DEF old
        <5> QED BY <1>8, <5>1 DEF Elapsed
      <4>2. e = dbstat_add_to_table(current)
        BY <3>2, <4>1
      <4> HIDE DEF e
      <4> QED BY <4>2, SampleOfEntry
    <3> QED BY <3>1, <3>2
  <2> DEFINE l == dbstat_print_table(e)
             r == [name |-> now, line |-> l]
             ignoredUse == IF e.ignored THEN e.sum ELSE 0
             droppedRestricts == IF unnoticed THEN restricts ELSE 0
  <2>2. ignoredUse \in Nat /\ droppedRestricts \in Nat
    <3> HIDE DEF e
    <3> QED BY <1>3, <1>5
  <2>3. l \in Line /\ l.sum + ignoredUse = e.sum /\ l.restricts + droppedRestricts = restricts
        /\ l.sum \in Nat /\ l.restricts \in Nat
    <3> HIDE DEF e
    <3>1. l \in Line /\ l.sum + ignoredUse = e.sum /\ l.restricts + droppedRestricts = restricts
      BY <1>5, <2>1, LineOfEntry
    <3> HIDE DEF l
    <3> QED BY <3>1 DEF Line
  <2>4. wrote = [usage |-> lost.usage + missed + ignoredUse,
                 restricts |-> lost.restricts + droppedRestricts]
    OBVIOUS
  <2> HIDE DEF e, missed, wrote, l, ignoredUse, droppedRestricts
  <2>5. lost' \in Amount /\ lost'.usage = lost.usage + missed + ignoredUse
        /\ lost'.restricts = lost.restricts + droppedRestricts
    <3> DEFINE x == lost.usage + missed + ignoredUse
               y == lost.restricts + droppedRestricts
    <3>1. x \in Nat /\ y \in Nat
      BY <1>3, <1>5, <2>2
    <3>2. lost' = [usage |-> x, restricts |-> y]
      BY <1>8, <2>4
    <3> HIDE DEF x, y
    <3>3. lost' \in Amount /\ lost'.usage = x /\ lost'.restricts = y
      BY <3>1, <3>2 DEF Amount
    <3> QED BY <3>3 DEF x, y
  <2>6. /\ UsageInFiles' = UsageInFiles + l.sum
        /\ RestrictsInFiles' = RestrictsInFiles + l.restricts
        /\ \A i \in DOMAIN reports' : reports'[i].line \in Line
    <3>1. r.line = l /\ reports' = Append(reports, r)
      BY <1>8 DEF l
    <3> HIDE DEF r
    <3> QED BY <2>3, <3>1, FilesGrow
  <2>7. /\ entry' \in Line /\ entry'.sum = 0 /\ restricts' = 0 /\ entry' = NoStat
        /\ cause' \in BOOLEAN
    BY <1>8 DEF NoStat, Line
  <2>8. /\ UsageInFiles' + entry'.sum + lost'.usage = consumed'.usage
        /\ RestrictsInFiles' + restricts' + lost'.restricts = consumed'.restricts
    <3>1. (UsageInFiles + l.sum) + 0 + (lost.usage + missed + ignoredUse) = consumed.usage + current
      <4>1. /\ l.sum \in Nat /\ ignoredUse \in Nat /\ missed \in Nat /\ entry.sum \in Nat
            /\ lost.usage \in Nat /\ e.sum \in Nat /\ l.sum + ignoredUse = e.sum
            /\ e.sum + missed = entry.sum + current
        BY <1>3, <1>5, <2>2, <2>3
      <4>2. UsageInFiles + entry.sum + lost.usage = consumed.usage /\ UsageInFiles \in Int
        BY <1>6
      <4> QED BY <4>1, <4>2
    <3>2. (RestrictsInFiles + l.restricts) + 0 + (lost.restricts + droppedRestricts)
            = consumed.restricts
      <4>1. /\ l.restricts \in Nat /\ droppedRestricts \in Nat /\ restricts \in Nat
            /\ lost.restricts \in Nat /\ l.restricts + droppedRestricts = restricts
        BY <1>3, <2>2, <2>3
      <4>2. /\ RestrictsInFiles + restricts + lost.restricts = consumed.restricts
            /\ RestrictsInFiles \in Int
        BY <1>6
      <4> QED BY <4>1, <4>2
    <3> QED BY <1>4, <2>5, <2>6, <2>7, <3>1, <3>2
  <2>9. ReportedOnce'
    BY <2>8 DEF ReportedOnce, UsageInFiles, RestrictsInFiles
  <2> QED BY <1>1, <1>4, <2>5, <2>6, <2>7, <2>9 DEF ReportInv
<1>9. CASE /\ entry' = e /\ lost' = [lost EXCEPT !.usage = @ + missed]
           /\ UNCHANGED <<restricts, cause, reports>>
  <2>1. known' = {} => entry' = NoStat /\ restricts' = 0
    <3> SUFFICES ASSUME known' = {} PROVE entry' = NoStat /\ restricts' = 0
      OBVIOUS
    <3>1. e = entry
      OBVIOUS
    <3> HIDE DEF e
    <3> QED BY <1>7, <1>9, <3>1
  <2> HIDE DEF e, missed
  <2>2. lost' \in Amount /\ lost'.usage = lost.usage + missed /\ lost'.restricts = lost.restricts
    BY <1>3, <1>5, <1>9 DEF Amount
  <2>3. UsageInFiles' = UsageInFiles /\ RestrictsInFiles' = RestrictsInFiles
    BY <1>9 DEF UsageInFiles, RestrictsInFiles
  <2>4. /\ UsageInFiles' + entry'.sum + lost'.usage = consumed'.usage
        /\ RestrictsInFiles' + restricts' + lost'.restricts = consumed'.restricts
    <3>1. UsageInFiles + e.sum + (lost.usage + missed) = consumed.usage + current
      <4>1. /\ missed \in Nat /\ entry.sum \in Nat /\ lost.usage \in Nat /\ e.sum \in Nat
            /\ e.sum + missed = entry.sum + current
        BY <1>3, <1>5
      <4>2. UsageInFiles + entry.sum + lost.usage = consumed.usage /\ UsageInFiles \in Int
        BY <1>6
      <4> QED BY <4>1, <4>2
    <3>2. RestrictsInFiles + restricts + lost.restricts = consumed.restricts
      BY <1>6
    <3>3. entry' = e /\ restricts' = restricts
      BY <1>9
    <3> QED BY <1>4, <2>2, <2>3, <3>1, <3>2, <3>3
  <2>5. ReportedOnce'
    BY <2>4 DEF ReportedOnce, UsageInFiles, RestrictsInFiles
  <2>6. entry' \in Line /\ restricts' \in Nat /\ cause' \in BOOLEAN /\ \A i \in DOMAIN reports' : reports'[i].line \in Line
    BY <1>3, <1>5, <1>9 DEF ReportInv
  <2>7. mode' \in [statistic : BOOLEAN, ignored : BOOLEAN]
    BY DEF ReportInv
  <2> QED BY <1>1, <1>4, <2>1, <2>2, <2>5, <2>6, <2>7 DEF ReportInv
<1> QED BY <1>2, <1>8, <1>9

\* A step that adds an amount of usage or restrictions to consumed and to lost,
\* or to nothing.
LEMMA ReportFrame ==
  ASSUME ReportInv, FilesInv', reports' = reports, known \subseteq known',
         mode' \in [statistic : BOOLEAN, ignored : BOOLEAN],
         NEW x \in Nat, NEW y \in Nat,
         consumed' = [usage |-> consumed.usage + x, restricts |-> consumed.restricts + y],
         lost' = [usage |-> lost.usage + x, restricts |-> lost.restricts],
         restricts' = restricts + y, cause' \in BOOLEAN, entry' = entry, known = {} => y = 0
  PROVE  ReportInv'
<1>1. /\ lost.usage \in Nat /\ lost.restricts \in Nat /\ consumed.usage \in Nat
      /\ consumed.restricts \in Nat /\ restricts \in Nat /\ entry \in Line /\ entry.sum \in Nat
  BY DEF ReportInv, Amount, Line
<1>2. /\ UsageInFiles + entry.sum + lost.usage = consumed.usage
      /\ RestrictsInFiles + restricts + lost.restricts = consumed.restricts
      /\ UsageInFiles \in Int /\ RestrictsInFiles \in Int
  BY FilesSum DEF ReportInv, ReportedOnce, UsageInFiles, RestrictsInFiles
<1>3. UsageInFiles' = UsageInFiles /\ RestrictsInFiles' = RestrictsInFiles
  BY DEF UsageInFiles, RestrictsInFiles
<1>4. /\ UsageInFiles' + entry'.sum + lost'.usage = consumed'.usage
      /\ RestrictsInFiles' + restricts' + lost'.restricts = consumed'.restricts
  BY <1>1, <1>2, <1>3
<1>5. ReportedOnce'
  BY <1>4 DEF ReportedOnce, UsageInFiles, RestrictsInFiles
<1>6. consumed' \in Amount /\ lost' \in Amount /\ restricts' \in Nat
  BY <1>1 DEF Amount
<1>7. known' = {} => entry' = NoStat /\ restricts' = 0
  <2> SUFFICES ASSUME known' = {} PROVE entry' = NoStat /\ restricts' = 0
    OBVIOUS
  <2>1. known = {} /\ y = 0 /\ entry = NoStat /\ restricts = 0
    BY DEF ReportInv
  <2> QED BY <2>1
<1>8. \A i \in DOMAIN reports' : reports'[i].line \in Line
  BY DEF ReportInv
<1> QED BY <1>1, <1>5, <1>6, <1>7, <1>8 DEF ReportInv

\* Usage and restrictions are counted once by every step.
LEMMA ReportStep ==
  BufferInv /\ ReportInv /\ [StatNext]_<<userVars, statVars>> => ReportInv'
<1> SUFFICES ASSUME BufferInv, ReportInv, [StatNext]_<<userVars, statVars>> PROVE ReportInv'
  OBVIOUS
<1>0. FilesInv'
  BY FilesStep DEF ReportInv
<1>a. /\ consumed = [usage |-> consumed.usage + 0, restricts |-> consumed.restricts + 0]
      /\ lost = [usage |-> lost.usage + 0, restricts |-> lost.restricts]
      /\ restricts = restricts + 0 /\ cause \in BOOLEAN
      /\ mode \in [statistic : BOOLEAN, ignored : BOOLEAN]
  BY DEF ReportInv, Amount
<1>1. CASE StatPass
  <2> DEFINE current == IF known' = {} THEN 0 ELSE ac'.current
  <2>1. current \in Nat
    BY <1>1, CurrentType DEF StatPass
  <2>2. known \subseteq known'
    BY <1>1 DEF StatPass, Pass, proceed_accounts
  <2>3. /\ consumed' = [consumed EXCEPT !.usage = @ + current] /\ mode' = mode
        /\ \/ mode.statistic /\ AddDbGovStatitrics(clock', current)
           \/ /\ lost' = [lost EXCEPT !.usage = @ + current]
              /\ UNCHANGED <<old_tm_stats, entry, restricts, cause, reports>>
    BY <1>1 DEF StatPass
  <2>4. known' = {} => current = 0
    OBVIOUS
  <2>5. clock' \in Nat \ {0}
    BY <1>0 DEF FilesInv
  <2> HIDE DEF current
  <2>6. CASE AddDbGovStatitrics(clock', current)
    BY <2>1, <2>2, <2>3, <2>4, <2>5, <2>6, AddReport
  <2>7. CASE /\ lost' = [lost EXCEPT !.usage = @ + current]
             /\ UNCHANGED <<old_tm_stats, entry, restricts, cause, reports>>
    <3>1. /\ consumed' = [usage |-> consumed.usage + current, restricts |-> consumed.restricts + 0]
          /\ lost' = [usage |-> lost.usage + current, restricts |-> lost.restricts]
      BY <2>3, <2>7 DEF ReportInv, Amount
    <3>2. restricts' = restricts + 0 /\ cause' \in BOOLEAN /\ entry' = entry /\ reports' = reports
      BY <1>a, <2>7
    <3>3. mode' \in [statistic : BOOLEAN, ignored : BOOLEAN]
      BY <1>a, <2>3
    <3> QED BY <1>0, <2>1, <2>2, <3>1, <3>2, <3>3, ReportFrame
  <2> QED BY <2>3, <2>6, <2>7
<1>2. ASSUME NEW reason \in Reasons, IncNumberOfRestricts(reason) PROVE ReportInv'
  <2>1. /\ known # {} /\ restricts' = restricts + 1 /\ known' = known
        /\ consumed' = [consumed EXCEPT !.restricts = @ + 1]
        /\ mode' = mode /\ entry' = entry /\ reports' = reports /\ lost' = lost
        /\ cause' = (cause \/ get_cause_of_restrict(reason))
    BY <1>2 DEF IncNumberOfRestricts, userVars
  <2>2. consumed' = [usage |-> consumed.usage + 0, restricts |-> consumed.restricts + 1]
    BY <2>1 DEF ReportInv, Amount
  <2>3. /\ lost' = [usage |-> lost.usage + 0, restricts |-> lost.restricts]
        /\ mode' \in [statistic : BOOLEAN, ignored : BOOLEAN]
    BY <1>a, <2>1
  <2>4. cause' \in BOOLEAN
    BY <2>1, Zenon
  <2> QED BY <1>0, <2>1, <2>2, <2>3, <2>4, ReportFrame
<1>3. ASSUME UNCHANGED <<entry, restricts, cause, reports, consumed, lost>>, known \subseteq known',
             mode' \in [statistic : BOOLEAN, ignored : BOOLEAN]
      PROVE  ReportInv'
  <2>1. /\ consumed' = [usage |-> consumed.usage + 0, restricts |-> consumed.restricts + 0]
        /\ lost' = [usage |-> lost.usage + 0, restricts |-> lost.restricts]
        /\ restricts' = restricts + 0 /\ cause' \in BOOLEAN /\ entry' = entry /\ reports' = reports
    BY <1>a, <1>3
  <2> QED BY <1>0, <1>3, <2>1, ReportFrame
<1>4. CASE StatReread
  BY <1>3, <1>4 DEF StatReread, RereadConfig
<1>5. CASE ClockSetBack
  BY <1>a, <1>3, <1>5 DEF ClockSetBack, userVars
<1>6. ASSUME NEW u \in Members, add_user_stats(u), UNCHANGED statVars PROVE ReportInv'
  BY <1>a, <1>3, <1>6 DEF add_user_stats, statVars
<1>7. CASE UNCHANGED <<userVars, statVars>>
  BY <1>a, <1>3, <1>7 DEF userVars, statVars
<1> QED BY <1>1, <1>2, <1>4, <1>5, <1>6, <1>7 DEF StatNext

\* All usage and all restrictions of an account are in one file, or in the entry
\* that the next file is written from, or are left out for one of the reasons
\* that lost counts (AddDbGovStatitrics, dbstat_print_table; one of them is that
\* a restriction for an average, whose cause is 0, is all there was of the
\* account): for any number of users and files, any period, whichever writes fail and whatever the clock and
\* the configuration do.
THEOREM ReportedOnceHolds == StatSpec => []ReportedOnce
<1>1. StatInit => ReportInv
  <2> SUFFICES ASSUME StatInit PROVE ReportInv
    OBVIOUS
  <2>1. /\ reports = <<>> /\ entry = NoStat /\ restricts = 0 /\ consumed = Nothing
        /\ lost = Nothing /\ cause = FALSE /\ mode = [statistic |-> TRUE, ignored |-> FALSE]
    BY DEF StatInit
  <2>2. DOMAIN reports = {}
    BY <2>1, EmptySeq
  <2>3. FilesInv
    BY FilesInitOK
  <2>4. ReportedOnce
    <3>1. /\ SumFunction([i \in DOMAIN reports |-> reports[i].line.sum]) = 0
          /\ SumFunction([i \in DOMAIN reports |-> reports[i].line.restricts]) = 0
      BY <2>2, SumEmpty DEF SumFunction
    <3> QED BY <2>1, <3>1 DEF ReportedOnce, NoStat, Nothing
  <2> QED BY <2>1, <2>2, <2>3, <2>4 DEF ReportInv, NoStat, Nothing, Line, Amount
<1>2. ReportInv => ReportedOnce
  BY DEF ReportInv
<1>3. BufferInv /\ ReportInv /\ [StatNext]_<<userVars, statVars>> => (BufferInv /\ ReportInv)'
  BY BufferStep, ReportStep
<1> QED BY <1>1, <1>2, <1>3, BufferInitOK, PTL DEF StatSpec
=============================================================================
