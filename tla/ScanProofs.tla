----------------------------- MODULE ScanProofs -----------------------------
(***************************************************************************)
(* Proofs about Scan, for every plane, every rule and every sequence of    *)
(* instructions.                                                           *)
(***************************************************************************)
EXTENDS Scan, FiniteSetTheorems, WellFoundedInduction, TLAPS

(* Induction over the naturals, for a set: they are well founded.          *)
LEMMA Inductive ==
  ASSUME NEW T, 0 \in T, \A n \in Nat : n \in T => n + 1 \in T
  PROVE  Nat \subseteq T
<1> DEFINE R == OpToRel(<, Nat)
           U == Nat \ T
<1>1. SUFFICES ASSUME U # {} PROVE FALSE
  OBVIOUS
<1>2. PICK m \in U : \A k \in U : ~ (<<k, m>> \in R)
  <2>1. IsWellFoundedOn(R, Nat)
    BY NatLessThanWellFounded
  <2>2. U \subseteq Nat
    OBVIOUS
  <2> HIDE DEF R, U
  <2> QED
    BY <1>1, <2>1, <2>2, WFMin
<1>3. m \in Nat /\ m # 0 /\ m - 1 \in Nat
  OBVIOUS
<1>4. <<m - 1, m>> \in R
  <2>1. m - 1 < m
    BY <1>3
  <2> QED
    BY <1>3, <2>1, ZenonT(30) DEF OpToRel
<1>5. m - 1 \in T
  BY <1>2, <1>3, <1>4
<1> QED
  BY <1>3, <1>5

(* A power of two counts the subsets of an interval, which double.         *)
LEMMA PowDouble == ASSUME NEW n \in Nat PROVE 2^(n + 1) = 2 * 2^n
<1> DEFINE A == SUBSET (1 .. n)
           B == {s \cup {n + 1} : s \in A}
           f == [s \in A |-> s \cup {n + 1}]
<1>1. IsFiniteSet(1 .. n) /\ Cardinality(1 .. n) = n
  BY FS_Interval
<1>2. IsFiniteSet(1 .. n + 1) /\ Cardinality(1 .. n + 1) = n + 1
  BY FS_Interval
<1>3. IsFiniteSet(A) /\ Cardinality(A) = 2^n
  BY <1>1, FS_SUBSET
<1>4. Cardinality(SUBSET (1 .. n + 1)) = 2^(n + 1)
  BY <1>2, FS_SUBSET
<1>5. SUBSET (1 .. n + 1) = A \cup B
  <2>1. ASSUME NEW s \in SUBSET (1 .. n + 1) PROVE s \in A \cup B
    <3>1. CASE n + 1 \in s
      <4>1. s \ {n + 1} \in A /\ s = (s \ {n + 1}) \cup {n + 1}
        BY <3>1
      <4> QED
        BY <4>1
    <3>2. CASE n + 1 \notin s
      BY <3>2
    <3> QED
      BY <3>1, <3>2
  <2>2. A \subseteq SUBSET (1 .. n + 1)
    <3>1. 1 .. n \subseteq 1 .. n + 1
      OBVIOUS
    <3> QED
      BY <3>1
  <2>3. B \subseteq SUBSET (1 .. n + 1)
    <3>1. ASSUME NEW s \in A PROVE s \cup {n + 1} \in SUBSET (1 .. n + 1)
      <4>1. n + 1 \in 1 .. n + 1
        OBVIOUS
      <4> QED
        BY <2>2, <4>1
    <3> QED
      BY <3>1
  <2> HIDE DEF A, B
  <2> QED
    BY <2>1, <2>2, <2>3
<1>6. A \cap B = {}
  OBVIOUS
<1>7. f \in Bijection(A, B)
  <2>1. f \in [A -> B] /\ \A t \in B : \E s \in A : f[s] = t
    OBVIOUS
  <2>2. ASSUME NEW s \in A, NEW t \in A, f[s] = f[t] PROVE s = t
    BY <2>2
  <2> QED
    BY <2>1, <2>2 DEF Bijection, Injection, Surjection, IsInjective
<1> HIDE DEF A, B
<1>8. IsFiniteSet(B) /\ Cardinality(B) = Cardinality(A)
  <2>1. ExistsBijection(A, B)
    BY <1>7 DEF ExistsBijection
  <2> QED
    BY <1>3, <2>1, FS_Bijection
<1>9. Cardinality(A \cup B) = Cardinality(A) + Cardinality(B) - Cardinality(A \cap B)
  BY <1>3, <1>8, FS_Union
<1>10. Cardinality(A \cap B) = 0 /\ Cardinality(A) \in Nat
  BY <1>3, <1>6, FS_CardinalityType, FS_EmptySet
<1>11. Cardinality(A \cup B) = 2 * Cardinality(A)
  BY <1>8, <1>9, <1>10
<1> QED
  BY <1>3, <1>4, <1>5, <1>11, Zenon

(* Powers of two are positive numbers.                                     *)
LEMMA PowType == \A n \in Nat : 2^n \in Nat \ {0}
<1> DEFINE T == {n \in Nat : 2^n \in Nat \ {0}}
<1>1. 0 \in T
  OBVIOUS
<1>2. \A n \in Nat : n \in T => n + 1 \in T
  BY PowDouble
<1> HIDE DEF T
<1>3. Nat \subseteq T
  BY <1>1, <1>2, Inductive
<1> QED
  BY <1>3 DEF T

(* Induction over the subsets of a finite set, the smaller ones first.     *)
LEMMA InductiveSubsets ==
  ASSUME NEW S, IsFiniteSet(S), NEW T,
         \A s \in SUBSET S : (\A r \in SUBSET s : r # s => r \in T) => s \in T
  PROVE  SUBSET S \subseteq T
<1> DEFINE R == StrictSubsetOrdering(S)
           U == (SUBSET S) \ T
<1>1. SUFFICES ASSUME U # {} PROVE FALSE
  OBVIOUS
<1>2. U \subseteq FiniteSubsetsOf(S)
  <2>1. \A s \in SUBSET S : IsFiniteSet(s)
    BY FS_Subset
  <2> QED
    BY <2>1 DEF FiniteSubsetsOf
<1>3. PICK m \in U : \A k \in U : ~ (<<k, m>> \in R)
  <2>1. IsWellFoundedOn(R, FiniteSubsetsOf(S))
    BY FS_StrictSubsetOrderingWellFounded
  <2> HIDE DEF R, U
  <2> QED
    BY <1>1, <1>2, <2>1, WFMin
<1>4. ASSUME NEW r \in SUBSET m, r # m PROVE r \in T
  <2>1. <<r, m>> \in R
    BY <1>4 DEF StrictSubsetOrdering
  <2> QED
    BY <1>3, <2>1
<1> QED
  BY <1>3, <1>4

(* The function that MapThenSumSet recurses with, on the subsets of S.     *)
Chosen(s) == CHOOSE x \in s : TRUE
Sums(S, f) == f = [s \in SUBSET S |-> IF s = {} THEN 0 ELSE 2^Chosen(s) + f[s \ {Chosen(s)}]]

(* Num is what that recursion yields for the whole set.                    *)
LEMMA NumDef == ASSUME NEW S PROVE Num(S) = (CHOOSE f : Sums(S, f))[S]
BY DEF Num, MapThenSumSet, MapThenFoldSet, Sums, Chosen

(* Every finite set of positions has such a function,                      *)
LEMMA SumsExist ==
  ASSUME NEW S \in SUBSET Nat, IsFiniteSet(S)
  PROVE  \E f \in [SUBSET S -> Nat] : Sums(S, f)
<1> DEFINE Upto(n) == {s \in SUBSET S : Cardinality(s) <= n}
           Step(f, s) == IF s = {} THEN 0 ELSE 2^Chosen(s) + f[s \ {Chosen(s)}]
           T == {n \in Nat : \E f \in [Upto(n) -> Nat] : \A s \in Upto(n) : f[s] = Step(f, s)}
<1>1. \A s \in SUBSET S : IsFiniteSet(s) /\ Cardinality(s) \in Nat /\ Cardinality(s) <= Cardinality(S)
  BY FS_Subset, FS_CardinalityType
<1>2. \A s \in SUBSET S : s # {} => Chosen(s) \in s /\ Cardinality(s \ {Chosen(s)}) = Cardinality(s) - 1
  <2> TAKE s \in SUBSET S
  <2> HAVE s # {}
  <2>1. Chosen(s) \in s
    BY DEF Chosen
  <2> QED
    BY <1>1, <2>1, FS_RemoveElement
<1>3. 0 \in T
  <2> DEFINE f == [s \in Upto(0) |-> 0]
  <2>1. \A s \in Upto(0) : s = {}
    BY <1>1, FS_EmptySet
  <2>2. f \in [Upto(0) -> Nat] /\ \A s \in Upto(0) : f[s] = Step(f, s)
    BY <2>1
  <2> QED
    BY <2>2
<1>4. \A n \in Nat : n \in T => n + 1 \in T
  <2> TAKE n \in Nat
  <2> HAVE n \in T
  <2>1. PICK f \in [Upto(n) -> Nat] : \A s \in Upto(n) : f[s] = Step(f, s)
    OBVIOUS
  <2> DEFINE g == [s \in Upto(n + 1) |-> Step(f, s)]
  <2>2. ASSUME NEW s \in Upto(n + 1), s # {}
        PROVE  s \ {Chosen(s)} \in Upto(n) /\ Chosen(s) \in Nat
    <3>1. Cardinality(s) \in Nat /\ Cardinality(s) <= n + 1 /\ Chosen(s) \in s
      BY <1>1, <1>2, <2>2
    <3>2. Cardinality(s \ {Chosen(s)}) <= n
      BY <1>2, <2>2, <3>1
    <3> QED
      BY <3>1, <3>2
  <2>3. g \in [Upto(n + 1) -> Nat]
    <3>1. ASSUME NEW s \in Upto(n + 1) PROVE Step(f, s) \in Nat
      <4>1. CASE s = {}
        BY <4>1
      <4>2. CASE s # {}
        <5>1. f[s \ {Chosen(s)}] \in Nat /\ 2^Chosen(s) \in Nat
          BY <2>2, <4>2, PowType
        <5> QED
          BY <4>2, <5>1
      <4> QED
        BY <4>1, <4>2
    <3> HIDE DEF Upto, Step
    <3> QED
      BY <3>1
  <2>4. ASSUME NEW s \in Upto(n + 1) PROVE g[s] = Step(g, s)
    <3>1. \A r \in Upto(n) : g[r] = f[r]
      <4>1. Upto(n) \subseteq Upto(n + 1)
        BY <1>1
      <4> HIDE DEF Upto, Step
      <4> QED
        BY <2>1, <4>1
    <3>2. CASE s = {}
      BY <3>2
    <3>3. CASE s # {}
      BY <2>2, <3>1, <3>3
    <3> QED
      BY <3>2, <3>3
  <2> HIDE DEF g, Upto, Step
  <2> QED
    BY <2>3, <2>4
<1>5. Nat \subseteq T
  <2> HIDE DEF T
  <2> QED
    BY <1>3, <1>4, Inductive
<1>6. Cardinality(S) \in Nat /\ Upto(Cardinality(S)) = SUBSET S
  BY <1>1
<1>7. PICK f \in [SUBSET S -> Nat] : \A s \in SUBSET S : f[s] = Step(f, s)
  <2> HIDE DEF Upto, Step
  <2> QED
    BY <1>5, <1>6
<1>8. Sums(S, f)
  BY <1>7 DEF Sums
<1> QED
  BY <1>8

(* and any two agree on the subsets both are defined for.                  *)
LEMMA SumsAgree ==
  ASSUME NEW S, IsFiniteSet(S), NEW R \in SUBSET S,
         NEW f, Sums(S, f), NEW g, Sums(R, g)
  PROVE  \A s \in SUBSET R : f[s] = g[s]
<1> DEFINE T == {s \in SUBSET R : f[s] = g[s]}
<1>1. ASSUME NEW s \in SUBSET R, \A r \in SUBSET s : r # s => r \in T PROVE s \in T
  <2>0. s \in SUBSET S
    OBVIOUS
  <2>1. /\ f[s] = IF s = {} THEN 0 ELSE 2^Chosen(s) + f[s \ {Chosen(s)}]
        /\ g[s] = IF s = {} THEN 0 ELSE 2^Chosen(s) + g[s \ {Chosen(s)}]
    BY <2>0 DEF Sums
  <2>2. CASE s = {}
    BY <2>1, <2>2
  <2>3. CASE s # {}
    <3>1. s \ {Chosen(s)} \in SUBSET s /\ s \ {Chosen(s)} # s
      BY <2>3 DEF Chosen
    <3>2. f[s \ {Chosen(s)}] = g[s \ {Chosen(s)}]
      BY <1>1, <3>1
    <3> QED
      BY <2>1, <3>2
  <2> QED
    BY <2>2, <2>3
<1>2. IsFiniteSet(R)
  BY FS_Subset
<1> HIDE DEF T
<1>3. SUBSET R \subseteq T
  BY <1>1, <1>2, InductiveSubsets
<1> QED
  BY <1>3 DEF T

(* A register without ones is 0.                                           *)
LEMMA NumEmpty == Num({}) = 0
<1> DEFINE f == CHOOSE f : Sums({}, f)
<1>1. Sums({}, f)
  BY SumsExist, FS_EmptySet
<1>2. Num({}) = f[{}]
  BY NumDef
<1> HIDE DEF f
<1> QED
  BY <1>1, <1>2 DEF Sums

(* Num is a value of a function that satisfies the recursion.              *)
LEMMA NumSums ==
  ASSUME NEW S \in SUBSET Nat, IsFiniteSet(S)
  PROVE  \E f : Sums(S, f) /\ Num(S) = f[S]
<1>1. \E f : Sums(S, f)
  BY SumsExist
<1>2. Sums(S, CHOOSE f : Sums(S, f))
  BY <1>1
<1> QED
  BY <1>2, NumDef

(* A register is a number; it takes one of its bits off first,             *)
LEMMA NumChosen ==
  ASSUME NEW S \in SUBSET Nat, IsFiniteSet(S)
  PROVE  /\ Num(S) \in Nat
         /\ S # {} => Chosen(S) \in S /\ Num(S) = 2^Chosen(S) + Num(S \ {Chosen(S)})
<1>0. PICK h : h \in [SUBSET S -> Nat] /\ Sums(S, h)
  BY SumsExist
<1>1. Sums(S, h)
  BY <1>0
<1>2. \A R \in SUBSET S : Num(R) = h[R]
  <2> TAKE R \in SUBSET S
  <2>1. R \in SUBSET Nat /\ IsFiniteSet(R) /\ R \in SUBSET R
    BY FS_Subset
  <2>2. PICK g : Sums(R, g) /\ Num(R) = g[R]
    BY <2>1, NumSums
  <2>3. h[R] = g[R]
    BY <1>1, <2>1, <2>2, SumsAgree
  <2> QED
    BY <2>2, <2>3
<1>3. S # {} => Chosen(S) \in S /\ h[S] = 2^Chosen(S) + h[S \ {Chosen(S)}]
  BY <1>1 DEF Sums, Chosen
<1>4. S \in SUBSET S /\ S \ {Chosen(S)} \in SUBSET S
  OBVIOUS
<1> QED
  BY <1>0, <1>2, <1>3, <1>4

(* and might as well have taken off any other.                             *)
LEMMA NumRemove ==
  ASSUME NEW S \in SUBSET Nat, IsFiniteSet(S)
  PROVE  \A x \in S : Num(S) = 2^x + Num(S \ {x})
<1> DEFINE T == {s \in SUBSET S : \A x \in s : Num(s) = 2^x + Num(s \ {x})}
<1>1. ASSUME NEW s \in SUBSET S, \A r \in SUBSET s : r # s => r \in T PROVE s \in T
  <2>1. SUFFICES ASSUME NEW x \in s PROVE Num(s) = 2^x + Num(s \ {x})
    OBVIOUS
  <2> DEFINE c == Chosen(s)
  <2>2. IsFiniteSet(s) /\ s \in SUBSET Nat
    BY FS_Subset
  <2>3. c \in s /\ Num(s) = 2^c + Num(s \ {c})
    BY <2>1, <2>2, NumChosen
  <2>4. CASE c = x
    BY <2>3, <2>4
  <2>5. CASE c # x
    <3>1. s \ {x} \in T /\ s \ {c} \in T
      BY <1>1, <2>3
    <3>2. Num(s \ {x}) = 2^c + Num((s \ {x}) \ {c}) /\ Num(s \ {c}) = 2^x + Num((s \ {c}) \ {x})
      BY <2>3, <2>5, <3>1
    <3>3. (s \ {x}) \ {c} = (s \ {c}) \ {x}
      OBVIOUS
    <3>4. /\ IsFiniteSet((s \ {c}) \ {x}) /\ (s \ {c}) \ {x} \in SUBSET Nat
          /\ c \in Nat /\ x \in Nat
      BY <2>2, <2>3, FS_Subset
    <3>5. Num((s \ {c}) \ {x}) \in Nat /\ 2^c \in Nat /\ 2^x \in Nat
      BY <3>4, NumChosen, PowType
    <3> HIDE DEF c, T
    <3> QED
      BY <2>3, <3>2, <3>3, <3>5
  <2> QED
    BY <2>4, <2>5
<1> HIDE DEF T
<1>2. SUBSET S \subseteq T
  BY <1>1, InductiveSubsets
<1> QED
  BY <1>2 DEF T

(* What the proofs about words and fields need of a power of two.          *)
LEMMA PowPositive == ASSUME NEW n \in Nat PROVE 2^n \in Nat /\ 2^n >= 1 /\ 2^(n + 1) = 2 * 2^n
BY PowType, PowDouble

(* A power of two divides every higher one.                                *)
LEMMA PowSplit ==
  ASSUME NEW m \in Nat, NEW n \in Nat, m <= n
  PROVE  \E e \in Nat \ {0} : 2^n = 2^m * e
<1> DEFINE P(k) == \E e \in Nat \ {0} : 2^(m + k) = 2^m * e
           T == {k \in Nat : P(k)}
<1>1. 0 \in T
  <2>1. 2^m = 2^m * 1
    BY PowPositive
  <2> QED
    BY <2>1
<1>2. \A k \in Nat : k \in T => k + 1 \in T
  <2> TAKE k \in Nat
  <2> HAVE k \in T
  <2>1. PICK e \in Nat \ {0} : 2^(m + k) = 2^m * e
    OBVIOUS
  <2> DEFINE p == 2^m
             q == 2^(m + k)
  <2>2. p \in Nat /\ q = p * e
    BY <2>1, PowPositive
  <2>3. m + (k + 1) = (m + k) + 1 /\ m + k \in Nat
    OBVIOUS
  <2>4. 2^(m + (k + 1)) = 2 * q
    BY <2>3, PowPositive
  <2> HIDE DEF p, q
  <2>5. 2 * q = p * (2 * e)
    BY <2>2
  <2>6. 2^(m + (k + 1)) = 2^m * (2 * e) /\ 2 * e \in Nat \ {0}
    BY <2>4, <2>5 DEF p
  <2>7. P(k + 1)
    BY <2>6
  <2> HIDE DEF P
  <2> QED
    BY <2>7
<1> HIDE DEF T
<1>3. n - m \in T
  BY <1>1, <1>2, Inductive
<1>4. m + (n - m) = n
  OBVIOUS
<1> QED
  BY <1>3, <1>4 DEF T

(* Powers of two grow.                                                     *)
LEMMA PowMonotone ==
  ASSUME NEW m \in Nat, NEW n \in Nat, m <= n
  PROVE  2^m <= 2^n
<1>1. PICK e \in Nat \ {0} : 2^n = 2^m * e
  BY PowSplit
<1> DEFINE p == 2^m
           q == 2^n
<1>2. p \in Nat /\ q = p * e
  BY <1>1, PowPositive
<1> HIDE DEF p, q
<1>3. p <= q
  BY <1>2
<1> QED
  BY <1>3 DEF p, q

(* Registers without a bit in common add up.                               *)
LEMMA NumUnion ==
  ASSUME NEW A \in SUBSET Nat, IsFiniteSet(A), NEW B \in SUBSET Nat, IsFiniteSet(B), A \cap B = {}
  PROVE  Num(A \cup B) = Num(A) + Num(B)
<1> DEFINE T == {s \in SUBSET B : Num(A \cup s) = Num(A) + Num(s)}
<1>1. ASSUME NEW s \in SUBSET B, \A r \in SUBSET s : r # s => r \in T PROVE s \in T
  <2>1. IsFiniteSet(s) /\ s \in SUBSET Nat /\ IsFiniteSet(A \cup s)
    BY FS_Subset, FS_Union
  <2>2. CASE s = {}
    <3>1. Num(A) \in Nat
      BY NumChosen
    <3>2. A \cup s = A /\ Num(s) = 0
      BY <2>2, NumEmpty
    <3> QED
      BY <3>1, <3>2
  <2>3. CASE s # {}
    <3>1. PICK x \in s : TRUE
      BY <2>3
    <3>2. s \ {x} \in T
      BY <1>1, <3>1
    <3>3. (A \cup s) \ {x} = A \cup (s \ {x})
      OBVIOUS
    <3>4. Num(s) = 2^x + Num(s \ {x})
      BY <2>1, NumRemove
    <3>5. Num(A \cup s) = 2^x + Num(A \cup (s \ {x}))
      BY <2>1, <3>3, NumRemove
    <3>6. IsFiniteSet(s \ {x}) /\ s \ {x} \in SUBSET Nat /\ x \in Nat
      BY <2>1, FS_Subset
    <3>7. Num(s \ {x}) \in Nat /\ Num(A) \in Nat /\ 2^x \in Nat
      BY <3>6, NumChosen, PowType
    <3> QED
      BY <3>2, <3>4, <3>5, <3>7
  <2> QED
    BY <2>2, <2>3
<1> HIDE DEF T
<1>2. SUBSET B \subseteq T
  BY <1>1, InductiveSubsets
<1> QED
  BY <1>2 DEF T

(* Fields and registers are finite.                                        *)
LEMMA IntervalFinite ==
  ASSUME NEW m \in Int, NEW n \in Int, NEW S \in SUBSET (m .. n)
  PROVE  IsFiniteSet(S)
BY FS_Interval, FS_Subset

(* j bits hold a number below 2^j.                                         *)
LEMMA NumBound ==
  ASSUME NEW j \in Nat, NEW S \in SUBSET (0 .. j - 1)
  PROVE  Num(S) \in 0 .. 2^j - 1
<1> DEFINE P(k) == \A s \in SUBSET (0 .. k - 1) : Num(s) \in 0 .. 2^k - 1
           T == {k \in Nat : P(k)}
<1>1. 0 \in T
  <2>1. \A s \in SUBSET (0 .. 0 - 1) : s = {}
    OBVIOUS
  <2>2. 2^0 = 1
    OBVIOUS
  <2>3. Num({}) \in 0 .. 2^0 - 1
    BY <2>2, NumEmpty
  <2>4. P(0)
    BY <2>1, <2>3
  <2> HIDE DEF P
  <2> QED
    BY <2>4
<1>2. \A k \in Nat : k \in T => k + 1 \in T
  <2> TAKE k \in Nat
  <2> HAVE k \in T
  <2> SUFFICES ASSUME NEW s \in SUBSET (0 .. (k + 1) - 1) PROVE Num(s) \in 0 .. 2^(k + 1) - 1
    OBVIOUS
  <2>0. IsFiniteSet(s)
    <3>1. (k + 1) - 1 \in Int /\ 0 \in Int
      OBVIOUS
    <3> HIDE DEF T
    <3> QED
      BY <3>1, IntervalFinite
  <2>1. s \ {k} \in SUBSET (0 .. k - 1) /\ s \in SUBSET Nat /\ IsFiniteSet(s)
    BY <2>0
  <2>2. Num(s \ {k}) \in 0 .. 2^k - 1
    BY <2>1
  <2>3. k \in s => Num(s) = 2^k + Num(s \ {k})
    BY <2>1, NumRemove
  <2>4. k \notin s => s \ {k} = s
    OBVIOUS
  <2> HIDE DEF T
  <2> QED
    BY <2>2, <2>3, <2>4, PowPositive
<1> HIDE DEF T
<1> QED
  BY <1>1, <1>2, Inductive DEF T

(* A number without its low bits is a multiple.                            *)
LEMMA NumHigh ==
  ASSUME NEW j \in Nat, NEW S \in SUBSET Nat, IsFiniteSet(S), \A b \in S : j <= b
  PROVE  \E k \in Nat : Num(S) = 2^j * k
<1> DEFINE T == {s \in SUBSET S : \E k \in Nat : Num(s) = 2^j * k}
<1>1. ASSUME NEW s \in SUBSET S, \A r \in SUBSET s : r # s => r \in T PROVE s \in T
  <2>1. IsFiniteSet(s) /\ s \in SUBSET Nat
    BY FS_Subset
  <2>2. CASE s = {}
    <3>1. 0 = 2^j * 0
      BY PowType
    <3> QED
      BY <2>2, <3>1, NumEmpty
  <2>3. CASE s # {}
    <3>1. PICK x \in s : TRUE
      BY <2>3
    <3>2. Num(s) = 2^x + Num(s \ {x})
      BY <2>1, NumRemove
    <3>3. PICK k \in Nat : Num(s \ {x}) = 2^j * k
      BY <1>1, <3>1
    <3>4. PICK e \in Nat \ {0} : 2^x = 2^j * e
      BY PowSplit
    <3> DEFINE p == 2^j
    <3>5. p \in Nat /\ Num(s) = p * e + p * k
      BY <3>2, <3>3, <3>4, PowType
    <3> HIDE DEF p
    <3>6. p * e + p * k = p * (e + k)
      BY <3>5
    <3>7. Num(s) = 2^j * (e + k) /\ e + k \in Nat
      BY <3>5, <3>6 DEF p
    <3> QED
      BY <3>7
  <2> QED
    BY <2>2, <2>3
<1> HIDE DEF T
<1>2. SUBSET S \subseteq T
  BY <1>1, InductiveSubsets
<1> QED
  BY <1>2 DEF T

(* Quotient and remainder are the only ones there are.                     *)
LEMMA DivUnique ==
  ASSUME NEW n \in Int, NEW d \in Nat \ {0}, NEW q \in Int, NEW r \in 0 .. d - 1, n = d * q + r
  PROVE  n \div d = q /\ n % d = r
OBVIOUS

(* Quotient and remainder.                                                 *)
LEMMA DivMod ==
  ASSUME NEW n \in Int, NEW d \in Nat \ {0}
  PROVE  n \div d \in Int /\ n % d \in 0 .. d - 1 /\ n = d * (n \div d) + (n % d)
OBVIOUS

(* The bit of n at position b.                                             *)
BitAt(n, b) == (n \div 2^b) % 2

(* A bit is 0 or 1.                                                        *)
LEMMA BitType == ASSUME NEW n \in Int, NEW b \in Nat PROVE BitAt(n, b) \in {0, 1}
<1>1. n \div 2^b \in Int
  BY PowType, DivMod
<1> QED
  BY <1>1 DEF BitAt

(* Numbers that are equal modulo 2^(b + 1) have the same bit b, numbers    *)
(* that are 2^b apart have opposite ones.                                  *)
LEMMA BitAdd ==
  ASSUME NEW n \in Int, NEW b \in Nat, NEW k \in Int
  PROVE  /\ BitAt(n + 2^b * k, b) = (BitAt(n, b) + k) % 2
         /\ BitAt(n + 2^(b + 1) * k, b) = BitAt(n, b)
<1> DEFINE p == 2^b
           q == n \div p
           r == n % p
<1>1. p \in Nat \ {0} /\ 2^(b + 1) = 2 * p
  BY PowPositive
<1>2. q \in Int /\ r \in 0 .. p - 1 /\ n = p * q + r
  BY <1>1, DivMod
<1> HIDE DEF p, q, r
<1>3. \A j \in Int : n + p * j = p * (q + j) + r
  BY <1>1, <1>2
<1>4. \A j \in Int : (n + p * j) \div p = q + j
  <2> TAKE j \in Int
  <2>1. q + j \in Int /\ n + p * j \in Int
    BY <1>1, <1>2
  <2> QED
    BY <1>1, <1>2, <1>3, <2>1, DivUnique
<1>5. (n + p * k) \div p = q + k
  BY <1>4
<1>6. (n + (2 * p) * k) \div p = q + 2 * k
  <2>1. (2 * p) * k = p * (2 * k) /\ 2 * k \in Int
    BY <1>1
  <2> QED
    BY <1>4, <2>1
<1>7. (q + k) % 2 = ((q % 2) + k) % 2 /\ (q + 2 * k) % 2 = q % 2
  BY <1>2
<1> QED
  BY <1>1, <1>5, <1>6, <1>7 DEF BitAt, p, q

(* Adding its place value flips a bit.                                     *)
LEMMA BitFlip ==
  ASSUME NEW n \in Int, NEW b \in Nat
  PROVE  BitAt(n + 2^b, b) = 1 - BitAt(n, b)
<1> DEFINE one == 1
<1>1. one \in Int /\ one = 1 /\ 2^b * one = 2^b
  BY PowType
<1> HIDE DEF one
<1>2. BitAt(n + 2^b * one, b) = (BitAt(n, b) + one) % 2
  BY <1>1, BitAdd
<1> QED
  BY <1>1, <1>2, BitType

(* Bits below a number's lowest position do not reach it.                  *)
LEMMA BitLow ==
  ASSUME NEW l \in Nat, NEW b \in Nat, l <= b, NEW k \in Int, NEW x \in 0 .. 2^l - 1
  PROVE  BitAt(2^l * k + x, b) = BitAt(2^l * k, b)
<1>1. PICK e \in Nat \ {0} : 2^b = 2^l * e
  BY PowSplit
<1> DEFINE p == 2^l
           q == k \div e
           r == k % e
<1>2. p \in Nat \ {0} /\ x \in 0 .. p - 1 /\ 2^b = p * e
  BY <1>1, PowType
<1>3. q \in Int /\ r \in 0 .. e - 1 /\ k = e * q + r
  BY DivMod
<1> HIDE DEF p, q, r
<1>4. p * e \in Nat \ {0}
  BY <1>2
<1>5. p * k = (p * e) * q + p * r
  BY <1>2, <1>3
<1>6. p * r \in Nat /\ p * r + p <= p * e
  <2>1. r + 1 <= e /\ r \in Nat
    BY <1>3
  <2>2. p * (r + 1) <= p * e
    BY <1>2, <2>1
  <2> QED
    BY <1>2, <2>1, <2>2
<1>7. \A y \in 0 .. p - 1 : (p * k + y) \div (p * e) = q
  <2> TAKE y \in 0 .. p - 1
  <2> DEFINE d == p * e
             s == p * r
             m == p * k
  <2>1. d \in Nat \ {0} /\ s \in Nat /\ s + p <= d /\ m = d * q + s /\ m \in Int
    BY <1>2, <1>4, <1>5, <1>6
  <2> HIDE DEF d, s, m
  <2>2. s + y \in 0 .. d - 1 /\ m + y \in Int
    BY <1>2, <2>1
  <2>3. d * q \in Int
    BY <1>3, <2>1
  <2>4. m + y = d * q + (s + y)
    BY <1>2, <2>1, <2>3
  <2>5. (m + y) \div d = q
    BY <1>3, <2>1, <2>2, <2>4, DivUnique
  <2> QED
    BY <2>5 DEF d, m
<1>8. (p * k + x) \div (p * e) = q /\ (p * k + 0) \div (p * e) = q /\ p * k + 0 = p * k
  BY <1>2, <1>7
<1> QED
  BY <1>2, <1>8 DEF BitAt, p

(* A number has no bits above its size.                                    *)
LEMMA BitHigh ==
  ASSUME NEW b \in Nat, NEW n \in 0 .. 2^b - 1
  PROVE  BitAt(n, b) = 0
<1> DEFINE p == 2^b
<1>1. p \in Nat \ {0} /\ n \in 0 .. p - 1 /\ n = p * 0 + n
  BY PowType
<1> HIDE DEF p
<1>2. n \div p = 0
  BY <1>1, DivUnique
<1> QED
  BY <1>2 DEF BitAt, p

(* A multiple of 2^l has no bits below l.                                  *)
LEMMA BitMultiple ==
  ASSUME NEW l \in Nat, NEW b \in Nat, b < l, NEW k \in Int
  PROVE  BitAt(2^l * k, b) = 0
<1>0. b + 1 \in Nat /\ b + 1 <= l
  OBVIOUS
<1>1. PICK e \in Nat \ {0} : 2^l = 2^(b + 1) * e
  BY <1>0, PowSplit
<1> DEFINE p == 2^(b + 1)
<1>2. p \in Nat \ {0} /\ 2^l * k = p * (e * k) /\ e * k \in Int
  <2>1. p \in Nat \ {0} /\ 2^l = p * e
    BY <1>0, <1>1, PowType
  <2> HIDE DEF p
  <2> QED
    BY <2>1
<1>3. BitAt(0 + p * (e * k), b) = BitAt(0, b)
  <2> DEFINE j == e * k
             zero == 0
  <2>1. j \in Int /\ zero \in Int /\ b + 1 \in Nat
    BY <1>2
  <2> HIDE DEF j, zero
  <2>2. BitAt(zero + 2^(b + 1) * j, b) = BitAt(zero, b)
    BY <2>1, BitAdd
  <2> QED
    BY <2>2 DEF j, zero
<1>4. 0 + p * (e * k) = p * (e * k)
  BY <1>2
<1>5. BitAt(0, b) = 0
  BY BitHigh, PowPositive
<1> QED
  BY <1>2, <1>3, <1>4, <1>5

(* The bits of a number made of a set are the set.                         *)
LEMMA NumBit ==
  ASSUME NEW S \in SUBSET Nat, IsFiniteSet(S), NEW b \in Nat
  PROVE  BitAt(Num(S), b) = IF b \in S THEN 1 ELSE 0
<1> DEFINE L == S \cap (0 .. b - 1)
           H == S \ (0 .. b)
<1>1. IsFiniteSet(L) /\ IsFiniteSet(H) /\ L \in SUBSET Nat /\ H \in SUBSET Nat
      /\ IsFiniteSet(L \cup H) /\ L \cup H \in SUBSET Nat /\ L \cap H = {} /\ L \in SUBSET (0 .. b - 1)
  BY FS_Subset
<1>2. S \ {b} = L \cup H /\ (b \notin S => S = L \cup H)
  OBVIOUS
<1>3. \A c \in H : b + 1 <= c
  OBVIOUS
<1> HIDE DEF L, H
<1>4. Num(L \cup H) = Num(L) + Num(H)
  BY <1>1, NumUnion
<1>5. Num(L) \in 0 .. 2^b - 1
  BY <1>1, NumBound
<1>6. PICK k \in Nat : Num(H) = 2^(b + 1) * k
  <2> DEFINE j == b + 1
  <2>1. j \in Nat /\ \A c \in H : j <= c
    BY <1>3
  <2> HIDE DEF j
  <2>2. \E k \in Nat : Num(H) = 2^j * k
    BY <1>1, <2>1, NumHigh
  <2> QED
    BY <2>2 DEF j
<1>7. BitAt(Num(L) + 2^(b + 1) * k, b) = 0
  <2>1. BitAt(Num(L), b) = 0 /\ Num(L) \in Int /\ k \in Int
    BY <1>5, BitHigh
  <2> QED
    BY <2>1, BitAdd
<1>8. CASE b \notin S
  BY <1>2, <1>4, <1>6, <1>7, <1>8
<1>9. CASE b \in S
  <2>1. Num(S) = 2^b + Num(L \cup H)
    BY <1>2, <1>9, NumRemove
  <2>2. 2^b * 1 = 2^b /\ Num(L) \in Int /\ 2^(b + 1) * k \in Int /\ 2^b \in Int
    BY <1>5, PowType
  <2>3. Num(S) = (Num(L) + 2^(b + 1) * k) + 2^b * 1
    BY <1>4, <1>6, <2>1, <2>2
  <2> DEFINE m == Num(L) + 2^(b + 1) * k
  <2>4. m \in Int /\ BitAt(m, b) = 0 /\ Num(S) = m + 2^b
    BY <1>7, <2>2, <2>3
  <2> HIDE DEF m
  <2>5. BitAt(Num(S), b) = 1
    BY <2>4, BitFlip
  <2> QED
    BY <1>9, <2>5
<1> QED
  BY <1>8, <1>9

(* A set of numbers has a least one.                                       *)
LEMMA LeastNat ==
  ASSUME NEW U \in SUBSET Nat, U # {}
  PROVE  \E m \in U : \A k \in U : m <= k
<1>1. PICK m \in U : \A k \in U : ~ (<<k, m>> \in OpToRel(<, Nat))
  BY NatLessThanWellFounded, WFMin
<1>2. ASSUME NEW k \in U PROVE m <= k
  <2>1. SUFFICES ASSUME k < m PROVE FALSE
    OBVIOUS
  <2>2. <<k, m>> \in OpToRel(<, Nat)
    BY <2>1, ZenonT(30) DEF OpToRel
  <2> QED
    BY <1>1, <2>2
<1> QED
  BY <1>2

(* The field that ends at c begins after the last cut below it.            *)
FieldIs(mask, c, l) ==
  /\ l \in 0 .. c /\ Field(mask, c) = l .. c
  /\ l = 0 \/ l - 1 \in mask
  /\ \A d \in mask : d < c => d < l

(* A field is an interval of bits.                                         *)
LEMMA FieldRange ==
  ASSUME NEW mask, IsCut(mask), NEW c \in mask
  PROVE  \E l : FieldIs(mask, c, l)
<1> DEFINE U == {m \in Nat : \A d \in mask : d < c => d < m}
<1>1. c \in Nat /\ c < AddrBits /\ mask \subseteq Nat
  BY AddrBitsAssumption DEF IsCut, Bit
<1>2. c \in U
  BY <1>1
<1>3. PICK l \in U : \A k \in U : l <= k
  <2> HIDE DEF U
  <2>1. U \in SUBSET Nat
    BY DEF U
  <2> QED
    BY <1>2, <2>1, LeastNat
<1>4. l = 0 \/ l - 1 \in mask
  <2> SUFFICES ASSUME l # 0 PROVE l - 1 \in mask
    OBVIOUS
  <2>1. l - 1 \in Nat /\ l - 1 \notin U
    BY <1>3
  <2>2. PICK d \in mask : d < c /\ ~(d < l - 1)
    BY <2>1
  <2>3. d < l /\ d \in Nat
    BY <1>1, <1>3, <2>2
  <2> QED
    BY <2>1, <2>2, <2>3
<1>5. Field(mask, c) = l .. c
  <2>1. \A b \in Nat : b \in U <=> l <= b
    BY <1>1, <1>3
  <2>2. \A b \in Bit : b \in Field(mask, c) <=> b <= c /\ b \in U
    BY <1>1 DEF Field, Bit
  <2>3. Field(mask, c) \subseteq Bit /\ l .. c \subseteq Bit /\ Bit \subseteq Nat
    BY <1>1, <1>3, AddrBitsAssumption DEF Field, Bit
  <2> HIDE DEF U
  <2>4. c \in Nat /\ l \in Nat
    BY <1>1, <1>3 DEF U
  <2>5. \A b : b \in Field(mask, c) <=> b \in l .. c
    <3> TAKE b
    <3>1. b \in Nat /\ b \in Bit => (b \in Field(mask, c) <=> b \in l .. c)
      BY <2>1, <2>2, <2>4
    <3> QED
      BY <2>3, <3>1
  <2> QED
    BY <2>5
<1>6. l \in 0 .. c
  BY <1>1, <1>2, <1>3
<1> QED
  BY <1>3, <1>4, <1>5, <1>6 DEF FieldIs

(* Every bit is in a field.                                                *)
LEMMA FieldOf ==
  ASSUME NEW mask, IsCut(mask), NEW b \in Bit
  PROVE  \E c \in mask : \E l : FieldIs(mask, c, l) /\ b \in l .. c
<1> DEFINE U == {d \in mask : b <= d}
<1>1. mask \subseteq Nat /\ b \in Nat /\ AddrBits - 1 \in U
  BY AddrBitsAssumption DEF IsCut, Bit
<1>2. PICK c \in U : \A k \in U : c <= k
  BY <1>1, LeastNat
<1>3. PICK l : FieldIs(mask, c, l)
  BY FieldRange
<1>4. l <= b
  BY <1>1, <1>2, <1>3 DEF FieldIs
<1> QED
  BY <1>1, <1>2, <1>3, <1>4 DEF FieldIs

(* Bits by their arithmetic.                                               *)
LEMMA BitsAt == ASSUME NEW n, NEW b \in Bit PROVE b \in Bits(n) <=> BitAt(n, b) = 1
BY DEF Bits, BitAt

(* A field sum taken modulo its size keeps its bits.                       *)
LEMMA ModBit ==
  ASSUME NEW n \in Int, NEW c \in Nat, NEW b \in 0 .. c
  PROVE  BitAt(n % 2^(c + 1), b) = BitAt(n, b)
<1> DEFINE d == 2^(c + 1)
           q == n \div d
<1>1. b \in Nat /\ b + 1 \in Nat /\ c + 1 \in Nat /\ b + 1 <= c + 1
  OBVIOUS
<1>2. PICK e \in Nat \ {0} : d = 2^(b + 1) * e
  BY <1>1, PowSplit
<1>3. d \in Nat \ {0}
  BY <1>1, PowType
<1>4. q \in Int /\ n % d \in Int /\ n = d * q + (n % d)
  <2> HIDE DEF d
  <2> QED
    BY <1>3, DivMod
<1> DEFINE p == 2^(b + 1)
           r == n % d
           j == -(e * q)
<1>5. p \in Nat /\ d = p * e /\ n = d * q + r /\ r \in Int /\ q \in Int /\ d \in Nat
  BY <1>1, <1>2, <1>3, <1>4, PowType
<1> HIDE DEF d, q, r, p
<1>6. j \in Int /\ p * j = -(d * q)
  BY <1>5
<1> HIDE DEF j
<1>7. r = n + p * j
  BY <1>5, <1>6
<1>8. BitAt(n + 2^(b + 1) * j, b) = BitAt(n, b)
  BY <1>1, <1>6, BitAdd
<1> QED
  BY <1>7, <1>8 DEF r, p, d

(* A field gives no bits outside itself.                                   *)
LEMMA OtherField ==
  ASSUME NEW c \in Nat, NEW l \in 0 .. c, NEW k \in Int, NEW b \in Nat, b \notin l .. c
  PROVE  BitAt((2^l * k) % 2^(c + 1), b) = 0
<1> DEFINE d == 2^(c + 1)
           p == 2^l
           n == p * k
           q == n \div d
           r == n % d
<1>1. c + 1 \in Nat /\ l \in Nat /\ l <= c + 1
  OBVIOUS
<1>2. PICK e \in Nat \ {0} : d = p * e
  BY <1>1, PowSplit
<1>3. d \in Nat \ {0} /\ p \in Nat \ {0}
  BY <1>1, PowType
<1>4. n \in Int
  <2> HIDE DEF p
  <2> QED
    BY <1>3
<1>5. q \in Int /\ r \in 0 .. d - 1 /\ n = d * q + r
  <2> HIDE DEF n, d
  <2> QED
    BY <1>3, <1>4, DivMod
<1>6. CASE b < l
  <2> DEFINE j == k - e * q
  <2>1. j \in Int /\ r = p * j
    <3>1. n = p * k
      OBVIOUS
    <3> HIDE DEF d, p, q, r, n
    <3> QED
      BY <1>2, <1>3, <1>5, <3>1
  <2> HIDE DEF j, r
  <2>2. BitAt(2^l * j, b) = 0
    BY <1>1, <1>6, <2>1, BitMultiple
  <2> QED
    BY <2>1, <2>2 DEF r
<1>7. CASE b > c
  <2>1. c + 1 <= b
    BY <1>7
  <2>2. 2^(c + 1) <= 2^b /\ 2^b \in Nat
    BY <1>1, <2>1, PowMonotone, PowType
  <2>3. r \in 0 .. 2^b - 1
    <3> HIDE DEF r
    <3> QED
      BY <1>3, <1>5, <2>2
  <2> HIDE DEF r
  <2>4. BitAt(r, b) = 0
    BY <2>3, BitHigh
  <2> QED
    BY <2>4 DEF r
<1> QED
  BY <1>6, <1>7

(* A bit of a sum, seen from its field: what is below the field fits there,*)
(* what is above does not reach it, and the top bit is added to.           *)
Multiple(F, l) == \E k \in Int : F = 2^l * k
Sum(x, F, c, e, j) == x + F + 2^c * e + 2^(c + 1) * j

(* One bit of a sum whose carries are kept inside a field.                 *)
LEMMA FieldBit ==
  ASSUME NEW c \in Nat, NEW l \in 0 .. c, NEW b \in l .. c, NEW F, Multiple(F, l),
         NEW x \in 0 .. 2^l - 1, NEW e \in Int, NEW j \in Int
  PROVE  BitAt(Sum(x, F, c, e, j), b) = IF b < c THEN BitAt(F, b) ELSE (BitAt(F, c) + e) % 2
<1>0. PICK k \in Int : F = 2^l * k
  BY DEF Multiple
<1> DEFINE p == 2^c
           y == F + x
<1>1. l \in Nat /\ b \in Nat /\ p \in Nat /\ 2^(c + 1) = 2 * p /\ c + 1 \in Nat
  BY PowPositive
<1>2. F \in Int /\ y \in Int
  <2> DEFINE q == 2^l
  <2>1. q \in Nat /\ F = q * k
    BY <1>0, <1>1, PowType
  <2> HIDE DEF q
  <2> QED
    BY <2>1
<1>3. BitAt(y, b) = BitAt(F, b)
  <2>1. l <= b
    OBVIOUS
  <2>2. BitAt(2^l * k + x, b) = BitAt(2^l * k, b)
    BY <1>1, <2>1, BitLow
  <2> QED
    BY <1>0, <2>2
<1>4. x + F + 2^c * e + 2^(c + 1) * j = y + p * (e + 2 * j) /\ e + 2 * j \in Int
  <2> HIDE DEF p
  <2>1. (2 * p) * j = p * (2 * j) /\ p * (e + 2 * j) = p * e + p * (2 * j) /\ p * e \in Int /\ p * (2 * j) \in Int
    BY <1>1
  <2>2. 2^(c + 1) * j = p * (2 * j)
    BY <1>1, <2>1
  <2>3. x + F + p * e + 2^(c + 1) * j = y + p * (e + 2 * j)
    BY <1>2, <2>1, <2>2
  <2> QED
    BY <2>3 DEF p
<1> DEFINE z == e + 2 * j
<1>5. z \in Int
  OBVIOUS
<1>6. CASE b = c
  <2>1. BitAt(y + 2^c * z, c) = (BitAt(y, c) + z) % 2
    <3> HIDE DEF z, y
    <3> QED
      BY <1>2, <1>5, BitAdd
  <2>2. BitAt(y, c) \in {0, 1}
    BY <1>2, BitType
  <2>3. (BitAt(y, c) + z) % 2 = (BitAt(y, c) + e) % 2
    <3> HIDE DEF y
    <3> QED
      BY <2>2
  <2> QED
    BY <1>3, <1>4, <1>6, <2>1, <2>3 DEF Sum
<1>7. CASE b < c
  <2>1. b + 1 \in Nat /\ b + 1 <= c
    BY <1>7
  <2>2. PICK f \in Nat \ {0} : p = 2^(b + 1) * f
    BY <2>1, PowSplit
  <2> DEFINE q == 2^(b + 1)
             h == f * z
  <2>3. q \in Nat /\ p = q * f
    BY <2>1, <2>2, PowType
  <2>4. h \in Int /\ p * z = q * h
    <3> HIDE DEF p, q, z
    <3> QED
      BY <1>5, <2>3
  <2>5. BitAt(y + 2^(b + 1) * h, b) = BitAt(y, b)
    <3> HIDE DEF h, y
    <3> QED
      BY <1>1, <1>2, <2>4, BitAdd
  <2> QED
    BY <1>3, <1>4, <1>7, <2>4, <2>5 DEF Sum
<1> QED
  BY <1>6, <1>7

One(P) == IF P THEN 1 ELSE 0

(* The value of a set, by what is below a field, in it but for the top, at *)
(* the top and above.                                                      *)
LEMMA NumParts ==
  ASSUME NEW A \in SUBSET Nat, IsFiniteSet(A), NEW c \in Nat, NEW l \in 0 .. c
  PROVE  /\ Num(A \cap (l .. c)) = Num(A \cap (l .. c - 1)) + 2^c * One(c \in A)
         /\ \E k \in Nat : Num(A \cap (l .. c - 1)) = 2^l * k
         /\ \E j \in Nat : Num(A) = Num(A \cap (0 .. l - 1)) + Num(A \cap (l .. c - 1))
                                   + 2^c * One(c \in A) + 2^(c + 1) * j
<1> DEFINE L == A \cap (0 .. l - 1)
           M == A \cap (l .. c - 1)
           T == A \cap {c}
           H == A \ (0 .. c)
<1>1. \A S \in SUBSET A : S \in SUBSET Nat /\ IsFiniteSet(S)
  BY FS_Subset
<1>2. Num(T) = 2^c * One(c \in A)
  <2>1. CASE c \in A
    <3>1. T = {c} /\ {c} \ {c} = {}
      BY <2>1
    <3>2. Num({c}) = 2^c + Num({c} \ {c})
      BY <1>1, <2>1, NumRemove
    <3>3. 2^c * 1 = 2^c /\ 2^c + 0 = 2^c
      BY PowType
    <3> QED
      BY <2>1, <3>1, <3>2, <3>3, NumEmpty DEF One
  <2>2. CASE c \notin A
    <3>1. T = {} /\ 2^c * 0 = 0
      BY <2>2, PowType
    <3> QED
      BY <2>2, <3>1, NumEmpty DEF One
  <2> QED
    BY <2>1, <2>2
<1>3. A \cap (l .. c) = M \cup T /\ M \cap T = {}
  OBVIOUS
<1>4. A = (L \cup (M \cup T)) \cup H /\ (L \cup (M \cup T)) \cap H = {} /\ L \cap (M \cup T) = {}
  OBVIOUS
<1>5. (\A b \in M : l <= b) /\ (\A b \in H : c + 1 <= b) /\ l \in Nat /\ c + 1 \in Nat
  OBVIOUS
<1>6. /\ L \in SUBSET A /\ M \in SUBSET A /\ T \in SUBSET A /\ H \in SUBSET A
      /\ (M \cup T) \in SUBSET A /\ (L \cup (M \cup T)) \in SUBSET A
  OBVIOUS
<1> HIDE DEF L, M, T, H
<1>7. Num(M \cup T) = Num(M) + Num(T)
  BY <1>1, <1>3, <1>6, NumUnion
<1>8. \E k \in Nat : Num(M) = 2^l * k
  BY <1>1, <1>5, <1>6, NumHigh
<1>9. PICK j \in Nat : Num(H) = 2^(c + 1) * j
  <2> DEFINE n == c + 1
  <2>1. n \in Nat /\ \A b \in H : n <= b
    BY <1>5
  <2> HIDE DEF n
  <2>2. \E j \in Nat : Num(H) = 2^n * j
    BY <1>1, <1>6, <2>1, NumHigh
  <2> QED
    BY <2>2 DEF n
<1>10. Num(L \cup (M \cup T)) = Num(L) + Num(M \cup T)
  BY <1>1, <1>4, <1>6, NumUnion
<1>11. Num(A) = Num(L \cup (M \cup T)) + Num(H)
  BY <1>1, <1>4, <1>6, NumUnion
<1>12. Num(L) \in Nat /\ Num(M) \in Nat /\ Num(T) \in Nat /\ Num(H) \in Nat
  BY <1>1, <1>6, NumChosen
<1>13. Num(A) = Num(L) + Num(M) + Num(T) + Num(H)
  BY <1>7, <1>10, <1>11, <1>12
<1> QED
  BY <1>2, <1>3, <1>7, <1>8, <1>9, <1>13 DEF L, M

(* Bits are sets that Num takes.                                           *)
LEMMA BitFinite == Bit \in SUBSET Nat /\ \A A \in SUBSET Bit : IsFiniteSet(A) /\ A \in SUBSET Nat
<1>1. AddrBits - 1 \in Int /\ 0 \in Int /\ Bit \in SUBSET Nat
  BY AddrBitsAssumption DEF Bit
<1>2. \A A \in SUBSET Bit : IsFiniteSet(A)
  BY <1>1, IntervalFinite DEF Bit
<1> QED
  BY <1>1, <1>2

(* The other fields have nothing at a bit of this one.                     *)
LEMMA OthersSilent ==
  ASSUME NEW mask, IsCut(mask), NEW c \in mask, NEW l, FieldIs(mask, c, l), NEW b \in l .. c,
         NEW d \in mask, d # c, NEW A \in SUBSET Bit, NEW B \in SUBSET Bit
  PROVE  /\ BitAt((Num(A \cap Field(mask, d)) - Num(B \cap Field(mask, d))) % 2^(d + 1), b) = 0
         /\ BitAt((Num(A \cap Field(mask, d)) + Num(B \cap Field(mask, d))) % 2^(d + 1), b) = 0
<1>1. PICK m : FieldIs(mask, d, m)
  BY FieldRange
<1>2. c \in Nat /\ d \in Nat /\ l \in Nat /\ m \in 0 .. d /\ b \in Nat /\ m \in Nat
  BY <1>1, AddrBitsAssumption DEF IsCut, Bit, FieldIs
<1>3. b \notin m .. d
  <2>1. CASE d < c
    BY <1>2, <2>1 DEF FieldIs
  <2>2. CASE c < d
    BY <1>1, <1>2, <2>2 DEF FieldIs
  <2> QED
    BY <1>2, <2>1, <2>2
<1> DEFINE F == Field(mask, d)
<1>4. \A S \in SUBSET Bit : \E k \in Nat : Num(S \cap F) = 2^m * k
  <2> TAKE S \in SUBSET Bit
  <2>1. S \cap F \in SUBSET Bit /\ \A x \in S \cap F : m <= x
    BY <1>1, <1>2 DEF FieldIs
  <2> HIDE DEF F
  <2>2. IsFiniteSet(S \cap F) /\ S \cap F \in SUBSET Nat
    BY <2>1, BitFinite
  <2> QED
    BY <1>2, <2>1, <2>2, NumHigh
<1>5. PICK j \in Nat : Num(A \cap F) = 2^m * j
  BY <1>4
<1>6. PICK k \in Nat : Num(B \cap F) = 2^m * k
  BY <1>4
<1> DEFINE p == 2^m
           x == Num(A \cap F)
           y == Num(B \cap F)
           s == j + k
           t == j - k
<1>7. p \in Nat /\ x = p * j /\ y = p * k
  BY <1>2, <1>5, <1>6, PowType
<1> HIDE DEF p, x, y
<1>8. x - y = p * t /\ x + y = p * s /\ s \in Int /\ t \in Int
  BY <1>7
<1> HIDE DEF s, t
<1>9. BitAt((2^m * t) % 2^(d + 1), b) = 0 /\ BitAt((2^m * s) % 2^(d + 1), b) = 0
  BY <1>2, <1>3, <1>8, OtherField
<1> QED
  BY <1>8, <1>9 DEF p, x, y

(* What the sums and differences of fields are at a bit.                   *)
Together(A, B, l, c) == Num(A \cap (l .. c)) + Num(B \cap (l .. c))

(* A bit of a field sum is that bit of the sum of the field alone.         *)
LEMMA FieldSumBit ==
  ASSUME NEW mask, IsCut(mask), NEW c \in mask, NEW l, FieldIs(mask, c, l), NEW b \in l .. c,
         NEW A \in SUBSET Bit, NEW B \in SUBSET Bit
  PROVE  /\ b \in FieldSub(A, B, mask) <=> BitAt(Num(A \cap (l .. c)) - Num(B \cap (l .. c)), b) = 1
         /\ b \in FieldAdd(A, B, mask) <=> BitAt(Together(A, B, l, c), b) = 1
<1> DEFINE S(d) == (Num(A \cap Field(mask, d)) - Num(B \cap Field(mask, d))) % 2^(d + 1)
           P(d) == (Num(A \cap Field(mask, d)) + Num(B \cap Field(mask, d))) % 2^(d + 1)
<1>1. c \in Nat /\ b \in 0 .. c /\ b \in Bit
  BY AddrBitsAssumption DEF IsCut, Bit, FieldIs
<1>2. \A d \in mask : (b \in Bits(S(d)) => d = c) /\ (b \in Bits(P(d)) => d = c)
  <2> SUFFICES ASSUME NEW d \in mask, d # c PROVE b \notin Bits(S(d)) /\ b \notin Bits(P(d))
    OBVIOUS
  <2>1. BitAt(S(d), b) = 0 /\ BitAt(P(d), b) = 0
    BY OthersSilent
  <2> HIDE DEF S, P
  <2> QED
    BY <1>1, <2>1, BitsAt
<1>3. A \cap (l .. c) \in SUBSET Bit /\ B \cap (l .. c) \in SUBSET Bit
  OBVIOUS
<1>4. Num(A \cap (l .. c)) \in Nat /\ Num(B \cap (l .. c)) \in Nat
  BY <1>3, BitFinite, NumChosen
<1> DEFINE x == Num(A \cap (l .. c))
           y == Num(B \cap (l .. c))
<1>5. S(c) = (x - y) % 2^(c + 1) /\ P(c) = (x + y) % 2^(c + 1)
  BY DEF FieldIs
<1>6. x - y \in Int /\ x + y \in Int
  BY <1>4
<1>7. BitAt((x - y) % 2^(c + 1), b) = BitAt(x - y, b) /\ BitAt((x + y) % 2^(c + 1), b) = BitAt(x + y, b)
  <2> DEFINE m == x - y
             n == x + y
  <2> HIDE DEF m, n, x, y
  <2>1. BitAt(m % 2^(c + 1), b) = BitAt(m, b) /\ BitAt(n % 2^(c + 1), b) = BitAt(n, b)
    <3>1. m \in Int /\ n \in Int
      BY <1>6 DEF m, n
    <3> QED
      BY <1>1, <3>1, ModBit
  <2> QED
    BY <2>1 DEF m, n
<1>8. /\ b \in Bits(S(c)) <=> BitAt(x - y, b) = 1
      /\ b \in Bits(P(c)) <=> BitAt(x + y, b) = 1
  BY <1>1, <1>5, <1>7, BitsAt
<1>9. b \in FieldSub(A, B, mask) <=> \E d \in mask : b \in Bits(S(d))
  BY DEF FieldSub
<1>10. b \in FieldAdd(A, B, mask) <=> \E d \in mask : b \in Bits(P(d))
  BY DEF FieldAdd
<1> HIDE DEF S, P, x, y
<1>11. /\ b \in FieldSub(A, B, mask) <=> BitAt(x - y, b) = 1
       /\ b \in FieldAdd(A, B, mask) <=> BitAt(x + y, b) = 1
  BY <1>2, <1>8, <1>9, <1>10
<1> QED
  BY <1>11 DEF x, y, Together

(* DoKick subtracts field by field: the ones it sets at the top of every   *)
(* field keep the others from borrowing.                                   *)
LEMMA DoKickSubtracts ==
  ASSUME NEW mask, IsCut(mask), NEW A \in SUBSET Bit, NEW B \in SUBSET Bit
  PROVE  DoKick(A, B, mask) = FieldSub(A, B, mask)
<1>1. SUFFICES ASSUME NEW b \in Bit PROVE b \in DoKick(A, B, mask) <=> b \in FieldSub(A, B, mask)
  BY DEF DoKick, FieldSub, Xor, Bits, IsCut
<1>2. PICK c \in mask : \E l : FieldIs(mask, c, l) /\ b \in l .. c
  BY FieldOf
<1>3. PICK l : FieldIs(mask, c, l) /\ b \in l .. c
  BY <1>2
<1>4. c \in Nat /\ l \in 0 .. c /\ l \in Nat /\ b \in Nat /\ mask \in SUBSET Bit /\ b <= c
  BY <1>3, AddrBitsAssumption DEF IsCut, Bit, FieldIs
<1> DEFINE U == A \cup mask
           V == B \ mask
           M(S) == S \cap (l .. c - 1)
           L(S) == S \cap (0 .. l - 1)
<1>5. U \in SUBSET Bit /\ V \in SUBSET Bit /\ c \in U /\ c \notin V
  BY <1>4
<1>6. M(U) = M(A) /\ M(V) = M(B)
  BY <1>3, <1>4, AddrBitsAssumption DEF FieldIs, IsCut, Bit
<1>7. Num(L(U)) - Num(L(V)) \in 0 .. 2^l - 1
  <2>1. CASE l = 0
    <3>1. L(U) = {} /\ L(V) = {} /\ 2^l = 1
      BY <2>1
    <3> HIDE DEF L
    <3>2. Num(L(U)) = 0 /\ Num(L(V)) = 0
      BY <3>1, NumEmpty
    <3> QED
      BY <3>1, <3>2
  <2>2. CASE l # 0
    <3> DEFINE n == l - 1
    <3>1. n \in Nat /\ l = n + 1 /\ n \in mask
      BY <1>3, <1>4, <2>2 DEF FieldIs
    <3>2. L(U) \in SUBSET Bit /\ n \in L(U) /\ L(U) \ {n} \in SUBSET (0 .. n - 1)
      BY <1>5, <3>1
    <3>3. L(V) \in SUBSET (0 .. n - 1)
      BY <3>1
    <3> HIDE DEF n, L
    <3>4. Num(L(U) \ {n}) \in 0 .. 2^n - 1 /\ Num(L(V)) \in 0 .. 2^n - 1
      BY <3>1, <3>2, <3>3, NumBound
    <3>5. Num(L(U)) = 2^n + Num(L(U) \ {n})
      BY <3>2, BitFinite, NumRemove
    <3>6. 2^l = 2 * 2^n /\ 2^n \in Nat
      BY <3>1, PowPositive
    <3> QED
      BY <3>4, <3>5, <3>6
  <2> QED
    BY <2>1, <2>2
<1>8. \A S \in SUBSET Bit : IsFiniteSet(S) /\ S \in SUBSET Nat
  BY BitFinite
<1> DEFINE F == Num(M(A)) - Num(M(B))
           N == Num(U) - Num(V)
           D == Num(A \cap (l .. c)) - Num(B \cap (l .. c))
           x == Num(L(U)) - Num(L(V))
           e == One(c \in A) - One(c \in B)
<1>9. Multiple(F, l)
  <2>1. PICK z \in Nat : Num(M(A)) = 2^l * z
    BY <1>4, <1>8, NumParts
  <2>2. PICK j \in Nat : Num(M(B)) = 2^l * j
    BY <1>4, <1>8, NumParts
  <2> DEFINE p == 2^l
  <2>3. p \in Nat /\ F = p * z - p * j
    BY <1>4, <2>1, <2>2, PowType
  <2> HIDE DEF p, F
  <2>4. F = p * (z - j) /\ z - j \in Int
    BY <2>3
  <2> QED
    BY <2>4 DEF p, Multiple
<1>10. PICK h \in Int : N = x + F + 2^c * 1 + 2^(c + 1) * h
  <2>0. \A S \in SUBSET Bit : \E z \in Nat :
          Num(S) = Num(L(S)) + Num(M(S)) + 2^c * One(c \in S) + 2^(c + 1) * z
    BY <1>4, <1>8, NumParts
  <2> HIDE DEF L, M, U, V
  <2>1. PICK z \in Nat : Num(U) = Num(L(U)) + Num(M(U)) + 2^c * One(c \in U) + 2^(c + 1) * z
    BY <1>5, <2>0
  <2>2. PICK j \in Nat : Num(V) = Num(L(V)) + Num(M(V)) + 2^c * One(c \in V) + 2^(c + 1) * j
    BY <1>5, <2>0
  <2>3. One(c \in U) = 1 /\ One(c \in V) = 0
    BY <1>5 DEF One
  <2>4. L(U) \in SUBSET Bit /\ L(V) \in SUBSET Bit /\ M(A) \in SUBSET Bit /\ M(B) \in SUBSET Bit
    BY <1>5 DEF L, M
  <2>5. Num(L(U)) \in Nat /\ Num(L(V)) \in Nat /\ Num(M(A)) \in Nat /\ Num(M(B)) \in Nat
    BY <1>8, <2>4, NumChosen
  <2> DEFINE p == 2^c
             q == 2^(c + 1)
             u == Num(L(U))
             v == Num(L(V))
             f == Num(M(A))
             g == Num(M(B))
  <2>6. p \in Nat /\ q \in Nat
    BY <1>4, PowPositive
  <2>7. Num(U) = u + f + p * 1 + q * z /\ Num(V) = v + g + p * 0 + q * j
    BY <1>6, <2>1, <2>2, <2>3
  <2>8. u \in Nat /\ v \in Nat /\ f \in Nat /\ g \in Nat
    BY <2>5
  <2>9. N = (u + f + p * 1 + q * z) - (v + g + p * 0 + q * j) /\ x = u - v /\ F = f - g
    BY <2>7
  <2> HIDE DEF p, q, u, v, f, g, N, x, F
  <2>10. q * (z - j) = q * z - q * j /\ z - j \in Int /\ q * z \in Nat /\ q * j \in Nat
    BY <2>6
  <2>11. N = x + F + p * 1 + q * (z - j)
    BY <2>6, <2>8, <2>9, <2>10
  <2> QED
    BY <2>10, <2>11 DEF p, q
<1>11. D = 0 + F + 2^c * e + 2^(c + 1) * 0
  <2>1. /\ Num(A \cap (l .. c)) = Num(M(A)) + 2^c * One(c \in A)
        /\ Num(B \cap (l .. c)) = Num(M(B)) + 2^c * One(c \in B)
    BY <1>4, <1>8, NumParts
  <2>2. M(A) \in SUBSET Bit /\ M(B) \in SUBSET Bit
    OBVIOUS
  <2> DEFINE p == 2^c
             f == Num(M(A))
             g == Num(M(B))
             z == One(c \in A)
             j == One(c \in B)
  <2> HIDE DEF M
  <2>3. f \in Nat /\ g \in Nat /\ p \in Nat /\ z \in {0, 1} /\ j \in {0, 1} /\ 2^(c + 1) \in Nat
    <3>1. Num(M(A)) \in Nat /\ Num(M(B)) \in Nat
      BY <1>8, <2>2, NumChosen
    <3>2. One(c \in A) \in {0, 1} /\ One(c \in B) \in {0, 1}
      BY DEF One
    <3>3. 2^c \in Nat /\ 2^(c + 1) \in Nat
      BY <1>4, PowPositive
    <3> QED
      BY <3>1, <3>2, <3>3
  <2>4. D = (f + p * z) - (g + p * j) /\ F = f - g /\ e = z - j
    BY <2>1
  <2> HIDE DEF f, g, p, z, j, D, F, e
  <2>5. D = F + p * e
    <3>1. p * e = p * z - p * j /\ p * z \in Int /\ p * j \in Int
      BY <2>3, <2>4
    <3> QED
      BY <2>3, <2>4, <3>1
  <2>6. F \in Int /\ p * e \in Int /\ 2^(c + 1) * 0 = 0
    BY <2>3, <2>4
  <2>7. D = 0 + F + p * e + 2^(c + 1) * 0
    BY <2>5, <2>6
  <2> QED
    BY <2>7 DEF p
<1>12. e \in Int /\ 0 \in 0 .. 2^l - 1
  BY <1>4, PowPositive DEF One
<1>13. F \in Int
  <2> DEFINE p == 2^l
  <2>1. PICK k \in Int : F = p * k
    BY <1>9 DEF Multiple
  <2>2. p \in Nat
    BY <1>4, PowType
  <2> HIDE DEF p, F
  <2> QED
    BY <2>1, <2>2
<1> HIDE DEF F, N, D, x, e
<1>14. BitAt(N, b) = IF b < c THEN BitAt(F, b) ELSE (BitAt(F, c) + 1) % 2
  <2> DEFINE one == 1
  <2>1. x \in 0 .. 2^l - 1 /\ one \in Int
    BY <1>7 DEF x
  <2>2. N = Sum(x, F, c, one, h)
    BY <1>10 DEF Sum
  <2> HIDE DEF one
  <2>3. BitAt(N, b) = IF b < c THEN BitAt(F, b) ELSE (BitAt(F, c) + one) % 2
    BY <1>3, <1>4, <1>9, <2>1, <2>2, FieldBit
  <2> QED
    BY <2>3 DEF one
<1>15. BitAt(D, b) = IF b < c THEN BitAt(F, b) ELSE (BitAt(F, c) + e) % 2
  <2> DEFINE zero == 0
  <2>1. zero \in 0 .. 2^l - 1 /\ zero \in Int
    BY <1>12
  <2>2. D = Sum(zero, F, c, e, zero)
    BY <1>11 DEF Sum
  <2> HIDE DEF zero
  <2> QED
    BY <1>3, <1>4, <1>9, <1>12, <2>1, <2>2, FieldBit
<1>16. b \in FieldSub(A, B, mask) <=> BitAt(D, b) = 1
  BY <1>3, FieldSumBit DEF D
<1>17. b \in Bits(Num(U) - Num(V)) <=> BitAt(N, b) = 1
  BY BitsAt DEF N
<1>18. CASE b < c
  <2>1. b \notin mask
    BY <1>3, <1>4, <1>18 DEF FieldIs
  <2>2. b \in DoKick(A, B, mask) <=> b \in Bits(Num(U) - Num(V))
    BY <2>1 DEF DoKick, Xor
  <2> QED
    BY <1>14, <1>15, <1>16, <1>17, <1>18, <2>2
<1>19. CASE b = c
  <2>1. b \in mask
    BY <1>19
  <2>2. b \in DoKick(A, B, mask) <=> ~(BitAt(N, b) = 1 <=> ~(b \in A <=> b \notin B))
    BY <1>17, <2>1 DEF DoKick, Xor
  <2>3. BitAt(F, c) \in {0, 1}
    BY <1>4, <1>13, BitType
  <2>4. BitAt(N, b) = (BitAt(F, c) + 1) % 2 /\ BitAt(D, b) = (BitAt(F, c) + e) % 2
    <3>1. ~(b < c)
      BY <1>4, <1>19
    <3> QED
      BY <1>14, <1>15, <3>1, Zenon
  <2>5. e = IF b \in A THEN IF b \in B THEN 0 ELSE 1 ELSE IF b \in B THEN -1 ELSE 0
    BY <1>19 DEF e, One
  <2> QED
    BY <1>16, <2>2, <2>3, <2>4, <2>5
<1> QED
  BY <1>4, <1>18, <1>19

(* AddSiteAddress adds field by field: without the tops of the fields the  *)
(* sums of the lower ones stay below.                                      *)
LEMMA AddSiteAddressAdds ==
  ASSUME NEW mask, IsCut(mask), NEW A \in SUBSET Bit, NEW B \in SUBSET Bit
  PROVE  AddSiteAddress(A, B, mask) = FieldAdd(A, B, mask)
<1>1. SUFFICES ASSUME NEW b \in Bit PROVE b \in AddSiteAddress(A, B, mask) <=> b \in FieldAdd(A, B, mask)
  BY DEF AddSiteAddress, FieldAdd, Xor, Bits, IsCut
<1>2. PICK c \in mask : \E l : FieldIs(mask, c, l) /\ b \in l .. c
  BY FieldOf
<1>3. PICK l : FieldIs(mask, c, l) /\ b \in l .. c
  BY <1>2
<1>4. c \in Nat /\ l \in 0 .. c /\ l \in Nat /\ b \in Nat /\ mask \in SUBSET Bit /\ b <= c
  BY <1>3, AddrBitsAssumption DEF IsCut, Bit, FieldIs
<1> DEFINE U == A \ mask
           V == B \ mask
           M(S) == S \cap (l .. c - 1)
           L(S) == S \cap (0 .. l - 1)
<1>5. U \in SUBSET Bit /\ V \in SUBSET Bit /\ c \notin U /\ c \notin V
  BY <1>4
<1>6. M(U) = M(A) /\ M(V) = M(B)
  BY <1>3, <1>4, AddrBitsAssumption DEF FieldIs, IsCut, Bit
<1>7. Num(L(U)) + Num(L(V)) \in 0 .. 2^l - 1
  <2>1. CASE l = 0
    <3>1. L(U) = {} /\ L(V) = {} /\ 2^l = 1
      BY <2>1
    <3> HIDE DEF L
    <3>2. Num(L(U)) = 0 /\ Num(L(V)) = 0
      BY <3>1, NumEmpty
    <3> QED
      BY <3>1, <3>2
  <2>2. CASE l # 0
    <3> DEFINE n == l - 1
    <3>1. n \in Nat /\ l = n + 1 /\ n \in mask
      BY <1>3, <1>4, <2>2 DEF FieldIs
    <3>2. L(U) \in SUBSET (0 .. n - 1) /\ L(V) \in SUBSET (0 .. n - 1)
      BY <3>1
    <3> HIDE DEF n, L
    <3>3. Num(L(U)) \in 0 .. 2^n - 1 /\ Num(L(V)) \in 0 .. 2^n - 1
      BY <3>1, <3>2, NumBound
    <3>4. 2^l = 2 * 2^n /\ 2^n \in Nat
      BY <3>1, PowPositive
    <3> QED
      BY <3>3, <3>4
  <2> QED
    BY <2>1, <2>2
<1>8. \A S \in SUBSET Bit : IsFiniteSet(S) /\ S \in SUBSET Nat
  BY BitFinite
<1> DEFINE F == Num(M(A)) + Num(M(B))
           N == Num(U) + Num(V)
           D == Num(A \cap (l .. c)) + Num(B \cap (l .. c))
           x == Num(L(U)) + Num(L(V))
           e == One(c \in A) + One(c \in B)
<1>9. Multiple(F, l)
  <2>1. PICK z \in Nat : Num(M(A)) = 2^l * z
    BY <1>4, <1>8, NumParts
  <2>2. PICK j \in Nat : Num(M(B)) = 2^l * j
    BY <1>4, <1>8, NumParts
  <2> DEFINE p == 2^l
  <2>3. p \in Nat /\ F = p * z + p * j
    BY <1>4, <2>1, <2>2, PowType
  <2> HIDE DEF p, F
  <2>4. F = p * (z + j) /\ z + j \in Int
    BY <2>3
  <2> QED
    BY <2>4 DEF p, Multiple
<1>10. PICK h \in Int : N = x + F + 2^c * 0 + 2^(c + 1) * h
  <2>0. \A S \in SUBSET Bit : \E z \in Nat :
          Num(S) = Num(L(S)) + Num(M(S)) + 2^c * One(c \in S) + 2^(c + 1) * z
    BY <1>4, <1>8, NumParts
  <2> HIDE DEF L, M, U, V
  <2>1. PICK z \in Nat : Num(U) = Num(L(U)) + Num(M(U)) + 2^c * One(c \in U) + 2^(c + 1) * z
    BY <1>5, <2>0
  <2>2. PICK j \in Nat : Num(V) = Num(L(V)) + Num(M(V)) + 2^c * One(c \in V) + 2^(c + 1) * j
    BY <1>5, <2>0
  <2>3. One(c \in U) = 0 /\ One(c \in V) = 0
    BY <1>5 DEF One
  <2>4. L(U) \in SUBSET Bit /\ L(V) \in SUBSET Bit /\ M(A) \in SUBSET Bit /\ M(B) \in SUBSET Bit
    BY <1>5 DEF L, M
  <2>5. Num(L(U)) \in Nat /\ Num(L(V)) \in Nat /\ Num(M(A)) \in Nat /\ Num(M(B)) \in Nat
    BY <1>8, <2>4, NumChosen
  <2> DEFINE p == 2^c
             q == 2^(c + 1)
             u == Num(L(U))
             v == Num(L(V))
             f == Num(M(A))
             g == Num(M(B))
  <2>6. p \in Nat /\ q \in Nat
    BY <1>4, PowPositive
  <2>7. Num(U) = u + f + p * 0 + q * z /\ Num(V) = v + g + p * 0 + q * j
    BY <1>6, <2>1, <2>2, <2>3
  <2>8. u \in Nat /\ v \in Nat /\ f \in Nat /\ g \in Nat
    BY <2>5
  <2>9. N = (u + f + p * 0 + q * z) + (v + g + p * 0 + q * j) /\ x = u + v /\ F = f + g
    BY <2>7
  <2> HIDE DEF p, q, u, v, f, g, N, x, F
  <2>10. q * (z + j) = q * z + q * j /\ z + j \in Int /\ q * z \in Nat /\ q * j \in Nat
    BY <2>6
  <2>11. N = x + F + p * 0 + q * (z + j)
    BY <2>6, <2>8, <2>9, <2>10
  <2> QED
    BY <2>10, <2>11 DEF p, q
<1>11. D = 0 + F + 2^c * e + 2^(c + 1) * 0
  <2>1. /\ Num(A \cap (l .. c)) = Num(M(A)) + 2^c * One(c \in A)
        /\ Num(B \cap (l .. c)) = Num(M(B)) + 2^c * One(c \in B)
    BY <1>4, <1>8, NumParts
  <2>2. M(A) \in SUBSET Bit /\ M(B) \in SUBSET Bit
    OBVIOUS
  <2> DEFINE p == 2^c
             f == Num(M(A))
             g == Num(M(B))
             z == One(c \in A)
             j == One(c \in B)
  <2> HIDE DEF M
  <2>3. f \in Nat /\ g \in Nat /\ p \in Nat /\ z \in {0, 1} /\ j \in {0, 1} /\ 2^(c + 1) \in Nat
    <3>1. Num(M(A)) \in Nat /\ Num(M(B)) \in Nat
      BY <1>8, <2>2, NumChosen
    <3>2. One(c \in A) \in {0, 1} /\ One(c \in B) \in {0, 1}
      BY DEF One
    <3>3. 2^c \in Nat /\ 2^(c + 1) \in Nat
      BY <1>4, PowPositive
    <3> QED
      BY <3>1, <3>2, <3>3
  <2>4. D = (f + p * z) + (g + p * j) /\ F = f + g /\ e = z + j
    BY <2>1
  <2> HIDE DEF f, g, p, z, j, D, F, e
  <2>5. D = F + p * e
    <3>1. p * e = p * z + p * j /\ p * z \in Int /\ p * j \in Int
      BY <2>3, <2>4
    <3> QED
      BY <2>3, <2>4, <3>1
  <2>6. F \in Int /\ p * e \in Int /\ 2^(c + 1) * 0 = 0
    BY <2>3, <2>4
  <2>7. D = 0 + F + p * e + 2^(c + 1) * 0
    BY <2>5, <2>6
  <2> QED
    BY <2>7 DEF p
<1>12. e \in Int /\ 0 \in 0 .. 2^l - 1
  BY <1>4, PowPositive DEF One
<1>13. F \in Int
  <2> DEFINE p == 2^l
  <2>1. PICK k \in Int : F = p * k
    BY <1>9 DEF Multiple
  <2>2. p \in Nat
    BY <1>4, PowType
  <2> HIDE DEF p, F
  <2> QED
    BY <2>1, <2>2
<1> HIDE DEF F, N, D, x, e
<1>14. BitAt(N, b) = IF b < c THEN BitAt(F, b) ELSE BitAt(F, c)
  <2> DEFINE zero == 0
  <2>1. x \in 0 .. 2^l - 1 /\ zero \in Int
    BY <1>7 DEF x
  <2>2. N = Sum(x, F, c, zero, h)
    BY <1>10 DEF Sum
  <2> HIDE DEF zero
  <2>3. BitAt(N, b) = IF b < c THEN BitAt(F, b) ELSE (BitAt(F, c) + zero) % 2
    BY <1>3, <1>4, <1>9, <2>1, <2>2, FieldBit
  <2>4. (BitAt(F, c) + zero) % 2 = BitAt(F, c)
    BY <1>4, <1>13, BitType DEF zero
  <2> QED
    BY <2>3, <2>4
<1>15. BitAt(D, b) = IF b < c THEN BitAt(F, b) ELSE (BitAt(F, c) + e) % 2
  <2> DEFINE zero == 0
  <2>1. zero \in 0 .. 2^l - 1 /\ zero \in Int
    BY <1>12
  <2>2. D = Sum(zero, F, c, e, zero)
    BY <1>11 DEF Sum
  <2> HIDE DEF zero
  <2> QED
    BY <1>3, <1>4, <1>9, <1>12, <2>1, <2>2, FieldBit
<1>16. b \in FieldAdd(A, B, mask) <=> BitAt(D, b) = 1
  <2>1. b \in FieldAdd(A, B, mask) <=> BitAt(Together(A, B, l, c), b) = 1
    BY <1>3, FieldSumBit
  <2> QED
    BY <2>1 DEF D, Together
<1>17. b \in Bits(Num(U) + Num(V)) <=> BitAt(N, b) = 1
  BY BitsAt DEF N
<1>18. CASE b < c
  <2>1. b \notin mask
    BY <1>3, <1>4, <1>18 DEF FieldIs
  <2>2. b \in AddSiteAddress(A, B, mask) <=> b \in Bits(Num(U) + Num(V))
    BY <2>1 DEF AddSiteAddress, Xor
  <2> QED
    BY <1>14, <1>15, <1>16, <1>17, <1>18, <2>2
<1>19. CASE b = c
  <2>1. b \in mask
    BY <1>19
  <2>2. b \in AddSiteAddress(A, B, mask) <=> ~(BitAt(N, b) = 1 <=> ~(b \in A <=> b \in B))
    <3>1. b \in AddSiteAddress(A, B, mask) <=> ~(b \in Bits(Num(U) + Num(V)) <=> ~(b \in A <=> b \in B))
      BY <2>1 DEF AddSiteAddress, Xor
    <3> QED
      BY <1>17, <3>1
  <2>3. BitAt(F, c) \in {0, 1}
    BY <1>4, <1>13, BitType
  <2>4. BitAt(N, b) = BitAt(F, c) /\ BitAt(D, b) = (BitAt(F, c) + e) % 2
    <3>1. ~(b < c)
      BY <1>4, <1>19
    <3> QED
      BY <1>14, <1>15, <3>1, Zenon
  <2>5. e = IF b \in A THEN IF b \in B THEN 2 ELSE 1 ELSE IF b \in B THEN 1 ELSE 0
    BY <1>19 DEF e, One
  <2> QED
    BY <1>16, <2>2, <2>3, <2>4, <2>5
<1> QED
  BY <1>4, <1>18, <1>19
-----------------------------------------------------------------------------
(* A word is a power of two; the plane holds a whole number of them.       *)
LEMMA WordFacts ==
  /\ WordLog \in Nat /\ WordLog >= 1 /\ WordLog < AddrBits /\ AddrBits \in Nat
  /\ W \in Nat /\ W >= 1 /\ W = 2^WordLog
  /\ 2^AddrBits \in Nat
  /\ \E e \in Nat \ {0} : 2^AddrBits = W * e
<1>1. WordLog \in Nat /\ WordLog >= 1 /\ WordLog < AddrBits /\ AddrBits \in Nat
  BY ScanAssumption, AddrBitsAssumption
<1>2. \E e \in Nat \ {0} : 2^AddrBits = 2^WordLog * e
  <2>1. WordLog <= AddrBits
    BY <1>1
  <2> QED
    BY <1>1, <2>1, PowSplit
<1> QED
  BY <1>1, <1>2, PowPositive DEF W

(* The masks cut the plane at its top; the lowest cut is that of X.        *)
LEMMA CutLow ==
  ASSUME NEW mask, IsCut(mask)
  PROVE  /\ DCMRLowBit(mask) \in 1 .. AddrBits
         /\ DCMRLowBit(mask) - 1 \in mask
         /\ \A d \in mask : DCMRLowBit(mask) <= d + 1
<1>1. mask \in SUBSET Nat /\ mask # {} /\ mask \subseteq Bit
  BY BitFinite DEF IsCut
<1>2. \E m \in mask : \A k \in mask : m <= k
  BY <1>1, LeastNat
<1>3. Min(mask) \in mask /\ \A k \in mask : Min(mask) <= k
  BY <1>2 DEF Min
<1>4. DCMRLowBit(mask) = Min(mask) + 1
  BY <1>1 DEF DCMRLowBit
<1>5. Min(mask) \in 0 .. AddrBits - 1
  BY <1>1, <1>3 DEF Bit
<1>6. \A d \in mask : d \in Nat
  BY <1>1
<1> HIDE DEF Min
<1> QED
  BY <1>3, <1>4, <1>5, <1>6, AddrBitsAssumption

(* The address of a word ends in zeroes.                                   *)
Aligned(a) == a \cap (0 .. WordLog - 1) = {}

(* An address that ends in zeroes is that of a whole word of the plane.    *)
LEMMA AlignedNum ==
  ASSUME NEW a \in SUBSET Bit, Aligned(a)
  PROVE  \E k \in Nat : Num(a) = W * k /\ Num(a) + W <= 2^AddrBits
<1>1. IsFiniteSet(a) /\ a \in SUBSET Nat
  BY BitFinite
<1>2. \A b \in a : WordLog <= b
  BY <1>1, WordFacts DEF Aligned
<1>3. PICK k \in Nat : Num(a) = W * k
  BY <1>1, <1>2, WordFacts, NumHigh
<1>4. PICK e \in Nat \ {0} : 2^AddrBits = W * e
  BY WordFacts
<1>5. Num(a) \in 0 .. 2^AddrBits - 1
  BY AddrBitsAssumption, NumBound DEF Bit
<1>6. W \in Nat /\ W >= 1
  BY WordFacts
<1>7. k < e
  <2> SUFFICES ASSUME e <= k PROVE FALSE
    OBVIOUS
  <2> HIDE DEF W
  <2>1. W * e <= W * k /\ W * e \in Nat /\ W * k \in Nat
    BY <1>6
  <2>2. W * k < W * e
    BY <1>3, <1>4, <1>5, <2>1
  <2> QED
    BY <2>1, <2>2
<1>8. W * k + W <= W * e
  <2> HIDE DEF W
  <2>1. k + 1 <= e
    BY <1>7
  <2>2. W * (k + 1) <= W * e /\ W * (k + 1) = W * k + W
    BY <1>6, <2>1
  <2> QED
    BY <2>2
<1> QED
  BY <1>3, <1>4, <1>8

(* A loaded word is one.                                                   *)
LEMMA LoadTyped ==
  ASSUME NEW p \in [Cells -> BOOLEAN], NEW a \in SUBSET Bit, Aligned(a)
  PROVE  Load(p, a) \in Words
<1>1. PICK k \in Nat : Num(a) = W * k /\ Num(a) + W <= 2^AddrBits
  BY AlignedNum
<1>2. Num(a) \in Nat
  BY BitFinite, NumChosen
<1> DEFINE n == Num(a)
<1>3. \A b \in 0 .. W - 1 : n + b \in Cells
  <2>1. n \in Nat /\ n + W <= 2^AddrBits /\ W \in Nat /\ 2^AddrBits \in Nat
    BY <1>1, <1>2, WordFacts
  <2> HIDE DEF n, W
  <2> QED
    BY <2>1 DEF Cells
<1> HIDE DEF n
<1>4. \A b \in 0 .. W - 1 : p[n + b] \in BOOLEAN
  BY <1>3
<1>5. Load(p, a) = [b \in 0 .. W - 1 |-> p[n + b]]
  BY DEF Load, n
<1> QED
  BY <1>4, <1>5 DEF Words

(* Shifting, merging and setting the bottom site leave a word.             *)
LEMMA WordsTyped ==
  ASSUME NEW v \in Words, NEW w \in Words, NEW k \in Nat, NEW x \in BOOLEAN
  PROVE  /\ Shl(w, k) \in Words /\ Shr(w, k) \in Words /\ Sar(w, k) \in Words
         /\ Or(v, w) \in Words /\ PutLow(w, x) \in Words
<1>1. W \in Nat /\ W >= 1
  BY WordFacts
<1> HIDE DEF W
<1>2. k % W \in 0 .. W - 1 /\ 0 \in 0 .. W - 1 /\ W - 1 \in 0 .. W - 1
  BY <1>1
<1>3. \A b \in 0 .. W - 1 : v[b] \in BOOLEAN /\ w[b] \in BOOLEAN
  BY DEF Words
<1>4. Shl(w, k) \in Words
  BY DEF Shl, Words
<1>5. Shr(w, k) \in Words
  BY DEF Shr, Words
<1>6. Sar(w, k) \in Words
  <2>1. \A b \in 0 .. W - 1 : b >= k % W => b - (k % W) \in 0 .. W - 1
    BY <1>1, <1>2
  <2>2. \A b \in 0 .. W - 1 : (IF b >= k % W THEN w[b - (k % W)] ELSE w[0]) \in BOOLEAN
    BY <1>2, <1>3, <2>1
  <2> QED
    BY <2>2 DEF Sar, Words
<1>7. Or(v, w) \in Words
  BY DEF Or, Words
<1>8. PutLow(w, x) \in Words
  BY <1>2, <1>3 DEF PutLow, Words
<1> QED
  BY <1>4, <1>5, <1>6, <1>7, <1>8

(* The next word is in the same row.                                       *)
LEMMA NextWordStays ==
  ASSUME NEW a \in SUBSET Bit, Aligned(a), numXBits \in 1 .. AddrBits, WordLog < numXBits
  PROVE  /\ NextWord(a) \in SUBSET Bit
         /\ Aligned(NextWord(a))
         /\ \A b \in Bit : numXBits <= b => (b \in NextWord(a) <=> b \in a)
<1> DEFINE t == numXBits - 1
           top == a \cap {t}
           R == a \ top
           L == R \cap (0 .. t)
           H == R \ (0 .. t)
           N == Num(R) + W
<1>1. t \in Nat /\ numXBits = t + 1 /\ WordLog <= t /\ t <= AddrBits - 1 /\ AddrBits \in Nat
  BY WordFacts
<1>2. top \in SUBSET Bit /\ R \in SUBSET Bit /\ L \in SUBSET Bit /\ H \in SUBSET Bit
  OBVIOUS
<1>3. IsFiniteSet(R) /\ IsFiniteSet(L) /\ IsFiniteSet(H) /\ R \in SUBSET Nat /\ L \in SUBSET Nat /\ H \in SUBSET Nat
  BY <1>2, BitFinite
<1>4. R = L \cup H /\ L \cap H = {} /\ L \in SUBSET (0 .. t - 1)
  BY <1>1, <1>3
<1>5. (\A b \in R : WordLog <= b) /\ (\A b \in L : WordLog <= b) /\ (\A b \in H : numXBits <= b)
  BY <1>1, <1>3, WordFacts DEF Aligned
<1>6. NextWord(a) = Xor(Bits(N), top)
  BY DEF NextWord
<1>7. \A b : b \in top => b = t
  OBVIOUS
<1>8. \A b \in Bit : b # t => (b \in R <=> b \in a)
  OBVIOUS
<1> HIDE DEF t, top, R, L, H
<1>9. \A b \in Bit : b # t => (b \in NextWord(a) <=> BitAt(N, b) = 1)
  BY <1>6, <1>7, BitsAt DEF Xor
<1>10. Bits(N) \subseteq Bit
  BY DEF Bits
<1>11. NextWord(a) \in SUBSET Bit
  BY <1>2, <1>6, <1>10 DEF Xor
<1>12. Num(R) = Num(L) + Num(H)
  BY <1>3, <1>4, NumUnion
<1>13. Num(R) \in Nat /\ Num(L) \in Nat /\ Num(H) \in Nat
  BY <1>3, NumChosen
<1>14. Aligned(NextWord(a))
  <2>1. PICK k \in Nat : Num(R) = 2^WordLog * k
    BY <1>3, <1>5, WordFacts, NumHigh
  <2> DEFINE h == k + 1
             p == 2^WordLog
  <2>2. p \in Nat /\ N = p * k + p
    BY <2>1, WordFacts DEF W
  <2> HIDE DEF p, N
  <2>3. N = p * h /\ h \in Int
    BY <2>2
  <2> HIDE DEF h
  <2>4. \A b \in 0 .. WordLog - 1 : BitAt(2^WordLog * h, b) = 0
    BY <2>3, WordFacts, BitMultiple
  <2>5. \A b \in 0 .. WordLog - 1 : b \in Bit /\ b # t
    BY <1>1, WordFacts DEF Bit
  <2>6. \A b \in 0 .. WordLog - 1 : b \notin NextWord(a)
    BY <1>9, <2>3, <2>4, <2>5 DEF p
  <2> QED
    BY <2>6 DEF Aligned
<1>15. \A b \in Bit : numXBits <= b => (b \in NextWord(a) <=> b \in a)
  <2> SUFFICES ASSUME NEW b \in Bit, numXBits <= b PROVE b \in NextWord(a) <=> b \in a
    OBVIOUS
  <2>1. b \in Nat /\ b # t /\ numXBits \in Nat
    BY <1>1, BitFinite
  <2>2. PICK j \in Nat : Num(H) = 2^numXBits * j
    BY <1>3, <1>5, <2>1, NumHigh
  <2>3. PICK k \in Nat : Num(L) = W * k
    BY <1>3, <1>5, WordFacts, NumHigh
  <2>4. PICK e \in Nat \ {0} : 2^t = W * e
    <3>1. WordLog \in Nat /\ t \in Nat /\ WordLog <= t
      BY <1>1, WordFacts
    <3>2. \E e \in Nat \ {0} : 2^t = 2^WordLog * e
      BY <3>1, PowSplit
    <3> QED
      BY <3>2 DEF W
  <2>5. Num(L) \in 0 .. 2^t - 1
    BY <1>1, <1>4, NumBound
  <2>6. W \in Nat /\ W >= 1 /\ 2^t \in Nat /\ 2^numXBits = 2 * 2^t
    BY <1>1, WordFacts, PowPositive
  <2> DEFINE x == Num(L) + W
  <2>7. x \in 0 .. 2^numXBits - 1
    <3>1. Num(L) + W <= 2^t
      <4> HIDE DEF W
      <4>1. k < e
        <5> SUFFICES ASSUME e <= k PROVE FALSE
          OBVIOUS
        <5>1. W * e <= W * k /\ W * e \in Nat /\ W * k \in Nat
          BY <2>6
        <5>2. W * k < W * e
          BY <2>3, <2>4, <2>5, <5>1
        <5> QED
          BY <5>1, <5>2
      <4>2. W * (k + 1) <= W * e /\ W * (k + 1) = W * k + W
        <5>1. k + 1 <= e
          BY <4>1
        <5> QED
          BY <2>6, <5>1
      <4> QED
        BY <2>3, <2>4, <4>2
    <3> HIDE DEF W
    <3> QED
      BY <1>13, <2>6, <3>1
  <2>8. N = 2^numXBits * j + x
    <3> HIDE DEF W
    <3> QED
      BY <1>12, <1>13, <2>2, <2>6
  <2> HIDE DEF x, N
  <2>9. BitAt(2^numXBits * j + x, b) = BitAt(2^numXBits * j, b)
    <3>1. j \in Int /\ b \in Nat
      BY <2>1
    <3> QED
      BY <2>1, <2>7, <3>1, BitLow
  <2>10. BitAt(Num(H), b) = IF b \in H THEN 1 ELSE 0
    BY <1>3, <2>1, NumBit
  <2>11. b \in H <=> b \in a
    <3>1. b \in H <=> b \in R
      BY <1>1, <2>1 DEF H
    <3> QED
      BY <1>8, <2>1, <3>1
  <2>12. b \in NextWord(a) <=> BitAt(N, b) = 1
    BY <1>9, <2>1
  <2> QED
    BY <2>2, <2>8, <2>9, <2>10, <2>11, <2>12
<1> QED
  BY <1>11, <1>14, <1>15

(* ALS is a bit, without which flipping it says little about the tables.   *)
TablesInv == als \in 0..1 /\ TablesApart

(* After any sequence of register writes, alternations and scans, the table*)
(* that scans look up is the one ALS names and the other one is written    *)
(* (HER and RMR in runTask).                                               *)
THEOREM TablesStayApart == Spec => []TablesApart
<1>1. Init => TablesInv
  BY DEF Init, TablesInv, TablesApart
<1>2. TablesInv /\ [Next]_vars => TablesInv'
  <2> SUFFICES ASSUME TablesInv, [Next]_vars PROVE TablesInv'
    OBVIOUS
  <2> USE DEF TablesInv, TablesApart
  <2>1. ASSUME NEW a \in 0..1, WriteHER(a) PROVE TablesInv'
    BY <2>1 DEF WriteHER
  <2>2. ASSUME NEW kick \in BOOLEAN, NEW alt \in BOOLEAN, NEW scan \in BOOLEAN,
               WriteRMR(kick, alt, scan)
        PROVE  TablesInv'
    BY <2>2 DEF WriteRMR, SwapTables
  <2>3. CASE UNCHANGED tables
    BY <2>3 DEF tables
  <2>4. ASSUME \/ \E c \in Cuts : WriteDR(c)
               \/ \E e \in Lengths : WriteSFR(e)
               \/ \E s \in Starts : WriteSIR(s)
               \/ \E r \in Rules : WriteDSR(r)
               \/ \E k \in Kicks : WriteKR(k)
        PROVE  UNCHANGED tables
    BY <2>4 DEF WriteDR, WriteSFR, WriteSIR, WriteDSR, WriteKR
  <2>5. ASSUME WriteSIOR \/ ReadSIOR \/ BeginSweep \/ UpdateSite \/ SaveLastWord \/ GeneralSite \/ EndScan
        PROVE  UNCHANGED tables
    BY <2>5 DEF WriteSIOR, ReadSIOR, BeginSweep, UpdateSite, SaveLastWord, GeneralSite, EndScan
  <2>6. CASE UNCHANGED vars
    BY <2>6, <2>3 DEF vars
  <2> QED
    BY <2>1, <2>2, <2>3, <2>4, <2>5, <2>6 DEF Next
<1>3. TablesInv => TablesApart
  BY DEF TablesInv
<1> QED
  BY <1>1, <1>2, <1>3, PTL DEF Spec
-----------------------------------------------------------------------------
(* What the scan's place says about its counters, and that a word's address*)
(* is one.                                                                 *)
ShapeInv ==
  /\ numXBits = DCMRLowBit(dcm)
  /\ Aligned(addr)
  /\ pc \in {"sweep", "site", "last"} => numXBits >= WordLog /\ xLen >= 1
  /\ pc \in {"sweep", "site", "last", "general"} => siteCtr >= 1
  /\ pc = "site" => xCtr >= 1

IInv == TypeOK /\ ShapeInv /\ KickInv

(* A machine that was set up satisfies the invariant.                      *)
LEMMA InitInv == Init => IInv
<1> SUFFICES ASSUME Init PROVE IInv
  OBVIOUS
<1>1. \A c \in Cuts : DCMRLowBit(c) \in 1 .. AddrBits
  BY CutLow, ScanAssumption
<1>2. sir \in Nat
  BY ScanAssumption, WordFacts DEF Init, Cells
<1>3. plane \in [Cells -> BOOLEAN]
  BY ScanAssumption DEF Init
<1>4. word \in Words /\ i \in 0 .. W - 1
  BY WordFacts DEF Init, Words
<1>5. shown \in Seq(BOOLEAN)
  BY DEF Init
<1>6. kicks \in 0 .. MaxKicks /\ scans \in 0 .. MaxScans
  BY ScanAssumption DEF Init
<1>7. TypeOK
  <2>1. /\ dcm \in Cuts /\ numXBits \in 1 .. AddrBits /\ osr \subseteq Bit /\ ka \subseteq Bit
        /\ esc \in Lengths /\ rule \in Rules /\ als \in 0 .. 1 /\ lior \in 0 .. 1 /\ lutAddr \in 0 .. 1
        /\ addr \subseteq Bit /\ ideal \subseteq Bit
    BY <1>1 DEF Init
  <2>2. /\ tpos \in Nat /\ eventCount \in Nat /\ siteCtr \in Nat /\ xLen \in Nat /\ xCtr \in Nat
        /\ unglue \in BOOLEAN /\ tbus \in BOOLEAN /\ disp \in BOOLEAN /\ reading \in BOOLEAN
        /\ smeared \in BOOLEAN /\ pc = "idle"
    BY DEF Init
  <2> QED
    BY <1>2, <1>3, <1>4, <1>5, <1>6, <2>1, <2>2 DEF TypeOK
<1>8. ShapeInv /\ KickInv
  BY DEF Init, ShapeInv, KickInv, Aligned
<1> QED
  BY <1>7, <1>8 DEF IInv

(* A kick leaves an offset.                                                *)
LEMMA KickTyped ==
  ASSUME NEW mask, IsCut(mask), NEW A \in SUBSET Bit, NEW B
  PROVE  DoKick(A, B, mask) \in SUBSET Bit
BY DEF DoKick, Xor, Bits, IsCut

(* A site address is one, and so is that of its word.                      *)
LEMMA SiteTyped ==
  ASSUME NEW mask, IsCut(mask), NEW A, NEW B
  PROVE  /\ AddSiteAddress(A, B, mask) \in SUBSET Bit
         /\ WordOf(AddSiteAddress(A, B, mask)) \in SUBSET Bit
         /\ Aligned(WordOf(AddSiteAddress(A, B, mask)))
<1>1. AddSiteAddress(A, B, mask) \in SUBSET Bit
  BY DEF AddSiteAddress, Xor, Bits, IsCut
<1>2. \A S : Aligned(WordOf(S))
  BY WordFacts DEF Aligned, WordOf
<1> QED
  BY <1>1, <1>2 DEF WordOf

(* The instructions that write a register.                                 *)
LEMMA RegisterStep ==
  ASSUME IInv,
         \/ \E c \in Cuts : WriteDR(c)
         \/ \E e \in Lengths : WriteSFR(e)
         \/ \E s \in Starts : WriteSIR(s)
         \/ \E r \in Rules : WriteDSR(r)
         \/ \E k \in Kicks : WriteKR(k)
         \/ \E a \in 0 .. 1 : WriteHER(a)
  PROVE  IInv'
<1> USE DEF IInv, registers, tables, sources, loop, history
<1>0. IsCut(dcm)
  BY ScanAssumption DEF TypeOK
<1>1. ASSUME NEW c \in Cuts, WriteDR(c) PROVE IInv'
  <2>1. numXBits' \in 1 .. AddrBits
    BY <1>1, CutLow, ScanAssumption DEF WriteDR
  <2>2. TypeOK'
    BY <1>1, <2>1 DEF WriteDR, TypeOK
  <2>3. ShapeInv' /\ KickInv'
    BY <1>1 DEF WriteDR, ShapeInv, KickInv
  <2> QED
    BY <2>2, <2>3
<1>2. ASSUME NEW e \in Lengths, WriteSFR(e) PROVE IInv'
  BY <1>2 DEF WriteSFR, TypeOK, ShapeInv, KickInv
<1>3. ASSUME NEW s \in Starts, WriteSIR(s) PROVE IInv'
  <2>1. sir' \in Nat
    BY <1>3, ScanAssumption, WordFacts DEF WriteSIR, Cells
  <2> QED
    BY <1>3, <2>1 DEF WriteSIR, TypeOK, ShapeInv, KickInv
<1>4. ASSUME NEW r \in Rules, WriteDSR(r) PROVE IInv'
  BY <1>4 DEF WriteDSR, TypeOK, ShapeInv, KickInv
<1>5. ASSUME NEW k \in Kicks, WriteKR(k) PROVE IInv'
  <2>1. k \in SUBSET Bit /\ osr \in SUBSET Bit
    BY ScanAssumption DEF TypeOK
  <2>2. osr' = DoKick(osr, k, dcm) /\ ideal' = FieldSub(osr, k, dcm)
    BY <1>5 DEF WriteKR, KickInv
  <2>3. KickInv' /\ osr' \in SUBSET Bit /\ ideal' \in SUBSET Bit
    BY <1>0, <2>1, <2>2, DoKickSubtracts, KickTyped DEF KickInv
  <2>4. kicks' \in 0 .. MaxKicks
    BY <1>5, ScanAssumption DEF WriteKR, TypeOK
  <2>5. TypeOK'
    BY <1>5, <2>1, <2>3, <2>4 DEF WriteKR, TypeOK
  <2>6. ShapeInv'
    BY <1>5 DEF WriteKR, ShapeInv
  <2> QED
    BY <2>3, <2>5, <2>6
<1>6. ASSUME NEW a \in 0 .. 1, WriteHER(a) PROVE IInv'
  BY <1>6 DEF WriteHER, TypeOK, ShapeInv, KickInv
<1> QED
  BY <1>1, <1>2, <1>3, <1>4, <1>5, <1>6

(* A scan that can sweep has a row to sweep and whole rows to do.          *)
LEMMA SweepBegins ==
  ASSUME TypeOK, NoPerm
  PROVE  /\ numXBits >= WordLog
         /\ 2^Min({esc, numXBits}) \div W \in Nat /\ 2^Min({esc, numXBits}) \div W >= 1
         /\ (2^Min({esc, numXBits}) \div W) * W = 2^Min({esc, numXBits})
         /\ ScanLength \div 2^numXBits \in Nat
         /\ esc >= numXBits => /\ ScanLength \div 2^numXBits >= 1
                              /\ (ScanLength \div 2^numXBits) * 2^numXBits = ScanLength
<1> DEFINE low == Min({esc, numXBits})
<1>1. esc \in 0 .. AddrBits /\ esc # WordLog - 1 /\ numXBits \in 1 .. AddrBits /\ sir \in Nat
      /\ AddrBits \in Nat /\ WordLog \in Nat
  BY ScanAssumption, WordFacts DEF TypeOK
<1>2. esc >= WordLog /\ numXBits >= WordLog /\ sir % 2^low = 0
  BY <1>1 DEF NoPerm
<1>3. low \in {esc, numXBits} /\ low <= esc /\ low <= numXBits
  <2>1. \E m \in {esc, numXBits} : \A k \in {esc, numXBits} : m <= k
    BY <1>1
  <2> QED
    BY <2>1 DEF Min
<1> HIDE DEF low
<1>4. low \in Nat /\ WordLog <= low /\ esc \in Nat /\ numXBits \in Nat
  BY <1>1, <1>2, <1>3
<1>5. PICK e \in Nat \ {0} : 2^low = W * e
  <2>1. \E e \in Nat \ {0} : 2^low = 2^WordLog * e
    BY <1>1, <1>4, PowSplit
  <2> QED
    BY <2>1 DEF W
<1>6. 2^low \div W \in Nat /\ 2^low \div W >= 1 /\ (2^low \div W) * W = 2^low
  <2>1. W \in Nat \ {0}
    BY WordFacts
  <2> HIDE DEF W
  <2>2. 2^low = W * e + 0 /\ 2^low \in Int /\ 0 \in 0 .. W - 1
    BY <1>5, <2>1
  <2>3. 2^low \div W = e
    BY <1>5, <2>1, <2>2, DivUnique
  <2>4. e * W = W * e
    BY <1>5, <2>1
  <2> QED
    BY <1>5, <2>3, <2>4
<1> DEFINE p == 2^esc
           q == 2^numXBits
           n == sir % p
<1>7. p \in Nat \ {0} /\ q \in Nat \ {0} /\ ScanLength = p - n
  BY <1>4, PowType DEF ScanLength
<1>8. n \in 0 .. p - 1
  <2> HIDE DEF p
  <2> QED
    BY <1>1, <1>7, DivMod
<1>9. ScanLength \div q \in Nat
  <2> DEFINE m == ScanLength
  <2>1. m \in Nat
    BY <1>7, <1>8
  <2> HIDE DEF m, q, p, n
  <2>2. m \div q \in Nat
    BY <1>7, <2>1
  <2> QED
    BY <2>2 DEF m
<1>10. esc >= numXBits => ScanLength \div q >= 1 /\ (ScanLength \div q) * q = ScanLength
  <2> SUFFICES ASSUME esc >= numXBits
               PROVE  ScanLength \div q >= 1 /\ (ScanLength \div q) * q = ScanLength
    OBVIOUS
  <2>1. low = numXBits
    BY <1>1, <1>3
  <2>2. PICK f \in Nat \ {0} : p = q * f
    <3>1. numXBits <= esc
      BY <1>4
    <3> QED
      BY <1>4, <3>1, PowSplit
  <2>3. sir % q = 0
    BY <1>2, <2>1
  <2> DEFINE g == sir \div p
             h == sir \div q
             m == ScanLength
             j == h - f * g
             z == f - j
  <2>4. g \in Int /\ sir = p * g + n
    <3> HIDE DEF p
    <3> QED
      BY <1>1, <1>7, DivMod
  <2>5. h \in Int /\ sir = q * h
    <3> HIDE DEF q
    <3> HIDE DEF q, p, n, m, g, j, z
    <3>0. sir \in Int /\ q \in Nat \ {0}
      BY <1>1, <1>7
    <3>1. h \in Int /\ sir = q * h + (sir % q)
      BY <3>0
    <3> QED
      BY <1>7, <2>3, <3>1
  <2> HIDE DEF p, q, n, g, h
  <2>6. j \in Int /\ n = q * j
    <3>1. p * g = q * (f * g)
      BY <1>7, <2>2, <2>4
    <3>2. q * (h - f * g) = q * h - q * (f * g)
      BY <1>7, <2>4, <2>5
    <3> QED
      BY <1>7, <1>8, <2>4, <2>5, <3>1, <3>2
  <2> HIDE DEF j
  <2>7. z \in Int /\ m = q * z + 0
    <3>1. q * (f - j) = q * f - q * j
      BY <1>7, <2>6
    <3> QED
      BY <1>7, <2>2, <2>6, <3>1
  <2>8. m \in Int /\ m > 0 /\ 0 \in 0 .. q - 1
    BY <1>7, <1>8
  <2> HIDE DEF z, m
  <2>9. m \div q = z
    BY <1>7, <2>7, <2>8, DivUnique
  <2>10. z >= 1
    <3> SUFFICES ASSUME z <= 0 PROVE FALSE
      BY <2>7
    <3>1. q * z <= 0
      BY <1>7, <2>7
    <3>2. q * z \in Int
      BY <1>7, <2>7
    <3> QED
      BY <2>7, <2>8, <3>1, <3>2
  <2>11. z * q = m
    BY <1>7, <2>7, <2>8
  <2> QED
    BY <2>9, <2>10, <2>11 DEF m
<1> QED
  BY <1>2, <1>6, <1>9, <1>10 DEF low, q

(* A scan always covers a site.                                            *)
LEMMA GeneralBegins ==
  ASSUME TypeOK
  PROVE  ScanLength \in Nat /\ ScanLength >= 1
<1> DEFINE p == 2^esc
<1>1. esc \in Nat /\ sir \in Nat
  BY ScanAssumption, AddrBitsAssumption DEF TypeOK
<1>2. p \in Nat \ {0} /\ ScanLength = p - (sir % p)
  BY <1>1, PowType DEF ScanLength
<1> HIDE DEF p
<1>3. sir % p \in 0 .. p - 1
  BY <1>1, <1>2, DivMod
<1> QED
  BY <1>2, <1>3

(* A scan sets out with counters that are not 0.                           *)
LEMMA SimExecScanTyped ==
  ASSUME IInv, NEW read \in BOOLEAN, SimExecScan(read)
  PROVE  /\ scans' \in 0 .. MaxScans /\ reading' \in BOOLEAN /\ shown' \in Seq(BOOLEAN)
         /\ siteCtr' \in Nat /\ xLen' \in Nat /\ pc' \in {"sweep", "general", "done"}
         /\ pc' = "sweep" => numXBits >= WordLog /\ xLen' >= 1
         /\ pc' \in {"sweep", "general"} => siteCtr' >= 1
<1>1. TypeOK /\ numXBits \in Nat /\ esc \in Nat
  BY ScanAssumption, AddrBitsAssumption DEF IInv, TypeOK
<1>2. scans' \in 0 .. MaxScans /\ reading' \in BOOLEAN /\ shown' \in Seq(BOOLEAN)
  <2>1. scans' = scans + 1 /\ scans < MaxScans /\ reading' = read /\ shown' = <<>>
    BY DEF SimExecScan
  <2> QED
    BY <1>1, <2>1, ScanAssumption DEF TypeOK
<1>3. CASE NoPerm
  <2>1. /\ siteCtr' = IF esc < numXBits THEN 1 ELSE ScanLength \div 2^numXBits
        /\ xLen' = 2^Min({esc, numXBits}) \div W
        /\ pc' = IF PlaneUsed THEN "sweep" ELSE "done"
    BY <1>3 DEF SimExecScan, SimScanNoPerm
  <2>2. siteCtr' \in Nat /\ siteCtr' >= 1
    BY <1>1, <1>3, <2>1, SweepBegins
  <2>3. xLen' \in Nat /\ xLen' >= 1 /\ numXBits >= WordLog
    BY <1>1, <1>3, <2>1, SweepBegins
  <2> QED
    BY <1>2, <2>1, <2>2, <2>3
<1>4. CASE ~NoPerm
  <2>1. /\ siteCtr' = ScanLength /\ xLen' = xLen
        /\ pc' = IF PlaneUsed THEN "general" ELSE "done"
    BY <1>4 DEF SimExecScan, SimGeneralScan
  <2>2. siteCtr' \in Nat /\ siteCtr' >= 1
    BY <1>1, <2>1, GeneralBegins
  <2>3. xLen' \in Nat
    BY <1>1, <2>1 DEF TypeOK
  <2> QED
    BY <1>2, <2>1, <2>2, <2>3
<1> QED
  BY <1>3, <1>4

(* Writing a word back gives a plane again.                                *)
LEMMA StoreTyped ==
  ASSUME TypeOK, NEW a \in SUBSET Bit, NEW w \in Words
  PROVE  Store(a, w) \in [Cells -> BOOLEAN]
<1> DEFINE n == Num(a)
<1>1. \A c \in Cells : (IF c - n \in 0 .. W - 1 THEN w[c - n] ELSE plane[c]) \in BOOLEAN
  BY DEF TypeOK, Words
<1> QED
  BY <1>1 DEF Store

(* A site update leaves a word.                                            *)
LEMMA UpdatedTyped ==
  ASSUME NEW w \in Words
  PROVE  Updated(w) \in Words
<1> DEFINE x == MapFunction(rule.sdm, w[0], Source(w))
           one == 1
<1>1. x \in BOOLEAN
  BY DEF MapFunction
<1>2. one \in Nat
  OBVIOUS
<1> HIDE DEF x, one
<1>3. Shl(w, one) \in Words
  BY <1>1, <1>2, WordsTyped
<1>4. PutLow(w, x) \in Words /\ PutLow(Shl(w, one), x) \in Words
  BY <1>1, <1>2, <1>3, WordsTyped
<1> QED
  BY <1>3, <1>4 DEF Updated, x, one

(* What a site update does besides the plane.                              *)
LEMMA UpdateTyped ==
  ASSUME TypeOK, NEW w \in Words, SimUpdateSite(w)
  PROVE  /\ tbus' \in BOOLEAN /\ unglue' \in BOOLEAN /\ disp' \in BOOLEAN
         /\ tpos' \in Nat /\ eventCount' \in Nat /\ shown' \in Seq(BOOLEAN)
<1>1. w[0] \in BOOLEAN
  <2>1. 0 \in 0 .. W - 1
    BY WordFacts
  <2> QED
    BY <2>1 DEF Words
<1>2. Unglued(w) \in BOOLEAN /\ Tbus \in BOOLEAN
  <2>1. unglue \in BOOLEAN /\ tbus \in BOOLEAN /\ (tpos \in Host) \in BOOLEAN
    BY DEF TypeOK
  <2>2. Unglued(w) \in BOOLEAN
    BY <1>1, <2>1, Zenon DEF Unglued
  <2>3. Tbus \in BOOLEAN
    BY <2>1, Zenon DEF Tbus
  <2> QED
    BY <2>2, <2>3
<1>3. tbus' \in BOOLEAN /\ unglue' \in BOOLEAN /\ disp' \in BOOLEAN
  BY <1>2 DEF SimUpdateSite, TypeOK
<1>4. tpos' \in Nat /\ eventCount' \in Nat
  BY DEF SimUpdateSite, TypeOK
<1>5. shown' \in Seq(BOOLEAN)
  <2>1. shown \in Seq(BOOLEAN) /\ shown' \in {shown, Append(shown, disp')}
    BY DEF SimUpdateSite, TypeOK
  <2> QED
    BY <1>3, <2>1
<1> QED
  BY <1>3, <1>4, <1>5

(* The instructions that scan or may scan.                                 *)
LEMMA ExecuteStep ==
  ASSUME IInv,
         \/ \E kick, alt, scan \in BOOLEAN : WriteRMR(kick, alt, scan)
         \/ WriteSIOR \/ ReadSIOR
  PROVE  IInv'
<1>0. TypeOK /\ ShapeInv /\ KickInv
  BY DEF IInv
<1>1. IsCut(dcm)
  BY <1>0, ScanAssumption DEF TypeOK
<1>2. ASSUME NEW kick \in BOOLEAN, NEW alt \in BOOLEAN, NEW scan \in BOOLEAN, WriteRMR(kick, alt, scan)
      PROVE  IInv'
  <2>1. kicks' \in 0 .. MaxKicks /\ osr' \in SUBSET Bit /\ ideal' \in SUBSET Bit /\ KickInv'
    <3>1. CASE kick
      <4>1. ka \in SUBSET Bit /\ osr \in SUBSET Bit
        BY <1>0 DEF TypeOK
      <4>2. osr' = DoKick(osr, ka, dcm) /\ ideal' = FieldSub(osr, ka, dcm) /\ kicks' = kicks + 1 /\ kicks < MaxKicks
        BY <1>0, <1>2, <3>1 DEF WriteRMR, KickInv
      <4>3. KickInv' /\ osr' \in SUBSET Bit /\ ideal' \in SUBSET Bit
        BY <1>1, <4>1, <4>2, DoKickSubtracts, KickTyped DEF KickInv
      <4>4. kicks' \in 0 .. MaxKicks
        BY <1>0, <4>2, ScanAssumption DEF TypeOK
      <4> QED
        BY <4>3, <4>4
    <3>2. CASE ~kick
      BY <1>0, <1>2, <3>2 DEF WriteRMR, TypeOK, KickInv
    <3> QED
      BY <3>1, <3>2
  <2>2. als' \in 0 .. 1 /\ lior' \in 0 .. 1 /\ lutAddr' \in 0 .. 1
    BY <1>0, <1>2 DEF WriteRMR, SwapTables, TypeOK
  <2>3. UNCHANGED <<dcm, numXBits, ka, esc, rule, tpos>>
    BY <1>2 DEF WriteRMR
  <2>4. CASE scan
    <3>1. SimExecScan(FALSE) /\ UNCHANGED <<eventCount, unglue, tbus, disp, xCtr, i, addr, word, sir, plane, smeared>>
      BY <1>2, <2>4 DEF WriteRMR, SimExecScan
    <3>2. /\ scans' \in 0 .. MaxScans /\ reading' \in BOOLEAN /\ shown' \in Seq(BOOLEAN)
          /\ siteCtr' \in Nat /\ xLen' \in Nat /\ pc' \in {"sweep", "general", "done"}
          /\ pc' = "sweep" => numXBits >= WordLog /\ xLen' >= 1
          /\ pc' \in {"sweep", "general"} => siteCtr' >= 1
      BY <3>1, SimExecScanTyped
    <3>3. TypeOK'
      BY <1>0, <2>1, <2>2, <2>3, <3>1, <3>2 DEF TypeOK
    <3>4. ShapeInv'
      BY <1>0, <2>3, <3>1, <3>2 DEF ShapeInv, Aligned
    <3> QED
      BY <2>1, <3>3, <3>4 DEF IInv
  <2>5. CASE ~scan
    <3>1. reading' = FALSE /\ UNCHANGED <<scans, start, eventCount, unglue, tbus, disp, shown, loop, sir, plane, pc, smeared>>
      BY <1>2, <2>5 DEF WriteRMR
    <3>2. TypeOK'
      BY <1>0, <2>1, <2>2, <2>3, <3>1 DEF TypeOK, loop
    <3>3. ShapeInv'
      BY <1>0, <2>3, <3>1 DEF ShapeInv, Aligned, loop
    <3> QED
      BY <2>1, <3>2, <3>3 DEF IInv
  <2> QED
    BY <2>4, <2>5
<1>3. ASSUME NEW read \in BOOLEAN, tpos' \in Nat, SimExecScan(read), UNCHANGED <<registers, tables, kicks, ideal>>
      PROVE  IInv'
  <2>1. UNCHANGED <<eventCount, unglue, tbus, disp, xCtr, i, addr, word, sir, plane, smeared>>
    BY <1>3 DEF SimExecScan
  <2>2. /\ scans' \in 0 .. MaxScans /\ reading' \in BOOLEAN /\ shown' \in Seq(BOOLEAN)
        /\ siteCtr' \in Nat /\ xLen' \in Nat /\ pc' \in {"sweep", "general", "done"}
        /\ pc' = "sweep" => numXBits >= WordLog /\ xLen' >= 1
        /\ pc' \in {"sweep", "general"} => siteCtr' >= 1
    BY <1>3, SimExecScanTyped
  <2>3. TypeOK'
    BY <1>0, <1>3, <2>1, <2>2 DEF TypeOK, registers, tables
  <2>4. ShapeInv' /\ KickInv'
    BY <1>0, <1>3, <2>1, <2>2 DEF ShapeInv, KickInv, Aligned, registers, tables
  <2> QED
    BY <2>3, <2>4 DEF IInv
<1>4. ASSUME WriteSIOR PROVE IInv'
  <2>1. tpos' \in Nat /\ SimExecScan(FALSE) /\ UNCHANGED <<registers, tables, kicks, ideal>>
    BY <1>4 DEF WriteSIOR
  <2> QED
    BY <1>3, <2>1
<1>5. ASSUME ReadSIOR PROVE IInv'
  <2>1. tpos' \in Nat /\ SimExecScan(TRUE) /\ UNCHANGED <<registers, tables, kicks, ideal>>
    BY <1>0, <1>5 DEF ReadSIOR, TypeOK
  <2> QED
    BY <1>3, <2>1
<1> QED
  BY <1>2, <1>4, <1>5

(* The place of a sweep, between its sites and between its words.          *)
LEMMA SweepStep ==
  ASSUME IInv, BeginSweep \/ UpdateSite \/ SaveLastWord
  PROVE  IInv'
<1>0. TypeOK /\ ShapeInv /\ KickInv
  BY DEF IInv
<1>1. IsCut(dcm) /\ W \in Nat /\ W >= 1
  BY <1>0, ScanAssumption, WordFacts DEF TypeOK
<1>2. ASSUME BeginSweep PROVE IInv'
  <2> DEFINE off == BitOffset(osr)
             back == W - off
             first == WordOf(AddSiteAddress(Bits(sir), osr, dcm))
             w == Load(plane, first)
  <2>1. first \in SUBSET Bit /\ Aligned(first)
    BY <1>1, SiteTyped
  <2>2. off \in Nat /\ back \in Nat
    <3>1. osr \in SUBSET Nat /\ IsFiniteSet(osr)
      BY <1>0, BitFinite DEF TypeOK
    <3> DEFINE m == Num(osr)
    <3>2. m \in Nat
      BY <3>1, NumChosen
    <3> HIDE DEF m
    <3>3. m % W \in 0 .. W - 1
      BY <1>1, <3>2
    <3> QED
      BY <1>1, <3>3 DEF BitOffset, m
  <2>3. w \in Words
    BY <1>0, <2>1, LoadTyped DEF TypeOK
  <2>4. /\ addr' = first
        /\ word' = IF off = 0 THEN w ELSE Rotated(w, off)
        /\ smeared' = (smeared \/ (off # 0 /\ Smears(w, W - off)))
        /\ xCtr' = xLen /\ i' = 0 /\ pc' = "site" /\ pc = "sweep"
        /\ UNCHANGED <<registers, tables, sources, history, siteCtr, xLen, sir, plane, reading>>
    BY <1>2, Zenon DEF BeginSweep
  <2> HIDE DEF off, first, w, back
  <2>5. Rotated(w, off) \in Words
    <3>1. Shl(w, off) \in Words /\ Sar(w, back) \in Words
      BY <2>2, <2>3, WordsTyped
    <3> QED
      BY <3>1, <2>2, WordsTyped DEF Rotated, back
  <2>6. word' \in Words /\ smeared' \in BOOLEAN /\ i' \in 0 .. W - 1
    BY <1>0, <1>1, <2>3, <2>4, <2>5 DEF TypeOK
  <2>7. TypeOK'
    BY <1>0, <2>1, <2>4, <2>6 DEF TypeOK, registers, tables, sources, history
  <2>8. ShapeInv' /\ KickInv'
    BY <1>0, <2>1, <2>4 DEF ShapeInv, KickInv, TypeOK, Aligned, registers, history
  <2> QED
    BY <2>7, <2>8 DEF IInv
<1>3. ASSUME UpdateSite PROVE IInv'
  <2>1. pc = "site" /\ xCtr >= 1 /\ SimUpdateSite(word)
        /\ i' = (i + 1) % W
        /\ xCtr' = (IF i = W - 1 THEN xCtr - 1 ELSE xCtr)
        /\ pc' = (IF i = W - 1 /\ xCtr = 1 THEN "last" ELSE "site")
        /\ UNCHANGED <<registers, tables, history, siteCtr, xLen, sir, reading, smeared>>
    BY <1>0, <1>3 DEF UpdateSite, ShapeInv
  <2>2. word \in Words /\ addr \in SUBSET Bit /\ Aligned(addr) /\ plane \in [Cells -> BOOLEAN]
    BY <1>0 DEF TypeOK, ShapeInv
  <2>3. Updated(word) \in Words
    BY <2>2, UpdatedTyped
  <2>4. plane' \in [Cells -> BOOLEAN]
    <3>1. Store(addr, Updated(word)) \in [Cells -> BOOLEAN]
      BY <1>0, <2>2, <2>3, StoreTyped
    <3>2. plane' \in {plane, Store(addr, Updated(word))}
      BY <1>3, Zenon DEF UpdateSite
    <3> QED
      BY <2>2, <3>1, <3>2
  <2>5. addr' \in SUBSET Bit /\ Aligned(addr')
    <3>1. addr' = addr \/ (numXBits > WordLog /\ addr' = NextWord(addr))
      BY <1>3, Zenon DEF UpdateSite
    <3>2. numXBits \in 1 .. AddrBits
      BY <1>0 DEF TypeOK
    <3>3. CASE numXBits > WordLog /\ addr' = NextWord(addr)
      <4>1. WordLog < numXBits
        BY <3>2, <3>3, WordFacts
      <4> QED
        BY <2>2, <3>2, <3>3, <4>1, NextWordStays
    <3> QED
      BY <2>2, <3>1, <3>3
  <2>6. word' \in Words
    <3>1. word' = Load(plane', addr') \/ word' = Updated(word)
      BY <1>3, Zenon DEF UpdateSite
    <3>2. Load(plane', addr') \in Words
      BY <2>4, <2>5, LoadTyped
    <3> QED
      BY <2>3, <3>1, <3>2
  <2>7. i' \in 0 .. W - 1 /\ xCtr' \in Nat /\ (pc' = "site" => xCtr' >= 1)
    <3>1. i \in Nat /\ xCtr \in Nat
      BY <1>0, <1>1 DEF TypeOK
    <3> HIDE DEF W
    <3> QED
      BY <1>1, <2>1, <3>1
  <2>8. /\ tbus' \in BOOLEAN /\ unglue' \in BOOLEAN /\ disp' \in BOOLEAN
        /\ tpos' \in Nat /\ eventCount' \in Nat /\ shown' \in Seq(BOOLEAN)
    BY <1>0, <2>1, <2>2, UpdateTyped
  <2>9. TypeOK'
    BY <1>0, <2>1, <2>4, <2>5, <2>6, <2>7, <2>8 DEF TypeOK, registers, tables, history
  <2>10. ShapeInv' /\ KickInv'
    BY <1>0, <2>1, <2>5, <2>7 DEF ShapeInv, KickInv, Aligned, registers, history
  <2> QED
    BY <2>9, <2>10 DEF IInv
<1>4. ASSUME SaveLastWord PROVE IInv'
  <2> DEFINE off == BitOffset(osr)
             back == W - off
             v == Shl(word, back)
             u == Sar(word, off)
  <2>1. pc = "last" /\ siteCtr >= 1 /\ xLen >= 1 /\ numXBits >= WordLog
    BY <1>0, <1>4 DEF SaveLastWord, ShapeInv
  <2>2. /\ sir' = sir + xLen * W
        /\ siteCtr' = siteCtr - 1
        /\ pc' = (IF siteCtr = 1 THEN "done" ELSE "sweep")
        /\ UNCHANGED <<registers, tables, sources, history, xLen, xCtr, i, addr, word, reading>>
    BY <1>4, Zenon DEF SaveLastWord
  <2>3. \/ plane' = Store(addr, Or(v, u)) /\ smeared' = (smeared \/ Smears(word, off))
        \/ plane' = plane /\ smeared' = smeared
    BY <1>4, Zenon DEF SaveLastWord
  <2>4. off \in Nat /\ back \in Nat
    <3>1. osr \in SUBSET Nat /\ IsFiniteSet(osr)
      BY <1>0, BitFinite DEF TypeOK
    <3> DEFINE m == Num(osr)
    <3>2. m \in Nat
      BY <3>1, NumChosen
    <3> HIDE DEF m
    <3>3. m % W \in 0 .. W - 1
      BY <1>1, <3>2
    <3> QED
      BY <1>1, <3>3 DEF BitOffset, m
  <2>5. Or(v, u) \in Words
    <3>1. word \in Words
      BY <1>0 DEF TypeOK
    <3> HIDE DEF off, back
    <3>2. v \in Words /\ u \in Words
      BY <2>4, <3>1, WordsTyped
    <3> HIDE DEF v, u
    <3> QED
      BY <2>4, <3>2, WordsTyped
  <2> HIDE DEF v, u
  <2>6. plane' \in [Cells -> BOOLEAN] /\ smeared' \in BOOLEAN
    <3>1. Store(addr, Or(v, u)) \in [Cells -> BOOLEAN]
      BY <1>0, <2>5, StoreTyped DEF TypeOK
    <3> QED
      BY <1>0, <2>3, <3>1 DEF TypeOK
  <2>7. sir' \in Nat
    <3>1. xLen \in Nat /\ sir \in Nat
      BY <1>0 DEF TypeOK
    <3> HIDE DEF W
    <3> QED
      BY <1>1, <2>2, <3>1
  <2>8. siteCtr' \in Nat /\ (pc' = "sweep" => siteCtr' >= 1)
    BY <1>0, <2>1, <2>2 DEF TypeOK
  <2>9. TypeOK'
    BY <1>0, <2>2, <2>6, <2>7, <2>8 DEF TypeOK, registers, tables, sources, history
  <2>10. ShapeInv' /\ KickInv'
    BY <1>0, <2>1, <2>2, <2>8 DEF ShapeInv, KickInv, Aligned, registers, history
  <2> QED
    BY <2>9, <2>10 DEF IInv
<1> QED
  BY <1>2, <1>3, <1>4

(* A round of the general scan, and the end of a scan.                     *)
LEMMA GeneralStep ==
  ASSUME IInv, GeneralSite \/ EndScan
  PROVE  IInv'
<1>0. TypeOK /\ ShapeInv /\ KickInv
  BY DEF IInv
<1>1. IsCut(dcm) /\ W \in Nat /\ W >= 1
  BY <1>0, ScanAssumption, WordFacts DEF TypeOK
<1>2. ASSUME GeneralSite PROVE IInv'
  <2> DEFINE site == AddSiteAddress(Bits(sir), osr, dcm)
             off == BitOffset(site)
             back == W - off
             beyond == off + 1
             rest == W - 1 - off
             m == Load(plane, WordOf(site))
             l == Shl(m, off)
             r == Shr(m, back)
             w == IF IsDestUpdated \/ IsSrcNeeded("site") \/ IsSrcNeeded("glue") THEN Or(l, r) ELSE word
             n == Updated(w)
             right == Sar(n, beyond)
             left == Shl(n, rest)
  <2>1. site \in SUBSET Bit /\ WordOf(site) \in SUBSET Bit /\ Aligned(WordOf(site))
    BY <1>1, SiteTyped
  <2>2. off \in Nat /\ back \in Nat /\ beyond \in Nat /\ rest \in Nat
    <3>1. site \in SUBSET Nat /\ IsFiniteSet(site)
      BY <2>1, BitFinite
    <3> DEFINE k == Num(site)
    <3> HIDE DEF site
    <3>2. k \in Nat
      BY <3>1, NumChosen
    <3> HIDE DEF k
    <3>3. k % W \in 0 .. W - 1
      BY <1>1, <3>2
    <3> QED
      BY <1>1, <3>3 DEF BitOffset, k
  <2>3. /\ SimUpdateSite(w) /\ addr' = WordOf(site)
        /\ \/ word' = Or(right, left) /\ plane' = Store(addr', word') /\ smeared' = (smeared \/ Smears(n, off + 1))
           \/ word' = n /\ plane' = plane /\ smeared' = smeared
        /\ siteCtr' = siteCtr - 1 /\ pc = "general"
        /\ pc' = (IF siteCtr = 1 THEN "done" ELSE "general")
        /\ UNCHANGED <<registers, tables, history, xLen, xCtr, i, sir, reading>>
    BY <1>2, Zenon DEF GeneralSite
  <2>4. m \in Words
    <3> HIDE DEF site
    <3> QED
      BY <1>0, <2>1, LoadTyped DEF TypeOK
  <2> HIDE DEF m, off, back, beyond, rest, site
  <2>5. l \in Words /\ r \in Words
    BY <2>2, <2>4, WordsTyped
  <2> HIDE DEF l, r
  <2>6. w \in Words
    <3>1. Or(l, r) \in Words
      BY <2>2, <2>5, WordsTyped
    <3> QED
      BY <1>0, <3>1 DEF TypeOK
  <2> HIDE DEF w
  <2>7. n \in Words
    BY <2>6, UpdatedTyped
  <2> HIDE DEF n
  <2>8. right \in Words /\ left \in Words
    BY <2>2, <2>7, WordsTyped
  <2> HIDE DEF right, left
  <2>9. Or(right, left) \in Words
    BY <2>2, <2>8, WordsTyped
  <2>10. word' \in Words
    BY <2>3, <2>7, <2>9
  <2>11. addr' \in SUBSET Bit /\ Aligned(addr')
    BY <2>1, <2>3
  <2>12. plane' \in [Cells -> BOOLEAN] /\ smeared' \in BOOLEAN
    <3>1. Store(addr', word') \in [Cells -> BOOLEAN]
      BY <1>0, <2>10, <2>11, StoreTyped
    <3> QED
      BY <1>0, <2>3, <3>1 DEF TypeOK
  <2>13. siteCtr' \in Nat /\ (pc' = "general" => siteCtr' >= 1)
    BY <1>0, <2>3 DEF TypeOK, ShapeInv
  <2>14. /\ tbus' \in BOOLEAN /\ unglue' \in BOOLEAN /\ disp' \in BOOLEAN
         /\ tpos' \in Nat /\ eventCount' \in Nat /\ shown' \in Seq(BOOLEAN)
    BY <1>0, <2>3, <2>6, UpdateTyped
  <2>15. TypeOK'
    BY <1>0, <2>3, <2>10, <2>11, <2>12, <2>13, <2>14 DEF TypeOK, registers, tables, history
  <2>16. ShapeInv' /\ KickInv'
    BY <1>0, <2>3, <2>11, <2>13 DEF ShapeInv, KickInv, Aligned, registers, history
  <2> QED
    BY <2>15, <2>16 DEF IInv
<1>3. ASSUME EndScan PROVE IInv'
  <2>1. shown' \in Seq(BOOLEAN)
    BY <1>3 DEF EndScan
  <2>2. TypeOK'
    BY <1>0, <1>3, <2>1 DEF EndScan, TypeOK, registers, tables, loop
  <2>3. ShapeInv' /\ KickInv'
    BY <1>0, <1>3 DEF EndScan, ShapeInv, KickInv, Aligned, registers, loop
  <2> QED
    BY <2>2, <2>3 DEF IInv
<1> QED
  BY <1>2, <1>3

(* Every step preserves the invariant.                                     *)
LEMMA StepInv == ASSUME IInv, [Next]_vars PROVE IInv'
<1>1. CASE UNCHANGED vars
  BY <1>1 DEF IInv, TypeOK, ShapeInv, KickInv, Aligned, vars, registers, tables, sources, loop, history
<1>2. CASE Next
  BY <1>2, RegisterStep, ExecuteStep, SweepStep, GeneralStep DEF Next
<1> QED
  BY <1>1, <1>2

(* The invariant: types, counters that fit the scan's place, offsets.      *)
THEOREM SpecInv == Spec => []IInv
<1>1. Init => IInv
  BY InitInv
<1>2. IInv /\ [Next]_vars => IInv'
  BY StepInv
<1> QED
  BY <1>1, <1>2, PTL DEF Spec

(* Every variable of the scan keeps its type: the indices stay inside the  *)
(* word, the addresses inside the plane.                                   *)
THEOREM ScanTyped == Spec => []TypeOK
<1>1. IInv => TypeOK
  BY DEF IInv
<1> QED
  BY <1>1, SpecInv, PTL

(* DoKick's inversions and its exclusive or subtract the kick field by     *)
(* field: after any number of kicks every offset is the sum of the kicks   *)
(* of its own dimension, for any mask.                                     *)
THEOREM KicksAddUp == Spec => []KickInv
<1>1. IInv => KickInv
  BY DEF IInv
<1> QED
  BY <1>1, SpecInv, PTL

(* A site update that crosses a word boundary stays in the row.            *)
LEMMA RowStep == ASSUME IInv, RowKept, [Next]_vars PROVE RowKept'
<1> DEFINE x == 0 .. numXBits - 1
<1>0. TypeOK /\ ShapeInv
  BY DEF IInv
<1>1. IsCut(dcm) /\ numXBits \in 1 .. AddrBits
  BY <1>0, ScanAssumption DEF TypeOK
<1>2. CASE BeginSweep
  <2> DEFINE site == AddSiteAddress(Bits(sir), osr, dcm)
  <2>1. addr' = WordOf(site) /\ UNCHANGED <<sir, osr, dcm, numXBits>> /\ numXBits >= WordLog
    BY <1>0, <1>2 DEF BeginSweep, registers, ShapeInv
  <2>2. site \in SUBSET Nat
    BY <1>1, SiteTyped, BitFinite
  <2> HIDE DEF site
  <2>3. WordOf(site) \ x = site \ x
    <3>1. \A b \in Nat : b < WordLog => b \in x
      BY <1>1, <2>1, WordFacts
    <3>2. \A b \in site : b \in Nat /\ (b >= WordLog \/ b < WordLog)
      BY <2>2, WordFacts
    <3> HIDE DEF x
    <3> QED
      BY <3>1, <3>2 DEF WordOf
  <2> QED
    BY <2>1, <2>3 DEF RowKept, site
<1>3. CASE UpdateSite
  <2>1. UNCHANGED <<sir, osr, dcm, numXBits>> /\ pc = "site"
    BY <1>3 DEF UpdateSite, registers
  <2>2. addr' \ x = addr \ x
    <3>1. addr' = addr \/ (numXBits > WordLog /\ addr' = NextWord(addr))
      BY <1>3, Zenon DEF UpdateSite
    <3>2. CASE numXBits > WordLog /\ addr' = NextWord(addr)
      <4>1. WordLog < numXBits /\ addr \in SUBSET Bit /\ Aligned(addr)
        BY <1>0, <1>1, <3>2, WordFacts DEF TypeOK, ShapeInv
      <4>2. addr' \in SUBSET Bit /\ \A b \in Bit : numXBits <= b => (b \in addr' <=> b \in addr)
        BY <1>1, <3>2, <4>1, NextWordStays
      <4>3. \A b \in Bit : b \notin x <=> numXBits <= b
        BY <1>1, BitFinite
      <4> HIDE DEF x
      <4> QED
        BY <4>1, <4>2, <4>3
    <3> QED
      BY <3>1, <3>2
  <2> QED
    BY <2>1, <2>2 DEF RowKept
<1>4. CASE pc' \notin {"site", "last"}
  BY <1>4 DEF RowKept
<1>5. CASE UNCHANGED vars
  BY <1>5 DEF RowKept, vars, registers, loop
<1>6. ASSUME Next, ~BeginSweep, ~UpdateSite, pc' \in {"site", "last"} PROVE FALSE
  BY <1>6 DEF Next, WriteDR, WriteSFR, WriteSIR, WriteDSR, WriteKR, WriteHER, WriteRMR, WriteSIOR, ReadSIOR,
     SimExecScan, SaveLastWord, GeneralSite, EndScan
<1> QED
  BY <1>2, <1>3, <1>4, <1>5, <1>6

(* A sweep stays in the row of its first site: NextWord's broken carry does*)
(* not leave the X dimension.                                              *)
THEOREM SweepsKeepRow == Spec => []RowKept
<1>1. Init => RowKept
  BY DEF Init, RowKept
<1>2. IInv /\ RowKept /\ [Next]_vars => RowKept'
  BY RowStep
<1> QED
  BY <1>1, <1>2, SpecInv, PTL DEF Spec
-----------------------------------------------------------------------------
(***************************************************************************)
(* The numbers of the sites' cells.  Two numbers with the same bits are    *)
(* equal; a row's cells are numbered modulo the row; and no two sites of a *)
(* scan have the same cell.                                                *)
(***************************************************************************)

(* Numbers below 2^n with the same bits are equal.                         *)
LEMMA SameBits ==
  \A n \in Nat : \A u, v \in 0 .. 2^n - 1 :
    (\A b \in 0 .. n - 1 : BitAt(u, b) = BitAt(v, b)) => u = v
<1> DEFINE T == {n \in Nat : \A u, v \in 0 .. 2^n - 1 :
             (\A b \in 0 .. n - 1 : BitAt(u, b) = BitAt(v, b)) => u = v}
<1>1. 0 \in T
  <2>1. 2^0 = 1
    OBVIOUS
  <2> QED
    BY <2>1
<1>2. ASSUME NEW n \in Nat, n \in T PROVE n + 1 \in T
  <2> SUFFICES ASSUME NEW u \in 0 .. 2^(n + 1) - 1, NEW v \in 0 .. 2^(n + 1) - 1,
                      \A b \in 0 .. n : BitAt(u, b) = BitAt(v, b)
               PROVE  u = v
    <3>1. 0 .. (n + 1) - 1 = 0 .. n
      OBVIOUS
    <3> QED
      BY <3>1
  <2> DEFINE p == 2^n
  <2>1. p \in Nat \ {0} /\ 2^(n + 1) = 2 * p
    BY PowPositive
  <2> HIDE DEF p
  <2>2. ASSUME NEW w \in 0 .. 2 * p - 1
        PROVE  /\ w \div p \in {0, 1} /\ w % p \in 0 .. p - 1 /\ w = p * (w \div p) + (w % p)
               /\ (w \div p) % 2 = w \div p
    <3>1. w < p => w = p * 0 + w /\ w \in 0 .. p - 1
      BY <2>1
    <3>2. w >= p => w = p * 1 + (w - p) /\ w - p \in 0 .. p - 1
      BY <2>1
    <3>3. w < p => w \div p = 0 /\ w % p = w
      BY <2>1, <3>1, DivUnique
    <3>4. w >= p => w \div p = 1 /\ w % p = w - p
      BY <2>1, <3>2, DivUnique
    <3>5. w < p \/ w >= p
      BY <2>1
    <3> QED
      BY <2>1, <3>1, <3>2, <3>3, <3>4, <3>5
  <2>3. u \div p = v \div p
    <3>1. BitAt(u, n) = BitAt(v, n)
      OBVIOUS
    <3> QED
      BY <2>1, <2>2, <3>1 DEF BitAt, p
  <2>4. u % p = v % p
    <3>1. \A b \in 0 .. n - 1 : BitAt(u % p, b) = BitAt(u, b) /\ BitAt(v % p, b) = BitAt(v, b)
      <4> TAKE b \in 0 .. n - 1
      <4>1. n - 1 \in Nat /\ b \in 0 .. n - 1 /\ (n - 1) + 1 = n
        OBVIOUS
      <4> DEFINE c == n - 1
      <4>2. c \in Nat /\ b \in 0 .. c /\ c + 1 = n
        BY <4>1
      <4> HIDE DEF c
      <4>3. u \in Int /\ v \in Int
        OBVIOUS
      <4>4. BitAt(u % 2^(c + 1), b) = BitAt(u, b) /\ BitAt(v % 2^(c + 1), b) = BitAt(v, b)
        BY <4>2, <4>3, ModBit
      <4> QED
        BY <4>2, <4>4 DEF p
    <3>2. \A b \in 0 .. n - 1 : BitAt(u % p, b) = BitAt(v % p, b)
      BY <3>1
    <3>3. u % p \in 0 .. p - 1 /\ v % p \in 0 .. p - 1
      BY <2>1, <2>2
    <3> QED
      BY <1>2, <3>2, <3>3 DEF p
  <2> QED
    BY <2>1, <2>2, <2>3, <2>4
<1> HIDE DEF T
<1>3. Nat \subseteq T
  BY <1>1, <1>2, Inductive
<1> QED
  BY <1>3 DEF T

(* A set of low bits that are those of a number is the number's remainder. *)
LEMMA NumOfBits ==
  ASSUME NEW n \in Nat \ {0}, NEW S \in SUBSET (0 .. n - 1), NEW v \in Int,
         \A b \in 0 .. n - 1 : b \in S <=> BitAt(v, b) = 1
  PROVE  Num(S) = v % 2^n
<1> DEFINE r == v % 2^n
<1>1. 2^n \in Nat \ {0}
  BY PowType
<1>2. r \in 0 .. 2^n - 1
  BY <1>1, DivMod
<1>3. Num(S) \in 0 .. 2^n - 1
  BY NumBound
<1>4. S \in SUBSET Nat /\ IsFiniteSet(S)
  <2> DEFINE low == 0
             high == n - 1
  <2>1. low \in Int /\ high \in Int /\ S \in SUBSET (low .. high)
    OBVIOUS
  <2> HIDE DEF low, high
  <2>2. IsFiniteSet(S)
    BY <2>1, IntervalFinite
  <2> QED
    BY <2>2
<1>5. ASSUME NEW b \in 0 .. n - 1 PROVE BitAt(Num(S), b) = BitAt(r, b)
  <2>1. BitAt(Num(S), b) = IF b \in S THEN 1 ELSE 0
    BY <1>4, NumBit
  <2> DEFINE c == n - 1
  <2>2. c \in Nat /\ b \in 0 .. c /\ c + 1 = n
    OBVIOUS
  <2> HIDE DEF c
  <2>3. BitAt(v % 2^(c + 1), b) = BitAt(v, b)
    BY <2>2, ModBit
  <2>4. BitAt(v, b) \in {0, 1}
    BY BitType
  <2> QED
    BY <2>1, <2>2, <2>3, <2>4
<1> HIDE DEF r
<1>6. Num(S) = r
  BY <1>2, <1>3, <1>5, SameBits
<1> QED
  BY <1>6 DEF r

(* The low bits of a number.                                               *)
LEMMA NumLowBits ==
  ASSUME NEW n \in 1 .. AddrBits, NEW v \in Int
  PROVE  Num(Bits(v) \cap (0 .. n - 1)) = v % 2^n
<1>1. AddrBits \in Nat /\ n \in Nat \ {0} /\ 0 .. n - 1 \subseteq Bit
  BY AddrBitsAssumption DEF Bit
<1>2. \A b \in 0 .. n - 1 : b \in Bits(v) \cap (0 .. n - 1) <=> BitAt(v, b) = 1
  BY <1>1, BitsAt
<1> DEFINE S == Bits(v) \cap (0 .. n - 1)
<1>3. S \in SUBSET (0 .. n - 1)
  OBVIOUS
<1>4. \A b \in 0 .. n - 1 : b \in S <=> BitAt(v, b) = 1
  BY <1>2
<1> HIDE DEF S
<1>5. Num(S) = v % 2^n
  BY <1>1, <1>3, <1>4, NumOfBits
<1> QED
  BY <1>5 DEF S

(* An address is its row and its place in the row.                         *)
LEMMA NumAddress ==
  ASSUME NEW A \in SUBSET Bit, NEW n \in 1 .. AddrBits
  PROVE  /\ Num(A) = Num(A \ (0 .. n - 1)) + Num(A \cap (0 .. n - 1))
         /\ Num(A) \in 0 .. 2^AddrBits - 1
         /\ Num(A \cap (0 .. n - 1)) \in 0 .. 2^n - 1
         /\ Num(A \ (0 .. n - 1)) \in Nat
         /\ \E k \in Nat : Num(A \ (0 .. n - 1)) = 2^n * k
<1> DEFINE H == A \ (0 .. n - 1)
           L == A \cap (0 .. n - 1)
<1>1. AddrBits \in Nat /\ n \in Nat /\ A \in SUBSET (0 .. AddrBits - 1)
  BY AddrBitsAssumption DEF Bit
<1>2. IsFiniteSet(H) /\ H \in SUBSET Nat /\ IsFiniteSet(L) /\ L \in SUBSET Nat
  <2>1. H \in SUBSET Bit /\ L \in SUBSET Bit
    OBVIOUS
  <2> QED
    BY <2>1, BitFinite
<1>3. A = H \cup L /\ H \cap L = {}
  OBVIOUS
<1>4. L \in SUBSET (0 .. n - 1) /\ \A b \in H : n <= b
  BY <1>1
<1> HIDE DEF H, L
<1>5. Num(A) = Num(H) + Num(L)
  BY <1>2, <1>3, NumUnion
<1>6. Num(L) \in 0 .. 2^n - 1 /\ Num(A) \in 0 .. 2^AddrBits - 1
  BY <1>1, <1>4, NumBound
<1>7. \E k \in Nat : Num(H) = 2^n * k
  BY <1>1, <1>2, <1>4, NumHigh
<1>8. Num(H) \in Nat
  BY <1>2, NumChosen
<1> QED
  BY <1>5, <1>6, <1>7, <1>8 DEF H, L

(* Fields above the row begin above it.                                    *)
LEMMA RowFields ==
  ASSUME NEW mask, IsCut(mask), NEW n, n = DCMRLowBit(mask)
  PROVE  /\ n \in 1 .. AddrBits /\ FieldIs(mask, n - 1, 0) /\ n - 1 \in mask
         /\ \A l : \A c \in mask : FieldIs(mask, c, l) => (c = n - 1 /\ l = 0) \/ n <= l
<1>1. n \in 1 .. AddrBits /\ n - 1 \in mask /\ \A d \in mask : n <= d + 1
  BY CutLow
<1>2. mask \subseteq Nat
  BY BitFinite DEF IsCut
<1>3. PICK l : FieldIs(mask, n - 1, l)
  BY <1>1, FieldRange
<1>4. l = 0
  <2>1. l \in 0 .. n - 1 /\ (l = 0 \/ l - 1 \in mask)
    BY <1>3 DEF FieldIs
  <2> QED
    BY <1>1, <2>1
<1>5. ASSUME NEW c \in mask, NEW m, FieldIs(mask, c, m) PROVE (c = n - 1 /\ m = 0) \/ n <= m
  <2>1. m \in 0 .. c /\ (m = 0 \/ m - 1 \in mask) /\ \A d \in mask : d < c => d < m
    BY <1>5 DEF FieldIs
  <2>2. c \in Nat /\ n <= c + 1
    BY <1>1, <1>2
  <2>3. CASE m = 0
    <3>1. ~ (n - 1 < c)
      BY <1>1, <2>1, <2>3
    <3> QED
      BY <1>1, <2>2, <2>3, <3>1
  <2>4. CASE m # 0
    <3>1. n <= (m - 1) + 1
      BY <1>1, <2>1, <2>4
    <3> QED
      BY <2>1, <3>1
  <2> QED
    BY <2>3, <2>4
<1> QED
  BY <1>1, <1>3, <1>4, <1>5

(* A multiple of the divisor does not change a remainder.                  *)
LEMMA ModShift ==
  ASSUME NEW d \in Nat \ {0}, NEW v \in Int, NEW k \in Int
  PROVE  (d * k + v) % d = v % d
<1> DEFINE q == v \div d
           r == v % d
           j == k + q
           u == d * k + v
<1>1. q \in Int /\ r \in 0 .. d - 1 /\ v = d * q + r
  BY DivMod
<1> HIDE DEF q, r
<1>2. j \in Int /\ u \in Int /\ u = d * j + r
  BY <1>1
<1> HIDE DEF j, u
<1>3. u % d = r
  BY <1>1, <1>2, DivUnique
<1> QED
  BY <1>3 DEF u, r

(* Remainders may be taken early.                                          *)
LEMMA ModSum ==
  ASSUME NEW d \in Nat \ {0}, NEW v \in Int, NEW x \in Int
  PROVE  ((v % d) + x) % d = (v + x) % d
<1> DEFINE q == v \div d
           r == v % d
           y == r + x
<1>1. q \in Int /\ r \in 0 .. d - 1 /\ v = d * q + r
  BY DivMod
<1> HIDE DEF q, r
<1>2. y \in Int /\ v + x = d * q + y
  BY <1>1
<1> HIDE DEF y
<1>3. (d * q + y) % d = y % d
  BY <1>1, <1>2, ModShift
<1> QED
  BY <1>2, <1>3 DEF y, r

(* The lowest field of a sum.                                              *)
LEMMA RowPlace ==
  ASSUME NEW mask, IsCut(mask), NEW n, n = DCMRLowBit(mask), NEW A \in SUBSET Bit, NEW t \in Nat
  PROVE  Num(FieldAdd(Bits(t), A, mask) \cap (0 .. n - 1)) = ((t % 2^n) + Num(A \cap (0 .. n - 1))) % 2^n
<1> DEFINE X == 0 .. n - 1
           row == 2^n
           a == Num(A \cap X)
           S == FieldAdd(Bits(t), A, mask) \cap X
           v == Num(Bits(t) \cap X) + a
           c == n - 1
           l == 0
<1>1. n \in 1 .. AddrBits /\ FieldIs(mask, n - 1, 0) /\ n - 1 \in mask /\ AddrBits \in Nat
  BY RowFields, AddrBitsAssumption
<1>2. Bits(t) \in SUBSET Bit
  BY DEF Bits
<1>3. row \in Nat \ {0}
  BY <1>1, PowType
<1>4. a \in Nat
  <2>1. A \cap X \in SUBSET Bit
    OBVIOUS
  <2>2. IsFiniteSet(A \cap X) /\ A \cap X \in SUBSET Nat
    BY <2>1, BitFinite
  <2> HIDE DEF X
  <2> QED
    BY <2>2, NumChosen
<1>5. Num(Bits(t) \cap X) = t % row
  BY <1>1, NumLowBits
<1>6. c \in mask /\ FieldIs(mask, c, l)
  BY <1>1
<1>7. ASSUME NEW b \in X PROVE b \in S <=> BitAt(v, b) = 1
  <2>1. b \in l .. c
    BY <1>7
  <2> HIDE DEF l, c
  <2>2. b \in FieldAdd(Bits(t), A, mask) <=> BitAt(Together(Bits(t), A, l, c), b) = 1
    BY <1>2, <1>6, <2>1, FieldSumBit
  <2> QED
    BY <1>7, <2>2 DEF Together, l, c
<1>8. t % row \in Nat
  BY <1>3
<1>9. n \in Nat \ {0} /\ S \in SUBSET (0 .. n - 1) /\ v \in Int
  BY <1>1, <1>4, <1>5, <1>8
<1>10. \A b \in 0 .. n - 1 : b \in S <=> BitAt(v, b) = 1
  BY <1>7
<1> HIDE DEF S, v
<1>11. Num(S) = v % 2^n
  BY <1>9, <1>10, NumOfBits
<1> QED
  BY <1>5, <1>11 DEF S, v

(* The cell m places after the one at F, in the same row of 2^n cells.     *)
InRow(F, n, m) == Num(F \ (0 .. n - 1)) + ((Num(F \cap (0 .. n - 1)) + m) % 2^n)
Below(m, low) == m \in 0 .. 2^low - 1
Whole(s, low) == s % 2^low = 0

(* The cell of a site that comes m sites after the first one of a sweep is *)
(* m places on in the same row.                                            *)
LEMMA RowCell ==
  ASSUME NEW mask, IsCut(mask), NEW n, n = DCMRLowBit(mask),
         NEW A \in SUBSET Bit, NEW low \in 0 .. n, NEW s \in Nat, Whole(s, low),
         NEW m, Below(m, low), NEW F, F = AddSiteAddress(Bits(s), A, mask), NEW t, t = s + m
  PROVE  Num(FieldAdd(Bits(t), A, mask)) = InRow(F, n, m)
<1> DEFINE X == 0 .. n - 1
           G == FieldAdd(Bits(s + m), A, mask)
           row == 2^n
           a == Num(A \cap X)
<1>0. s % 2^low = 0 /\ m \in 0 .. 2^low - 1
  BY DEF Whole, Below
<1>1. n \in 1 .. AddrBits /\ FieldIs(mask, n - 1, 0) /\ n - 1 \in mask /\ AddrBits \in Nat
  BY RowFields, AddrBitsAssumption
<1>2. Bits(s) \in SUBSET Bit /\ Bits(s + m) \in SUBSET Bit
  BY DEF Bits
<1>3. F = FieldAdd(Bits(s), A, mask)
  BY <1>2, AddSiteAddressAdds
<1>4. 2^low \in Nat \ {0} /\ row \in Nat \ {0} /\ low \in Nat /\ m \in Nat
  BY <1>0, <1>1, PowType
<1>5. F \in SUBSET Bit /\ G \in SUBSET Bit
  BY <1>3 DEF FieldAdd, Bits
<1>6. a \in Nat
  <2>1. A \cap X \in SUBSET Bit
    OBVIOUS
  <2>2. IsFiniteSet(A \cap X) /\ A \cap X \in SUBSET Nat
    BY <2>1, BitFinite
  <2> HIDE DEF X
  <2> QED
    BY <2>2, NumChosen
<1>7. PICK k \in Nat : s = 2^low * k
  <2> DEFINE q == 2^low
             j == s \div q
  <2>1. q \in Nat \ {0} /\ s % q = 0
    BY <1>0, <1>4
  <2> HIDE DEF q
  <2>2. j \in Nat /\ s = q * j + (s % q)
    BY <2>1
  <2> HIDE DEF j
  <2>3. q * j \in Nat
    BY <2>1, <2>2
  <2>4. s = q * j
    BY <2>1, <2>2, <2>3
  <2> QED
    BY <2>2, <2>4 DEF q
(* Above the row nothing changes.                                          *)
<1>8. F \ X = G \ X
  <2> SUFFICES ASSUME NEW b \in Bit, b \notin X PROVE b \in F <=> b \in G
    BY <1>5
  <2>1. PICK c \in mask : \E l : FieldIs(mask, c, l) /\ b \in l .. c
    BY FieldOf
  <2>2. PICK l : FieldIs(mask, c, l) /\ b \in l .. c
    BY <2>1
  <2>3. n <= l /\ l \in Nat /\ c \in Nat
    <3>1. l \in 0 .. c /\ ((c = n - 1 /\ l = 0) \/ n <= l)
      BY <2>2, RowFields DEF FieldIs
    <3>2. c \in Nat
      BY BitFinite DEF IsCut
    <3> QED
      BY <2>2, <3>1, <3>2
  <2>4. Bits(s) \cap (l .. c) = Bits(s + m) \cap (l .. c)
    <3>1. ASSUME NEW p \in Bit, p \in l .. c PROVE p \in Bits(s) <=> p \in Bits(s + m)
      <4>1. p \in Nat /\ low <= p /\ k \in Int
        BY <1>1, <2>3, <3>1
      <4>2. low \in Nat /\ m \in 0 .. 2^low - 1
        BY <1>0, <1>4
      <4>6. BitAt(2^low * k + m, p) = BitAt(2^low * k, p)
        BY <4>1, <4>2, BitLow
      <4>3. p \in Bits(s) <=> BitAt(s, p) = 1
        BY <3>1, BitsAt
      <4>4. p \in Bits(s + m) <=> BitAt(s + m, p) = 1
        BY <3>1, BitsAt
      <4>5. BitAt(s + m, p) = BitAt(s, p)
        BY <1>7, <4>6
      <4> QED
        BY <4>3, <4>4, <4>5
    <3> QED
      BY <1>2, <3>1
  <2>0. ASSUME NEW S \in SUBSET Bit
        PROVE  b \in FieldAdd(S, A, mask) <=> BitAt(Together(S, A, l, c), b) = 1
    BY <2>2, FieldSumBit
  <2>5. b \in F <=> BitAt(Together(Bits(s), A, l, c), b) = 1
    BY <1>2, <1>3, <2>0
  <2>6. b \in G <=> BitAt(Together(Bits(s + m), A, l, c), b) = 1
    BY <1>2, <2>0
  <2> QED
    BY <2>4, <2>5, <2>6 DEF Together
(* In the row the place is the sum's.                                      *)
<1>9. \A p \in Nat : Num(FieldAdd(Bits(p), A, mask) \cap X) = ((p % row) + a) % row
  BY RowPlace
<1>10. Num(F \cap X) = ((s % row) + a) % row /\ Num(G \cap X) = (((s + m) % row) + a) % row
  <2>1. s + m \in Nat
    BY <1>4
  <2> QED
    BY <1>3, <1>9, <2>1
<1>11. (((s + m) % row) + a) % row = ((((s % row) + a) % row) + m) % row
  <2> HIDE DEF row, a
  <2> DEFINE t0 == s + m
             r == s % row
             y == r + a
             z == a + m
  <2>1. s \in Int /\ m \in Int /\ a \in Int /\ row \in Nat \ {0} /\ t0 \in Int
    BY <1>4, <1>6
  <2>2. r \in Int /\ z \in Int
    BY <2>1
  <2>3. y \in Int /\ y + m = r + z /\ t0 + a = s + z
    <3> HIDE DEF r
    <3> QED
      BY <2>1, <2>2
  <2> HIDE DEF t0, y, z
  <2>4. ((t0 % row) + a) % row = (t0 + a) % row
    BY <2>1, ModSum
  <2>5. ((y % row) + m) % row = (y + m) % row
    BY <2>1, <2>3, ModSum
  <2>6. ((s % row) + z) % row = (s + z) % row
    BY <2>1, <2>2, ModSum
  <2> QED
    BY <2>3, <2>4, <2>5, <2>6 DEF t0, y, r
<1>12. Num(G) = Num(G \ X) + Num(G \cap X)
  BY <1>1, <1>5, NumAddress
<1> HIDE DEF G, a
<1> QED
  BY <1>8, <1>10, <1>11, <1>12 DEF G, row, a, InRow

(* Numbers that leave the same remainder and are close are equal.          *)
LEMMA SameRemainder ==
  ASSUME NEW d \in Nat \ {0}, NEW u \in Int, NEW v \in Int, u % d = v % d, u - v < d, v - u < d
  PROVE  u = v
<1> DEFINE p == u \div d
           q == v \div d
           r == v % d
<1>1. p \in Int /\ q \in Int /\ r \in Int /\ u = d * p + r /\ v = d * q + r
  BY DivMod
<1> HIDE DEF p, q, r
<1>2. u - v = d * (p - q) /\ v - u = d * (q - p)
  BY <1>1
<1>3. ~ (p - q >= 1) /\ ~ (q - p >= 1)
  BY <1>1, <1>2
<1>4. p = q
  BY <1>1, <1>3
<1> QED
  BY <1>1, <1>4

(* Sums with the same bits up to c are equal modulo 2^(c + 1).             *)
LEMMA SameSum ==
  ASSUME NEW c \in Nat, NEW u \in Int, NEW v \in Int, \A b \in 0 .. c : BitAt(u, b) = BitAt(v, b)
  PROVE  u % 2^(c + 1) = v % 2^(c + 1)
<1> DEFINE n == c + 1
           x == u % 2^n
           y == v % 2^n
<1>1. n \in Nat /\ 2^n \in Nat \ {0} /\ n - 1 = c
  BY PowType
<1>2. \A b \in 0 .. c : BitAt(x, b) = BitAt(u, b) /\ BitAt(y, b) = BitAt(v, b)
  BY ModBit
<1>3. \A b \in 0 .. n - 1 : BitAt(x, b) = BitAt(y, b)
  BY <1>1, <1>2
<1>4. x \in 0 .. 2^n - 1 /\ y \in 0 .. 2^n - 1
  BY <1>1, DivMod
<1> HIDE DEF x, y
<1>5. x = y
  <2> HIDE DEF n
  <2> QED
    BY <1>1, <1>3, <1>4, SameBits
<1> QED
  BY <1>5 DEF x, y

(* Two sites that an offset takes to one cell are the same address.        *)
LEMMA CellApart ==
  ASSUME NEW mask, IsCut(mask), NEW A \in SUBSET Bit, NEW S \in SUBSET Bit, NEW T \in SUBSET Bit,
         Num(FieldAdd(S, A, mask)) = Num(FieldAdd(T, A, mask))
  PROVE  S = T
<1> DEFINE F == FieldAdd(S, A, mask)
           G == FieldAdd(T, A, mask)
<1>1. F \in SUBSET Bit /\ G \in SUBSET Bit
  BY DEF FieldAdd, Bits
<1>2. F = G
  <2> SUFFICES ASSUME NEW b \in Bit PROVE b \in F <=> b \in G
    BY <1>1
  <2>1. F \in SUBSET Nat /\ G \in SUBSET Nat /\ IsFiniteSet(F) /\ IsFiniteSet(G) /\ b \in Nat
    BY <1>1, BitFinite
  <2>2. Num(F) = Num(G)
    OBVIOUS
  <2> HIDE DEF F, G
  <2>3. BitAt(Num(F), b) = (IF b \in F THEN 1 ELSE 0) /\ BitAt(Num(G), b) = (IF b \in G THEN 1 ELSE 0)
    BY <2>1, NumBit
  <2> QED
    BY <2>2, <2>3
<1> SUFFICES ASSUME NEW b \in Bit PROVE b \in S <=> b \in T
  OBVIOUS
<1>3. PICK c \in mask : \E l : FieldIs(mask, c, l) /\ b \in l .. c
  BY FieldOf
<1>4. PICK l : FieldIs(mask, c, l) /\ b \in l .. c
  BY <1>3
<1>5. c \in Nat /\ l \in Nat /\ l \in 0 .. c /\ b \in Nat /\ l .. c \subseteq Bit
  <2>1. c \in Bit /\ l \in 0 .. c /\ AddrBits \in Nat
    BY <1>4, AddrBitsAssumption DEF IsCut, FieldIs
  <2> QED
    BY <1>4, <2>1 DEF Bit
<1> DEFINE Part(R) == R \cap (l .. c)
<1>6. ASSUME NEW R \in SUBSET Bit
      PROVE  /\ Num(Part(R)) \in 0 .. 2^(c + 1) - 1
             /\ \E k \in Nat : Num(Part(R)) = 2^l * k
             /\ BitAt(Num(Part(R)), b) = IF b \in R THEN 1 ELSE 0
  <2>1. Part(R) \in SUBSET (0 .. (c + 1) - 1) /\ c + 1 \in Nat /\ \A t \in Part(R) : l <= t
    BY <1>5
  <2>2. Part(R) \in SUBSET Nat /\ IsFiniteSet(Part(R))
    <3>1. Part(R) \in SUBSET Bit
      BY <1>6
    <3> QED
      BY <3>1, BitFinite
  <2>3. b \in Part(R) <=> b \in R
    BY <1>4
  <2> HIDE DEF Part
  <2>4. Num(Part(R)) \in 0 .. 2^(c + 1) - 1
    <3> DEFINE n == c + 1
    <3>1. n \in Nat /\ Part(R) \in SUBSET (0 .. n - 1)
      BY <2>1
    <3> HIDE DEF n
    <3>2. Num(Part(R)) \in 0 .. 2^n - 1
      BY <3>1, NumBound
    <3> QED
      BY <3>2 DEF n
  <2>5. \E k \in Nat : Num(Part(R)) = 2^l * k
    BY <1>5, <2>1, <2>2, NumHigh
  <2>6. BitAt(Num(Part(R)), b) = IF b \in Part(R) THEN 1 ELSE 0
    BY <1>5, <2>2, NumBit
  <2> QED
    BY <2>3, <2>4, <2>5, <2>6
<1> DEFINE u == Num(Part(S))
           v == Num(Part(T))
           a == Num(Part(A))
           d == 2^(c + 1)
<1>7. d \in Nat \ {0} /\ u \in 0 .. d - 1 /\ v \in 0 .. d - 1 /\ a \in 0 .. d - 1
  <2>1. d \in Nat \ {0}
    BY <1>5, PowType
  <2> HIDE DEF Part
  <2> QED
    BY <1>6, <2>1
<1>8. ASSUME NEW t \in 0 .. c PROVE BitAt(u + a, t) = BitAt(v + a, t)
  <2>1. CASE t \in l .. c
    <3>1. ASSUME NEW R \in SUBSET Bit
          PROVE  t \in FieldAdd(R, A, mask) <=> BitAt(Together(R, A, l, c), t) = 1
      BY <1>4, <2>1, FieldSumBit
    <3>2. Together(S, A, l, c) = u + a /\ Together(T, A, l, c) = v + a
      BY DEF Together
    <3>3. BitAt(u + a, t) = 1 <=> BitAt(v + a, t) = 1
      BY <1>2, <3>1, <3>2, Zenon
    <3>4. BitAt(u + a, t) \in {0, 1} /\ BitAt(v + a, t) \in {0, 1}
      <4>1. u + a \in Int /\ v + a \in Int /\ t \in Nat
        BY <1>5, <1>7
      <4> QED
        BY <4>1, BitType
    <3> QED
      BY <3>3, <3>4
  <2>2. CASE t \notin l .. c
    <3>1. t < l /\ t \in Nat
      BY <1>5, <2>2
    <3>2. PICK j1 \in Nat : u = 2^l * j1
      BY <1>6
    <3>3. PICK j2 \in Nat : v = 2^l * j2
      BY <1>6
    <3>4. PICK j3 \in Nat : a = 2^l * j3
      BY <1>6
    <3> DEFINE p == 2^l
               e1 == j1 + j3
               e2 == j2 + j3
    <3>5. p \in Nat /\ u = p * j1 /\ v = p * j2 /\ a = p * j3
      BY <1>5, <3>2, <3>3, <3>4, PowType
    <3> HIDE DEF p, u, v, a
    <3>6. u + a = p * e1 /\ v + a = p * e2 /\ e1 \in Int /\ e2 \in Int
      BY <3>5
    <3> HIDE DEF e1, e2
    <3>7. BitAt(p * e1, t) = 0 /\ BitAt(p * e2, t) = 0
      BY <1>5, <3>1, <3>6, BitMultiple DEF p
    <3> QED
      BY <3>6, <3>7
  <2> QED
    BY <2>1, <2>2
<1> HIDE DEF u, v, a
<1>9. (u + a) % d = (v + a) % d
  <2>1. u + a \in Int /\ v + a \in Int
    BY <1>7
  <2> DEFINE x == u + a
             y == v + a
  <2> HIDE DEF x, y
  <2> QED
    BY <1>5, <1>8, <2>1, SameSum DEF x, y
<1>10. u = v
  <2> DEFINE x == u + a
             y == v + a
  <2> HIDE DEF d
  <2>1. x \in Int /\ y \in Int /\ x - y < d /\ y - x < d /\ x % d = y % d
    BY <1>7, <1>9
  <2> HIDE DEF x, y
  <2>2. x = y
    BY <1>7, <2>1, SameRemainder
  <2> QED
    BY <1>7, <2>2 DEF x, y
<1> HIDE DEF Part
<1>11. BitAt(u, b) = (IF b \in S THEN 1 ELSE 0) /\ BitAt(v, b) = (IF b \in T THEN 1 ELSE 0)
  BY <1>6 DEF u, v
<1> QED
  BY <1>10, <1>11

(* The sites of an aligned block have cells of their own.                  *)
LEMMA CellsApart ==
  ASSUME NEW mask, IsCut(mask), NEW A \in SUBSET Bit, NEW e \in 0 .. AddrBits, NEW s \in Nat,
         NEW j \in 0 .. (2^e - (s % 2^e)) - 1, NEW k \in 0 .. (2^e - (s % 2^e)) - 1,
         Num(FieldAdd(Bits(s + j), A, mask)) = Num(FieldAdd(Bits(s + k), A, mask))
  PROVE  j = k
<1> DEFINE n == 2^AddrBits
           q == 2^e
<1>1. AddrBits \in 1 .. AddrBits /\ AddrBits \in Nat /\ e \in Nat /\ e <= AddrBits
  BY AddrBitsAssumption
<1>2. q \in Nat \ {0} /\ n \in Nat \ {0} /\ q <= n
  BY <1>1, PowType, PowMonotone
<1>3. s % q \in 0 .. q - 1
  BY <1>2
<1>4. s + j \in Int /\ s + k \in Int /\ (s + j) - (s + k) < n /\ (s + k) - (s + j) < n /\ j \in Int /\ k \in Int
  <2> HIDE DEF n, q
  <2>1. j \in 0 .. (q - (s % q)) - 1 /\ k \in 0 .. (q - (s % q)) - 1
    BY DEF q
  <2> QED
    BY <1>2, <1>3, <2>1
<1>5. Bits(s + j) = Bits(s + k)
  <2>1. Bits(s + j) \in SUBSET Bit /\ Bits(s + k) \in SUBSET Bit
    BY DEF Bits
  <2> DEFINE S == Bits(s + j)
             T == Bits(s + k)
  <2>2. S \in SUBSET Bit /\ T \in SUBSET Bit /\ Num(FieldAdd(S, A, mask)) = Num(FieldAdd(T, A, mask))
    BY <2>1
  <2> HIDE DEF S, T
  <2>3. S = T
    BY <2>2, CellApart
  <2> QED
    BY <2>3 DEF S, T
<1> DEFINE x == s + j
           y == s + k
<1>6. x \in Int /\ y \in Int /\ x - y < n /\ y - x < n /\ Bits(x) = Bits(y)
  BY <1>4, <1>5
<1> HIDE DEF x, y
<1>7. x % n = y % n
  <2>1. \A v \in Int : Num(Bits(v) \cap (0 .. AddrBits - 1)) = v % 2^AddrBits
    BY <1>1, NumLowBits
  <2> QED
    BY <1>6, <2>1
<1>8. x = y
  <2> HIDE DEF n
  <2> QED
    BY <1>2, <1>6, <1>7, SameRemainder
<1> QED
  BY <1>4, <1>8 DEF x, y

(* A remainder modulo a multiple keeps the remainder.                      *)
LEMMA ModMod ==
  ASSUME NEW d \in Nat \ {0}, NEW e \in Nat \ {0}, NEW v \in Int
  PROVE  (v % (d * e)) % d = v % d
<1> DEFINE p == d * e
           q == v \div p
           r == v % p
           k == e * q
<1>0. p \in Nat \ {0}
  OBVIOUS
<1>1. q \in Int /\ r \in 0 .. p - 1 /\ v = p * q + r
  <2> HIDE DEF p
  <2> QED
    BY <1>0, DivMod
<1> HIDE DEF q, r
<1>2. k \in Int /\ v = d * k + r /\ r \in Int
  <2>1. (d * e) * q = d * (e * q)
    BY <1>1
  <2>2. e * q \in Int
    BY <1>1
  <2> QED
    BY <1>0, <1>1, <2>1, <2>2
<1> HIDE DEF k
<1>3. (d * k + r) % d = r % d
  BY <1>2, ModShift
<1> QED
  BY <1>2, <1>3 DEF r, p

(* Rows and words: what is a multiple of the larger one.                   *)
LEMMA RowShift ==
  ASSUME NEW w \in Nat \ {0}, NEW e \in Nat \ {0}, NEW k \in Nat, NEW v \in Nat
  PROVE  ((w * e) * k + v) % w = v % w
<1> DEFINE m == e * k
<1>1. (w * e) * k = w * m /\ m \in Int
  OBVIOUS
<1> HIDE DEF m
<1>2. w \in Nat \ {0} /\ m \in Int /\ v \in Int
  BY <1>1
<1>3. (w * m + v) % w = v % w
  BY <1>2, ModShift, Zenon
<1> QED
  BY <1>1, <1>3

(* Place f of a row of w * e sites comes a sites after the s-th, which     *)
(* begins a word; and two places that are the same within their words.     *)
InWordRow(w, e, row, s, a, f) ==
  /\ w \in Nat \ {0} /\ e \in Nat \ {0} /\ row = w * e
  /\ s \in Int /\ s % w = 0 /\ a \in Int /\ f = ((s % row) + a) % row
SamePlace(w, f, a) == f % w = a % w

(* A place in a row that starts with a word keeps its place in the word.   *)
LEMMA RowMod ==
  ASSUME NEW w, NEW e, NEW row, NEW s, NEW a, NEW f, InWordRow(w, e, row, s, a, f)
  PROVE  SamePlace(w, f, a)
<1>0. /\ w \in Nat \ {0} /\ e \in Nat \ {0} /\ row = w * e
      /\ s \in Int /\ s % w = 0 /\ a \in Int /\ f = ((s % row) + a) % row
  BY DEF InWordRow
<1> DEFINE r == s % row
           x == r + a
<1>1. row \in Nat \ {0}
  BY <1>0
<1>2. r \in Int
  BY <1>0, <1>1
<1>3. r % w = 0
  <2>1. (s % (w * e)) % w = s % w
    BY <1>0, ModMod
  <2> QED
    BY <1>0, <2>1
<1> HIDE DEF r
<1>4. x \in Int
  BY <1>0, <1>2
<1>5. x % w = ((r % w) + a) % w
  BY <1>0, <1>2, ModSum
<1>6. x % w = a % w
  <2>1. 0 + a = a
    BY <1>0
  <2> QED
    BY <1>3, <1>5, <2>1
<1> HIDE DEF x
<1>7. (x % row) % w = x % w
  <2>1. w \in Nat \ {0} /\ e \in Nat \ {0} /\ x \in Int
    BY <1>0, <1>4
  <2>2. (x % (w * e)) % w = x % w
    BY <2>1, ModMod, Zenon
  <2> QED
    BY <1>0, <2>2
<1> QED
  BY <1>0, <1>6, <1>7 DEF SamePlace, x, r

(* The first site's word and its place in it.                              *)
LEMMA FirstWord ==
  ASSUME NEW mask, IsCut(mask), NEW n, n = DCMRLowBit(mask), WordLog <= n,
         NEW A \in SUBSET Bit, NEW s \in Nat, s % W = 0, NEW F, F = AddSiteAddress(Bits(s), A, mask)
  PROVE  Num(WordOf(F)) + BitOffset(A) = Num(F)
<1> DEFINE X == 0 .. n - 1
           Y == 0 .. WordLog - 1
           row == 2^n
           w == W
           a == Num(A \cap X)
           f == Num(F \cap X)
<1>1. n \in 1 .. AddrBits /\ WordLog \in 1 .. AddrBits /\ n \in Nat /\ WordLog \in Nat
  BY RowFields, WordFacts
<1>2. Bits(s) \in SUBSET Bit
  BY DEF Bits
<1>3. F = FieldAdd(Bits(s), A, mask)
  BY <1>2, AddSiteAddressAdds
<1>4. F \in SUBSET Bit
  BY <1>3 DEF FieldAdd, Bits
<1>5. w \in Nat \ {0} /\ row \in Nat \ {0} /\ \E e \in Nat \ {0} : row = w * e
  BY <1>1, PowType, PowSplit DEF W
<1>6. f = ((s % row) + a) % row
  BY <1>3, RowPlace
<1>7. a \in Nat /\ Num(A) \in Nat /\ Num(F) \in Nat /\ f \in Nat
      /\ (\E k \in Nat : Num(A) = row * k + a) /\ (\E k \in Nat : Num(F) = row * k + f)
  <2>1. ASSUME NEW B \in SUBSET Bit
        PROVE  Num(B \cap X) \in Nat /\ Num(B) \in Nat /\ \E k \in Nat : Num(B) = row * k + Num(B \cap X)
    <3>1. /\ Num(B) = Num(B \ X) + Num(B \cap X)
          /\ Num(B \cap X) \in 0 .. row - 1
          /\ \E k \in Nat : Num(B \ X) = row * k
      BY <1>1, NumAddress
    <3> DEFINE y == Num(B \cap X)
    <3>2. y \in 0 .. row - 1
      BY <3>1
    <3>3. B \in SUBSET Nat /\ IsFiniteSet(B)
      BY BitFinite
    <3>4. Num(B) \in Nat
      BY <3>3, NumChosen
    <3> HIDE DEF y, X
    <3>5. y \in Nat
      BY <3>2
    <3> QED
      BY <3>1, <3>4, <3>5 DEF y
  <2> QED
    BY <1>4, <2>1
<1>8. WordOf(F) = F \ Y
  <2>1. \A b \in F : b \in Nat
    BY <1>4, BitFinite
  <2> QED
    BY <1>1, <2>1 DEF WordOf
<1>9. Num(F) = Num(F \ Y) + (Num(F) % w)
  <2> DEFINE y == Num(F \cap Y)
             h == Num(F \ Y)
  <2>1. Num(F) = h + y /\ y \in 0 .. w - 1 /\ h \in Nat /\ \E k \in Nat : h = w * k
    BY <1>1, <1>4, NumAddress DEF W
  <2>2. PICK k \in Nat : h = w * k
    BY <2>1
  <2> HIDE DEF h, y, w
  <2>3. Num(F) = w * k + y /\ Num(F) \in Int
    BY <1>5, <2>1, <2>2
  <2>4. Num(F) % w = y
    <3> DEFINE z == Num(F)
    <3>1. z \in Int /\ w \in Nat \ {0} /\ k \in Int /\ y \in 0 .. w - 1 /\ z = w * k + y
      BY <1>5, <2>1, <2>3
    <3> HIDE DEF z
    <3>2. z % w = y
      BY <3>1, DivUnique
    <3> QED
      BY <3>2 DEF z
  <2> QED
    BY <2>1, <2>4 DEF h
<1> HIDE DEF row, a, f, w
<1>10. PICK e \in Nat \ {0} : row = w * e
  BY <1>5
<1>11. f % w = a % w
  <2>1. s % w = 0
    BY DEF w
  <2>2. w \in Nat \ {0} /\ e \in Nat \ {0} /\ s \in Int /\ a \in Int
    BY <1>5, <1>7
  <2>3. InWordRow(w, e, row, s, a, f)
    BY <1>6, <1>10, <2>1, <2>2, Zenon DEF InWordRow
  <2> QED
    BY <2>3, RowMod DEF SamePlace
<1>12. ASSUME NEW k \in Nat, NEW v \in Nat PROVE (row * k + v) % w = v % w
  <2>1. w \in Nat \ {0}
    BY <1>5
  <2>3. \A d, m \in Nat \ {0} : \A j, x \in Nat : ((d * m) * j + x) % d = x % d
    BY RowShift, Zenon
  <2>2. ((w * e) * k + v) % w = v % w
    <3>1. \A j, x \in Nat : ((w * e) * j + x) % w = x % w
      <4> DEFINE d == w
      <4>1. d \in Nat \ {0}
        BY <2>1
      <4>2. \A j, x \in Nat : ((d * e) * j + x) % d = x % d
        BY <4>1, <2>3
      <4> QED
        BY <4>2
    <3> QED
      BY <3>1, Zenon
  <2> QED
    BY <1>10, <2>2
<1>13. Num(F) % w = Num(A) % w
  BY <1>7, <1>11, <1>12
<1> QED
  BY <1>8, <1>9, <1>13 DEF BitOffset, w

(* The next word is a word on, modulo the row.                             *)
LEMMA NextNum ==
  ASSUME NEW a \in SUBSET Bit, numXBits \in 1 .. AddrBits, WordLog < numXBits
  PROVE  Num(NextWord(a) \cap (0 .. numXBits - 1)) = (Num(a \cap (0 .. numXBits - 1)) + W) % 2^numXBits
<1> DEFINE t == numXBits - 1
           X == 0 .. numXBits - 1
           top == a \cap {t}
           R == a \ top
           M == Num(R)
           N == Num(R) + W
           T == Num(a) + W
           S == NextWord(a) \cap X
<1>1. t \in Nat /\ numXBits = t + 1 /\ t \in Bit /\ AddrBits \in Nat /\ X \subseteq Bit
  BY WordFacts DEF Bit
<1>2. top \in SUBSET Bit /\ R \in SUBSET Bit
  OBVIOUS
<1>3. IsFiniteSet(R) /\ R \in SUBSET Nat /\ IsFiniteSet(a) /\ a \in SUBSET Nat
  BY <1>2, BitFinite
<1>4. M \in Nat /\ W \in Nat /\ 2^t \in Nat
  BY <1>1, <1>3, NumChosen, WordFacts, PowType
<1>5. Num(a) = IF t \in a THEN 2^t + M ELSE M
  <2>1. CASE t \in a
    <3>1. top = {t}
      BY <2>1
    <3> QED
      BY <1>3, <2>1, <3>1, NumRemove
  <2>2. CASE t \notin a
    BY <2>2
  <2> QED
    BY <2>1, <2>2
<1>6. NextWord(a) = Xor(Bits(N), top)
  BY DEF NextWord
<1>7. N \in Int /\ T \in Int /\ T = IF t \in a THEN N + 2^t ELSE N
  <2> HIDE DEF W, M, R
  <2>1. N = M + W
    BY DEF M
  <2> HIDE DEF N
  <2> QED
    BY <1>4, <1>5, <2>1
<1>8. ASSUME NEW b \in X PROVE b \in S <=> BitAt(T, b) = 1
  <2>1. b \in Bit /\ b \in Nat /\ b <= t
    BY <1>1, <1>8
  <2>2. b \in Bits(N) <=> BitAt(N, b) = 1
    BY <2>1, BitsAt
  <2>3. BitAt(N, b) \in {0, 1}
    BY <1>7, <2>1, BitType
  <2> HIDE DEF N, T, R, M
  <2>4. CASE b = t /\ t \in a
    <3>1. b \in S <=> ~ (b \in Bits(N))
      BY <1>6, <1>8, <2>4 DEF Xor
    <3>2. BitAt(T, b) = 1 - BitAt(N, b)
      BY <1>7, <2>1, <2>4, BitFlip
    <3> QED
      BY <2>2, <2>3, <3>1, <3>2
  <2>5. CASE b = t /\ t \notin a
    <3>1. b \in S <=> b \in Bits(N)
      BY <1>6, <1>8, <2>5 DEF Xor
    <3> QED
      BY <1>7, <2>2, <2>5, <3>1
  <2>6. CASE b # t
    <3>1. b \in S <=> b \in Bits(N)
      BY <1>6, <1>8, <2>6 DEF Xor
    <3>2. BitAt(N + 2^t, b) = BitAt(N, b)
      <4>1. b + 1 <= t /\ b + 1 \in Nat
        <5> HIDE DEF t
        <5> QED
          BY <1>1, <2>1, <2>6
      <4>2. PICK e \in Nat \ {0} : 2^t = 2^(b + 1) * e
        BY <1>1, <4>1, PowSplit
      <4>3. N \in Int /\ e \in Int /\ b \in Nat
        BY <1>7, <2>1
      <4>5. BitAt(N + 2^(b + 1) * e, b) = BitAt(N, b)
        BY <4>3, BitAdd
      <4> QED
        BY <4>2, <4>5
    <3>3. BitAt(T, b) = BitAt(N, b)
      BY <1>7, <3>2
    <3> QED
      BY <2>2, <3>1, <3>3
  <2> QED
    BY <2>4, <2>5, <2>6
<1>9. Num(S) = T % 2^numXBits
  <2>1. numXBits \in Nat \ {0} /\ S \in SUBSET (0 .. numXBits - 1)
    BY <1>1
  <2>2. \A b \in 0 .. numXBits - 1 : b \in S <=> BitAt(T, b) = 1
    BY <1>8
  <2> HIDE DEF S, T
  <2> QED
    BY <1>7, <2>1, <2>2, NumOfBits
<1>10. T % 2^numXBits = (Num(a \cap X) + W) % 2^numXBits
  <2> DEFINE d == 2^numXBits
             f == Num(a \cap X)
             v == f + W
  <2>1. d \in Nat \ {0} /\ f \in Nat
    <3>1. d \in Nat \ {0}
      BY <1>1, PowType
    <3>2. f \in 0 .. d - 1
      BY NumAddress
    <3> HIDE DEF d, f
    <3> QED
      BY <3>1, <3>2
  <2>2. PICK k \in Nat : Num(a \ X) = d * k
    BY NumAddress
  <2>3. Num(a) = Num(a \ X) + f
    BY NumAddress
  <2> HIDE DEF d, f, W, X
  <2>4. v \in Int /\ T = d * k + v
    BY <1>4, <2>1, <2>2, <2>3
  <2> HIDE DEF v, T
  <2>5. (d * k + v) % d = v % d
    <3>1. d \in Nat \ {0} /\ v \in Int /\ k \in Int
      BY <2>1, <2>4
    <3> QED
      BY <3>1, ModShift
  <2> QED
    BY <2>4, <2>5 DEF d, v, f
<1> QED
  BY <1>9, <1>10
-----------------------------------------------------------------------------
(***************************************************************************)
(* The optimized scan.  Its invariant says how far it is, what has become  *)
(* of every cell whose word is stored, and what the rotated word holds.    *)
(***************************************************************************)

(* The sweep's place: the sites swept before it and in it, where the site  *)
(* to be updated next is in its word, and where the word's bit b belongs.  *)
First == AddSiteAddress(Bits(sir), osr, dcm)
Low == Min({esc, numXBits})
Begun == sir - start.sir
At == (xLen - xCtr) * W + i
Turn(b, k) == IF b + k < W THEN b + k ELSE (b + k) - W
Place == Turn(i, BitOffset(osr))
Sofar == IF pc \in {"site", "last"} THEN Begun + At ELSE Begun

(* An optimized scan of a plane is under way, or just done.                *)
Sweeping == pc \in {"sweep", "site", "last"} \/ (pc = "done" /\ start.fast /\ PlaneUsed)

(* The sweeps are whole: what is swept and what is left are the scan.      *)
CountInv ==
  /\ pc = "general" => ~start.fast
  /\ Sweeping =>
       /\ start.plane \in [Cells -> BOOLEAN] /\ start.sir \in Nat /\ start.tpos \in Nat
       /\ start.events \in Nat /\ start.fast /\ PlaneUsed
       /\ start.sites = 2^esc - (start.sir % 2^esc)
       /\ Low \in WordLog .. numXBits /\ Low <= esc /\ xLen * W = 2^Low
       /\ sir % 2^Low = 0 /\ start.sir <= sir
       /\ sir + siteCtr * 2^Low = start.sir + start.sites
       /\ pc = "done" => siteCtr = 0

(* The next site's place in its word is that of its cell in the row.       *)
PlaceInv ==
  /\ pc \in {"site", "last"} => Num(addr) + Place = InRow(First, numXBits, At)
  /\ pc = "site" => xCtr <= xLen
  /\ pc = "last" => xCtr = 0 /\ i = 0

(* What a cell's value v is when the first k sites have been updated: the  *)
(* old one if none of them had the cell, the new one if one of them had it.*)
Right(c, v, k) ==
  /\ (\A j \in 0 .. k - 1 : Cell(j) # c) => v = start.plane[c]
  /\ Provided => \A j \in 0 .. k - 1 : Cell(j) = c => v = NewValue(start.plane[c], Datum(j))

(* The word under the scan's hand holds cell c.                            *)
InWord(c) == \E b \in 0 .. W - 1 : c = Num(addr) + b

(* Where the plane is updated, the cells outside the word and the bits of  *)
(* the turned word are right; a word that is not turned is the one stored. *)
UpdateInv ==
  Sweeping /\ ~smeared /\ IsDestUpdated =>
    /\ \A c \in Cells : (pc \in {"site", "last"} /\ InWord(c)) \/ Right(c, plane[c], Sofar)
    /\ pc \in {"site", "last"} =>
         /\ \A b \in 0 .. W - 1 : Right(Num(addr) + Turn(b, Place), word[b], Sofar)
         /\ Place = 0 => word = Load(plane, addr)

(* Where it is not, the word holds the sites that are still to come.       *)
LeftInv ==
  Sweeping /\ ~smeared /\ ~IsDestUpdated =>
    /\ plane = start.plane
    /\ pc = "site" =>
         \A b \in 0 .. W - 1 :
            (IF numXBits > WordLog THEN Place + b < W ELSE i + b < W)
              => word[b] = plane[Num(addr) + Turn(b, Place)]

(* What the sites held before the scan, in scan order.                     *)
Old == [k \in Nat |-> start.plane[Cell(k)]]
Ones(f, k) == Cardinality({j \in 0 .. k - 1 : f[j]})
Values(f, k) == [n \in 1 .. k |-> f[n - 1]]

(* The host's data, the event counter and a read's values keep step.       *)
SourceInv ==
  Sweeping /\ ~smeared =>
    /\ Fetch => tpos = start.tpos + Sofar
    /\ rule.ecs = "site" => eventCount = start.events + Ones(Old, Sofar)
    /\ reading /\ rule.dds = "site" => shown = Values(Old, Sofar)

(* Turning a word.                                                         *)
LEMMA TurnFacts ==
  /\ W \in Nat /\ W >= 2
  /\ \A k \in 0 .. W - 1 :
       /\ Turn(0, k) = k /\ Turn(k, 0) = k /\ Turn(k, 1) \in 0 .. W - 1
       /\ Turn(k, 1) = IF k = W - 1 THEN 0 ELSE k + 1
       /\ Turn(W - 1, Turn(k, 1)) = k
       /\ \A b \in 0 .. W - 1 :
            /\ Turn(b, k) \in 0 .. W - 1
            /\ b < W - 1 => Turn(b, Turn(k, 1)) = Turn(b + 1, k)
            /\ Turn(Turn(b, 1), k) = Turn(Turn(b, k), 1)
            /\ Turn(b, k) = W - 1 <=> k = (W - 1) - b
            /\ Turn(b, k) = IF b + k < W THEN b + k ELSE (b + k) - W
       /\ \A b, c \in 0 .. W - 1 : Turn(b, k) = Turn(c, k) => b = c
       /\ k >= 1 => \A b \in 0 .. W - 1 : Turn(b, W - k) \in 0 .. W - 1 /\ Turn(Turn(b, W - k), k) = b
<1>1. W \in Nat /\ W >= 2
  <2> DEFINE j == WordLog - 1
  <2>1. j \in Nat /\ WordLog = j + 1
    BY WordFacts
  <2> HIDE DEF j
  <2>2. 2^j \in Nat /\ 2^j >= 1 /\ 2^(j + 1) = 2 * 2^j
    BY <2>1, PowPositive
  <2> QED
    BY <2>1, <2>2, WordFacts
<1> SUFFICES ASSUME NEW k \in 0 .. W - 1
             PROVE  /\ Turn(0, k) = k /\ Turn(k, 0) = k /\ Turn(k, 1) \in 0 .. W - 1
                    /\ Turn(k, 1) = IF k = W - 1 THEN 0 ELSE k + 1
                    /\ Turn(W - 1, Turn(k, 1)) = k
                    /\ \A b \in 0 .. W - 1 :
                         /\ Turn(b, k) \in 0 .. W - 1
                         /\ b < W - 1 => Turn(b, Turn(k, 1)) = Turn(b + 1, k)
                         /\ Turn(Turn(b, 1), k) = Turn(Turn(b, k), 1)
                         /\ Turn(b, k) = W - 1 <=> k = (W - 1) - b
                         /\ Turn(b, k) = IF b + k < W THEN b + k ELSE (b + k) - W
                    /\ \A b, c \in 0 .. W - 1 : Turn(b, k) = Turn(c, k) => b = c
                    /\ k >= 1 => \A b \in 0 .. W - 1 :
                                   Turn(b, W - k) \in 0 .. W - 1 /\ Turn(Turn(b, W - k), k) = b
  BY <1>1
<1> HIDE DEF W
<1>2. /\ Turn(0, k) = k /\ Turn(k, 0) = k /\ Turn(k, 1) \in 0 .. W - 1
      /\ Turn(k, 1) = IF k = W - 1 THEN 0 ELSE k + 1
      /\ Turn(W - 1, Turn(k, 1)) = k
  BY <1>1 DEF Turn
<1>3. ASSUME NEW b \in 0 .. W - 1
      PROVE  /\ Turn(b, k) \in 0 .. W - 1
             /\ b < W - 1 => Turn(b, Turn(k, 1)) = Turn(b + 1, k)
             /\ Turn(Turn(b, 1), k) = Turn(Turn(b, k), 1)
             /\ Turn(b, k) = W - 1 <=> k = (W - 1) - b
             /\ Turn(b, k) = IF b + k < W THEN b + k ELSE (b + k) - W
  BY <1>1 DEF Turn
<1>4. ASSUME NEW b \in 0 .. W - 1, NEW c \in 0 .. W - 1, Turn(b, k) = Turn(c, k) PROVE b = c
  BY <1>1, <1>4 DEF Turn
<1>5. ASSUME k >= 1, NEW b \in 0 .. W - 1
      PROVE  Turn(b, W - k) \in 0 .. W - 1 /\ Turn(Turn(b, W - k), k) = b
  BY <1>1, <1>5 DEF Turn
<1> QED
  BY <1>2, <1>3, <1>4, <1>5

(* The rotation of a word whose sign is not smeared.                       *)
LEMMA RotatedAt ==
  ASSUME NEW w \in Words, NEW k \in 1 .. W - 1, ~ Smears(w, W - k)
  PROVE  Rotated(w, k) \in Words /\ \A b \in 0 .. W - 1 : Rotated(w, k)[b] = w[Turn(b, k)]
<1> DEFINE j == W - k
           l == Shl(w, k)
           r == Shr(w, j)
<1>1. W \in Nat /\ W >= 2 /\ j \in 1 .. W - 1 /\ k \in Nat /\ j \in Nat
  BY TurnFacts
<1>2. j % W = j
  <2> HIDE DEF W
  <2>1. j \in 1 .. W - 1
    BY <1>1
  <2> HIDE DEF j
  <2> QED
    BY <1>1, <2>1
<1>3. Sar(w, j) = r
  BY DEF Smears
<1>4. l \in Words /\ r \in Words
  BY <1>1, WordsTyped
<1>5. Rotated(w, k) = Or(l, r)
  BY <1>3 DEF Rotated
<1>6. ASSUME NEW b \in 0 .. W - 1 PROVE Rotated(w, k)[b] = w[Turn(b, k)]
  <2>1. l[b] = (b + k < W /\ w[b + k])
    BY DEF Shl
  <2>2. r[b] = (b >= j /\ w[b - j])
    BY <1>2 DEF Shr
  <2>3. Rotated(w, k)[b] = (l[b] \/ r[b])
    BY <1>5 DEF Or
  <2>4. l[b] \in BOOLEAN /\ r[b] \in BOOLEAN
    BY <1>4 DEF Words
  <2> HIDE DEF l, r
  <2>5. CASE b + k < W
    <3>1. ~ (b >= j)
      BY <1>1, <2>5
    <3>2. w[b + k] \in BOOLEAN /\ Turn(b, k) = b + k
      BY <1>1, <2>5 DEF Words, Turn
    <3>3. l[b] = w[b + k] /\ ~ r[b]
      BY <2>1, <2>2, <2>5, <3>1, <3>2
    <3> QED
      BY <2>3, <2>4, <3>2, <3>3
  <2>6. CASE ~ (b + k < W)
    <3>1. b >= j /\ b - j = (b + k) - W /\ b - j \in 0 .. W - 1
      BY <1>1, <2>6
    <3>2. w[b - j] \in BOOLEAN /\ Turn(b, k) = b - j
      BY <2>6, <3>1 DEF Words, Turn
    <3>3. ~ l[b] /\ r[b] = w[b - j]
      BY <2>1, <2>2, <2>6, <3>1, <3>2
    <3> QED
      BY <2>3, <2>4, <3>2, <3>3
  <2> QED
    BY <2>5, <2>6
<1>7. Rotated(w, k) \in Words
  BY <1>1, <1>4, <1>5, WordsTyped
<1> QED
  BY <1>6, <1>7

(* A site update shifts its site out and puts the new value in.            *)
LEMMA UpdatedAt ==
  ASSUME NEW w \in Words, PlaneUsed
  PROVE  /\ \A b \in 0 .. W - 1 : b < W - 1 => Updated(w)[b] = w[b + 1]
         /\ IsDestUpdated => Updated(w)[W - 1] = MapFunction(rule.sdm, w[0], Source(w))
<1> DEFINE rest == Shl(w, 1)
           x == MapFunction(rule.sdm, w[0], Source(w))
<1>1. W \in Nat /\ W >= 2
  BY TurnFacts
<1>2. Updated(w) = IF IsDestUpdated THEN PutLow(rest, x) ELSE rest
  BY DEF Updated, PlaneUsed
<1>3. ASSUME NEW b \in 0 .. W - 1, b < W - 1 PROVE rest[b] = w[b + 1]
  <2>1. b + 1 < W /\ b + 1 \in 0 .. W - 1
    BY <1>1, <1>3
  <2> QED
    BY <2>1 DEF Shl, Words
<1>4. W - 1 \in 0 .. W - 1 /\ ~ ((W - 1) + 1 < W)
  BY <1>1
<1>5. rest[W - 1] = FALSE
  BY <1>4 DEF Shl
<1>6. x \in BOOLEAN
  BY DEF MapFunction
<1>7. rest \in [0 .. W - 1 -> BOOLEAN]
  <2> DEFINE one == 1
  <2>1. one \in Nat
    OBVIOUS
  <2> HIDE DEF one
  <2>2. Shl(w, one) \in Words
    BY <2>1, WordsTyped
  <2> QED
    BY <2>2 DEF one, Words
<1> HIDE DEF rest, x
<1>8. /\ PutLow(rest, x)[W - 1] = (rest[W - 1] \/ x)
      /\ \A b \in 0 .. W - 1 : b # W - 1 => PutLow(rest, x)[b] = rest[b]
  BY <1>4, <1>7 DEF PutLow
<1>9. \A b \in 0 .. W - 1 : b < W - 1 => b # W - 1
  BY <1>1
<1> QED
  BY <1>2, <1>3, <1>5, <1>6, <1>8, <1>9 DEF x

(* The maps whose value the source does not change, and that of the site.  *)
LEMMA MapTables ==
  ASSUME NEW g \in BOOLEAN, NEW s, NEW t
  PROVE  /\ \A m \in {MAP_ZERO, MAP_ONE, MAP_G, MAP_NOTG} : MapFunction(m, g, s) = MapFunction(m, g, t)
         /\ MapFunction(MAP_G, g, s) = g
         /\ MapFunction(MAP_S, g, g) = g
<1> DEFINE p(a, b) == 2^((IF a THEN 1 ELSE 0) + (IF b THEN 2 ELSE 0))
<1>1. 2^0 = 1 /\ 2^1 = 2 /\ 2^2 = 4 /\ 2^3 = 8
  <2>0. 2^0 = 1
    OBVIOUS
  <2>1. \A n \in Nat : 2^n \in Nat /\ 2^(n + 1) = 2 * 2^n
    BY PowPositive
  <2>2. 2^(0 + 1) = 2 * 2^0 /\ 2^(1 + 1) = 2 * 2^1 /\ 2^(2 + 1) = 2 * 2^2
    BY <2>1
  <2> QED
    BY <2>0, <2>2
<1>2. ASSUME NEW a \in BOOLEAN, NEW b
      PROVE  p(a, b) = IF a THEN (IF b THEN 8 ELSE 2) ELSE (IF b THEN 4 ELSE 1)
  <2>1. CASE a /\ b
    <3>1. (IF a THEN 1 ELSE 0) + (IF b THEN 2 ELSE 0) = 3
      BY <2>1
    <3> QED
      BY <1>1, <2>1, <3>1
  <2>2. CASE a /\ ~ b
    <3>1. (IF a THEN 1 ELSE 0) + (IF b THEN 2 ELSE 0) = 1
      BY <2>2
    <3> QED
      BY <1>1, <2>2, <3>1
  <2>3. CASE ~ a /\ b
    <3>1. (IF a THEN 1 ELSE 0) + (IF b THEN 2 ELSE 0) = 2
      BY <2>3
    <3> QED
      BY <1>1, <2>3, <3>1
  <2>4. CASE ~ a /\ ~ b
    <3>1. (IF a THEN 1 ELSE 0) + (IF b THEN 2 ELSE 0) = 0
      BY <2>4
    <3> QED
      BY <1>1, <2>4, <3>1
  <2> QED
    BY <2>1, <2>2, <2>3, <2>4
<1>3. ASSUME NEW m, NEW a, NEW b
      PROVE  MapFunction(m, a, b) \in BOOLEAN /\ (MapFunction(m, a, b) <=> (m \div p(a, b)) % 2 = 1)
  BY DEF MapFunction
<1> HIDE DEF p
<1>4. /\ (0 \div 1) % 2 = 0 /\ (0 \div 2) % 2 = 0 /\ (0 \div 4) % 2 = 0 /\ (0 \div 8) % 2 = 0
      /\ (15 \div 1) % 2 = 1 /\ (15 \div 2) % 2 = 1 /\ (15 \div 4) % 2 = 1 /\ (15 \div 8) % 2 = 1
      /\ (10 \div 1) % 2 = 0 /\ (10 \div 2) % 2 = 1 /\ (10 \div 4) % 2 = 0 /\ (10 \div 8) % 2 = 1
      /\ (5 \div 1) % 2 = 1 /\ (5 \div 2) % 2 = 0 /\ (5 \div 4) % 2 = 1 /\ (5 \div 8) % 2 = 0
      /\ (12 \div 1) % 2 = 0 /\ (12 \div 8) % 2 = 1
  OBVIOUS
<1>5. ASSUME NEW b
      PROVE  /\ MapFunction(MAP_ZERO, g, b) = FALSE /\ MapFunction(MAP_ONE, g, b) = TRUE
             /\ MapFunction(MAP_G, g, b) = g /\ MapFunction(MAP_NOTG, g, b) = ~ g
  <2>1. CASE g
    <3>1. p(g, b) = 8 \/ p(g, b) = 2
      BY <1>2, <2>1
    <3>2. ~ MapFunction(0, g, b) /\ MapFunction(15, g, b) /\ MapFunction(10, g, b) /\ ~ MapFunction(5, g, b)
      BY <1>3, <1>4, <3>1
    <3> QED
      BY <1>3, <2>1, <3>2, Zenon DEF MAP_ZERO, MAP_ONE, MAP_G, MAP_NOTG
  <2>2. CASE ~ g
    <3>1. p(g, b) = 4 \/ p(g, b) = 1
      BY <1>2, <2>2
    <3>2. ~ MapFunction(0, g, b) /\ MapFunction(15, g, b) /\ ~ MapFunction(10, g, b) /\ MapFunction(5, g, b)
      BY <1>3, <1>4, <3>1
    <3> QED
      BY <1>3, <2>2, <3>2, Zenon DEF MAP_ZERO, MAP_ONE, MAP_G, MAP_NOTG
  <2> QED
    BY <2>1, <2>2
<1>6. MapFunction(MAP_S, g, g) = g
  <2>1. CASE g
    <3>1. p(g, g) = 8
      BY <1>2, <2>1
    <3>2. MapFunction(12, g, g)
      BY <1>3, <1>4, <3>1
    <3> QED
      BY <1>3, <2>1, <3>2, Zenon DEF MAP_S
  <2>2. CASE ~ g
    <3>1. p(g, g) = 1
      BY <1>2, <2>2
    <3>2. ~ MapFunction(12, g, g)
      BY <1>3, <1>4, <3>1
    <3> QED
      BY <1>3, <2>2, <3>2, Zenon DEF MAP_S
  <2> QED
    BY <2>1, <2>2
<1> QED
  BY <1>5, <1>6

(* The rule's source, when the scan takes it.                              *)
LEMMA NewValueIs ==
  ASSUME TypeOK, TablesApart, IsDestUpdated, Provided, NEW w \in Words, NEW k,
         Fetch => tpos = start.tpos + k
  PROVE  MapFunction(rule.sdm, w[0], Source(w)) = NewValue(w[0], Datum(k))
<1> DEFINE x == CASE rule.sds = "site" -> w[0]
                  [] rule.sds = "tbus" -> Datum(k)
                  [] rule.sds = "lut" -> Lut[als][IF rule.las = "site" THEN w[0] ELSE Datum(k)]
<1>1. rule.sds \in {"site", "tbus", "lut"} /\ rule.las \in {"site", "tbus"}
  BY ScanAssumption DEF TypeOK, RuleType
<1>2. w[0] \in BOOLEAN
  BY TurnFacts DEF Words
<1>3. NewValue(w[0], Datum(k)) = MapFunction(rule.sdm, w[0], x)
  BY DEF NewValue
<1>4. CASE rule.sdm \in {MAP_ZERO, MAP_ONE, MAP_G, MAP_NOTG}
  <2> HIDE DEF x
  <2> QED
    BY <1>2, <1>3, <1>4, MapTables
<1>5. CASE rule.sdm \notin {MAP_ZERO, MAP_ONE, MAP_G, MAP_NOTG}
  <2>1. IsSrcNeeded("tbus") => Tbus = Datum(k)
    BY DEF Provided, Fetch, Tbus, Datum
  <2>2. IsSrcNeeded("site") => Unglued(w) = w[0]
    BY DEF Unglued
  <2>3. rule.las \in OtherSources
    BY DEF OtherSources
  <2>4. rule.sds # "site" => rule.sds \in SiteSources
    BY <1>5 DEF SiteSources
  <2>5. rule.sds = "site" => IsSrcNeeded("site")
    <3> SUFFICES ASSUME rule.sds = "site", ~ IsSrcNeeded("site") PROVE FALSE
      OBVIOUS
    <3>1. rule.sdm = MAP_S
      BY <1>5 DEF Provided
    <3>2. SiteSources = {}
      BY <3>1 DEF SiteSources, MAP_S, MAP_NOTS, MAP_ZERO, MAP_ONE, MAP_G, MAP_NOTG
    <3> QED
      BY <3>2 DEF IsDestUpdated
  <2>6. IsSrcNeeded(rule.las) /\ (rule.sds = "tbus" => IsSrcNeeded("tbus"))
    BY <2>3, <2>4 DEF IsSrcNeeded
  <2>7. Source(w) = x
    <3>1. CASE rule.sds = "site"
      BY <2>2, <2>5, <3>1 DEF Source
    <3>2. CASE rule.sds = "tbus"
      BY <2>1, <2>6, <3>2 DEF Source
    <3>3. CASE rule.sds = "lut"
      <4>1. LutData(w) = Lut[als][IF rule.las = "site" THEN w[0] ELSE Datum(k)]
        <5>1. (IF rule.las = "site" THEN Unglued(w) ELSE Tbus) = (IF rule.las = "site" THEN w[0] ELSE Datum(k))
          BY <1>1, <2>1, <2>2, <2>6
        <5>2. lutAddr = als
          BY DEF TablesApart
        <5> QED
          BY <5>1, <5>2 DEF LutData
      <4> QED
        BY <3>3, <4>1 DEF Source
    <3> QED
      BY <1>1, <3>1, <3>2, <3>3
  <2> QED
    BY <1>3, <2>7
<1> QED
  BY <1>4, <1>5

(* A destination that is not updated has a rule that keeps the site.       *)
LEMMA OldValue ==
  ASSUME TypeOK, ~ IsDestUpdated, Provided, NEW v \in BOOLEAN, NEW t
  PROVE  NewValue(v, t) = v
<1>1. SiteSources = {}
  BY DEF IsDestUpdated
<1>2. rule.sdm = MAP_G \/ (rule.sds = "site" /\ rule.sdm \in {MAP_S, MAP_NOTS})
  BY <1>1 DEF SiteSources
<1>3. CASE rule.sdm = MAP_G
  BY <1>3, MapTables DEF NewValue
<1>4. CASE rule.sds = "site" /\ rule.sdm \in {MAP_S, MAP_NOTS}
  <2>1. rule.sdm = MAP_S
    BY <1>4 DEF Provided, MAP_S, MAP_NOTS, MAP_ZERO, MAP_ONE, MAP_G, MAP_NOTG
  <2>2. NewValue(v, t) = MapFunction(MAP_S, v, v)
    BY <1>4, <2>1 DEF NewValue
  <2> QED
    BY <2>2, MapTables
<1> QED
  BY <1>2, <1>3, <1>4

(* A step of the scan leaves the rule and the sites' cells what they were. *)
LEMMA SceneStays ==
  ASSUME UNCHANGED <<registers, tables, start, reading>>
  PROVE  /\ PlaneUsed' = PlaneUsed /\ IsDestUpdated' = IsDestUpdated /\ Fetch' = Fetch
         /\ Provided' = Provided /\ Low' = Low /\ Old' = Old
         /\ \A k : Cell(k)' = Cell(k) /\ Datum(k)' = Datum(k)
         /\ \A v, t : NewValue(v, t)' = NewValue(v, t)
         /\ \A c, v, k : Right(c, v, k)' = Right(c, v, k)
BY DEF registers, tables, PlaneUsed, IsDestUpdated, Fetch, Provided, Low, Cell, Datum, NewValue, Right, Old,
   SiteSources, OtherSources, IsSrcNeeded

(* The place of the scan in numbers.                                       *)
LEMMA SweepFacts ==
  ASSUME IInv, CountInv, pc \in {"sweep", "site", "last"}
  PROVE  /\ IsCut(dcm) /\ numXBits = DCMRLowBit(dcm) /\ numXBits \in 1 .. AddrBits /\ WordLog <= numXBits
         /\ osr \in SUBSET Bit /\ esc \in 0 .. AddrBits
         /\ W \in Nat /\ W >= 2 /\ BitOffset(osr) \in 0 .. W - 1 /\ Place \in 0 .. W - 1
         /\ Low \in 0 .. numXBits /\ 2^Low \in Nat \ {0} /\ xLen * W = 2^Low /\ xLen \in Nat \ {0}
         /\ sir \in Nat /\ sir % 2^Low = 0 /\ sir % W = 0
         /\ start.sir \in Nat /\ start.sites \in Nat /\ Begun \in Nat /\ start.sir + Begun = sir
         /\ Begun + 2^Low <= start.sites
<1>1. TypeOK /\ ShapeInv
  BY DEF IInv
<1>2. /\ IsCut(dcm) /\ numXBits = DCMRLowBit(dcm) /\ numXBits \in 1 .. AddrBits /\ WordLog <= numXBits
      /\ osr \in SUBSET Bit /\ esc \in 0 .. AddrBits /\ sir \in Nat /\ siteCtr \in Nat /\ siteCtr >= 1
      /\ xLen \in Nat \ {0} /\ i \in 0 .. W - 1
  BY <1>1, ScanAssumption DEF TypeOK, ShapeInv
<1>3. /\ start.sir \in Nat /\ start.sites = 2^esc - (start.sir % 2^esc)
      /\ Low \in WordLog .. numXBits /\ Low <= esc /\ xLen * W = 2^Low
      /\ sir % 2^Low = 0 /\ start.sir <= sir
      /\ sir + siteCtr * 2^Low = start.sir + start.sites
  BY DEF CountInv, Sweeping
<1>4. Low \in 0 .. numXBits /\ Low \in Nat
  BY <1>2, <1>3, WordFacts
<1>5. 2^Low \in Nat \ {0}
  BY <1>4, PowType
<1>6. W \in Nat /\ W >= 2
  BY TurnFacts
<1>7. BitOffset(osr) \in 0 .. W - 1
  <2>1. osr \in SUBSET Nat /\ IsFiniteSet(osr)
    BY <1>2, BitFinite
  <2> DEFINE m == Num(osr)
  <2>2. m \in Nat
    BY <2>1, NumChosen
  <2> HIDE DEF m, W
  <2>3. m % W \in 0 .. W - 1
    BY <1>6, <2>2
  <2> QED
    BY <2>3 DEF BitOffset, m
<1>8. Place \in 0 .. W - 1
  BY <1>2, <1>7, TurnFacts DEF Place
<1>9. sir % W = 0
  <2> DEFINE q == 2^Low
             j == sir \div q
             k == j * xLen
  <2> HIDE DEF W, q
  <2>1. q \in Nat \ {0} /\ sir \in Int /\ sir % q = 0 /\ q = xLen * W
    BY <1>2, <1>3, <1>5 DEF q
  <2>2. j \in Int /\ sir = q * j + (sir % q)
    BY <2>1, DivMod
  <2> HIDE DEF j
  <2>3. q * j \in Int
    BY <2>1, <2>2
  <2>4. sir = q * j
    BY <2>1, <2>2, <2>3
  <2>5. (xLen * W) * j = W * (j * xLen) /\ j * xLen \in Int
    BY <1>2, <1>6, <2>2
  <2> HIDE DEF k
  <2>6. k \in Int /\ sir = W * k
    BY <2>1, <2>4, <2>5 DEF k
  <2>7. 0 \in 0 .. W - 1 /\ W \in Nat \ {0} /\ W * k + 0 = sir
    BY <1>6, <2>6
  <2> QED
    BY <1>2, <2>6, <2>7, DivUnique
<1>10. start.sites \in Nat /\ Begun \in Nat /\ start.sir + Begun = sir /\ Begun + 2^Low <= start.sites
  <2> DEFINE p == 2^esc
             q == 2^Low
             r == start.sir % p
             n == start.sites
  <2>1. esc \in Nat
    BY <1>2
  <2>2. p \in Nat \ {0}
    BY <2>1, PowType
  <2>3. q \in Nat \ {0}
    BY <1>5
  <2> HIDE DEF p, q
  <2>4. r \in 0 .. p - 1
    BY <1>3, <2>2
  <2>5. n = p - r
    BY <1>3 DEF p
  <2> HIDE DEF r, n
  <2>6. n \in Nat
    BY <2>2, <2>4, <2>5
  <2> DEFINE m == siteCtr * q
  <2>7. m \in Nat /\ m >= q /\ sir + m = start.sir + n
    <3>1. m \in Nat /\ m >= q
      BY <1>2, <2>3
    <3>2. sir + m = start.sir + n
      BY <1>3 DEF q, n
    <3> QED
      BY <3>1, <3>2
  <2> HIDE DEF m
  <2> DEFINE a == start.sir
  <2>8. a \in Nat /\ a <= sir /\ sir + m = a + n
    BY <1>3, <2>7
  <2>9. Begun = sir - a
    BY DEF Begun
  <2> HIDE DEF a
  <2>10. sir - a \in Nat /\ a + (sir - a) = sir /\ (sir - a) + q <= n
    BY <1>2, <2>3, <2>6, <2>7, <2>8
  <2> QED
    BY <2>6, <2>9, <2>10 DEF a, n, q
<1> QED
  BY <1>2, <1>3, <1>4, <1>5, <1>6, <1>7, <1>8, <1>9, <1>10

(* The sites of the scan have cells of their own.                          *)
LEMMA ScanCellsApart ==
  ASSUME IInv, CountInv, pc \in {"sweep", "site", "last"},
         NEW j \in 0 .. start.sites - 1, NEW k \in 0 .. start.sites - 1, Cell(j) = Cell(k)
  PROVE  j = k
<1>1. IsCut(dcm) /\ osr \in SUBSET Bit /\ esc \in 0 .. AddrBits /\ start.sir \in Nat
  BY SweepFacts
<1>2. start.sites = 2^esc - (start.sir % 2^esc)
  BY DEF CountInv, Sweeping
<1> DEFINE s == start.sir
<1>3. s \in Nat /\ j \in 0 .. (2^esc - (s % 2^esc)) - 1 /\ k \in 0 .. (2^esc - (s % 2^esc)) - 1
  BY <1>1, <1>2
<1>4. Num(FieldAdd(Bits(s + j), osr, dcm)) = Num(FieldAdd(Bits(s + k), osr, dcm))
  BY DEF Cell
<1> HIDE DEF s
<1> QED
  BY <1>1, <1>3, <1>4, CellsApart

(* How far a sweep is.                                                     *)
LEMMA AtFacts ==
  ASSUME NEW w \in Nat \ {0}, NEW x \in Nat, NEW c \in 1 .. x, NEW b \in 0 .. w - 1
  PROVE  /\ (x - c) * w + b \in 0 .. x * w - 1
         /\ ((x - c) * w + b) + 1 = IF b = w - 1 THEN (x - (c - 1)) * w + 0 ELSE (x - c) * w + (b + 1)
<1> DEFINE y == x - c
           m == y * w
           k == x * w
<1>1. y \in Nat /\ y + 1 <= x /\ x - (c - 1) = y + 1
  OBVIOUS
<1> HIDE DEF y
<1>2. (y + 1) * w = m + w /\ m \in Nat /\ k \in Nat
  BY <1>1
<1>3. (y + 1) * w <= k
  <2> DEFINE z == x - (y + 1)
  <2>1. z \in Nat /\ x = (y + 1) + z
    BY <1>1
  <2> HIDE DEF z
  <2>2. ((y + 1) + z) * w = (y + 1) * w + z * w /\ z * w \in Nat /\ (y + 1) * w \in Nat
    BY <1>1, <2>1
  <2> QED
    BY <2>1, <2>2
<1> HIDE DEF m, k
<1>4. m + b \in 0 .. k - 1
  BY <1>2, <1>3
<1>5. (m + b) + 1 = IF b = w - 1 THEN (m + w) + 0 ELSE m + (b + 1)
  BY <1>2
<1> QED
  BY <1>1, <1>2, <1>4, <1>5 DEF m, k, y

(* The site to be updated next is covered, its cell is at its place in the *)
(* word, and no site before it had that cell.                              *)
LEMMA SiteCell ==
  ASSUME IInv, CountInv, PlaceInv, pc = "site"
  PROVE  /\ Sofar \in Nat /\ Sofar = Begun + At /\ At \in 0 .. 2^Low - 1 /\ Sofar + 1 <= start.sites
         /\ Cell(Sofar) = Num(addr) + Place
         /\ \A j \in 0 .. Sofar - 1 : Cell(j) # Cell(Sofar)
<1>1. /\ IsCut(dcm) /\ numXBits = DCMRLowBit(dcm) /\ osr \in SUBSET Bit
      /\ W \in Nat /\ W >= 2 /\ Low \in 0 .. numXBits /\ 2^Low \in Nat \ {0} /\ xLen * W = 2^Low
      /\ xLen \in Nat \ {0} /\ sir \in Nat /\ sir % 2^Low = 0
      /\ start.sir \in Nat /\ start.sites \in Nat /\ Begun \in Nat /\ start.sir + Begun = sir
      /\ Begun + 2^Low <= start.sites
  BY SweepFacts
<1>2. xCtr \in 1 .. xLen /\ i \in 0 .. W - 1
  BY DEF IInv, TypeOK, ShapeInv, PlaceInv
<1>3. At \in 0 .. 2^Low - 1
  <2>1. W \in Nat \ {0} /\ xLen \in Nat
    BY <1>1
  <2> HIDE DEF W
  <2>2. (xLen - xCtr) * W + i \in 0 .. xLen * W - 1
    BY <1>2, <2>1, AtFacts
  <2> QED
    BY <1>1, <2>2 DEF At
<1>4. Sofar = Begun + At
  BY DEF Sofar
<1>5. Sofar \in Nat /\ Sofar + 1 <= start.sites
  <2> DEFINE q == 2^Low
             n == start.sites
  <2>1. q \in Nat /\ n \in Nat /\ Begun \in Nat /\ Begun + q <= n /\ At \in 0 .. q - 1
    BY <1>1, <1>3
  <2> HIDE DEF q, n, Begun, At
  <2>2. Begun + At \in Nat /\ (Begun + At) + 1 <= n
    BY <2>1
  <2> QED
    BY <1>4, <2>2 DEF n
<1>6. Cell(Sofar) = Num(addr) + Place
  <2>1. start.sir + Sofar = sir + At
    <3> DEFINE a == start.sir
    <3>1. a \in Nat /\ a + Begun = sir /\ At \in Nat /\ Begun \in Nat
      BY <1>1, <1>3
    <3> HIDE DEF a, Begun, At
    <3>2. a + (Begun + At) = sir + At
      BY <3>1
    <3> QED
      BY <1>4, <3>2 DEF a
  <2>2. Cell(Sofar) = Num(FieldAdd(Bits(sir + At), osr, dcm))
    BY <2>1 DEF Cell
  <2> DEFINE n == numXBits
             F == First
             m == At
             low == Low
             mask == dcm
             A == osr
             s == sir
  <2>3. IsCut(mask) /\ n = DCMRLowBit(mask) /\ A \in SUBSET Bit /\ low \in 0 .. n /\ s \in Nat
    BY <1>1
  <2>4. Whole(s, low) /\ Below(m, low) /\ F = AddSiteAddress(Bits(s), A, mask)
    BY <1>1, <1>3 DEF Whole, Below, First
  <2> HIDE DEF n, F, m, low, mask, A, s
  <2>5. Num(FieldAdd(Bits(s + m), A, mask)) = InRow(F, n, m)
    BY <2>3, <2>4, RowCell
  <2>6. Num(addr) + Place = InRow(First, numXBits, At)
    BY DEF PlaceInv
  <2> QED
    BY <2>2, <2>5, <2>6 DEF n, F, m, mask, A, s
<1>7. ASSUME NEW j \in 0 .. Sofar - 1 PROVE Cell(j) # Cell(Sofar)
  <2> SUFFICES ASSUME Cell(j) = Cell(Sofar) PROVE FALSE
    OBVIOUS
  <2> DEFINE k == Sofar
             n == start.sites
  <2>1. k \in Nat /\ k + 1 <= n /\ n \in Nat /\ j \in 0 .. k - 1
    BY <1>1, <1>5
  <2> HIDE DEF k, n
  <2>2. j \in 0 .. n - 1 /\ k \in 0 .. n - 1 /\ j # k
    BY <2>1
  <2>3. j \in 0 .. start.sites - 1 /\ k \in 0 .. start.sites - 1 /\ Cell(j) = Cell(k)
    BY <2>2 DEF n, k
  <2>4. j = k
    BY <2>3, ScanCellsApart
  <2> QED
    BY <2>2, <2>4
<1> QED
  BY <1>3, <1>4, <1>5, <1>6, <1>7

(* A row of R = w * e sites, its word at a = w * k, in which the v-th site *)
(* has place p; and the next site's place, in the word or in the next one. *)
AtPlace(w, e, R, k, a, v, p) ==
  /\ w \in Nat \ {0} /\ e \in Nat \ {0} /\ R = w * e /\ k \in Nat /\ a = w * k
  /\ v \in Nat /\ p \in 0 .. w - 1 /\ a < R /\ a + p = v % R
NextSite(w, R, a, v, p) ==
  /\ p = w - 1 => (a + w) % R = (v + 1) % R
  /\ p # w - 1 => a + (p + 1) = (v + 1) % R

(* The place after a site update.                                          *)
LEMMA NextPlace ==
  ASSUME NEW w, NEW e, NEW R, NEW k, NEW a, NEW v, NEW p, AtPlace(w, e, R, k, a, v, p)
  PROVE  NextSite(w, R, a, v, p)
<1>0. /\ w \in Nat \ {0} /\ e \in Nat \ {0} /\ R = w * e /\ k \in Nat /\ a = w * k
      /\ v \in Nat /\ p \in 0 .. w - 1 /\ a < R /\ a + p = v % R
  BY DEF AtPlace
<1>1. R \in Nat \ {0} /\ a \in Nat
  BY <1>0
<1>2. a + w <= R
  <2>1. k < e
    <3> SUFFICES ASSUME e <= k PROVE FALSE
      BY <1>0
    <3> DEFINE z == k - e
    <3>1. z \in Nat /\ k = e + z
      BY <1>0
    <3> HIDE DEF z
    <3>2. w * (e + z) = w * e + w * z /\ w * z \in Nat
      BY <1>0, <3>1
    <3> QED
      BY <1>0, <1>1, <3>1, <3>2
  <2> DEFINE z == e - (k + 1)
  <2>2. z \in Nat /\ e = (k + 1) + z
    BY <1>0, <2>1
  <2> HIDE DEF z
  <2>3. w * ((k + 1) + z) = (w * k + w) + w * z /\ w * z \in Nat
    BY <1>0, <2>2
  <2> QED
    BY <1>0, <1>1, <2>2, <2>3
<1>3. (v + 1) % R = ((v % R) + 1) % R
  <2>1. v \in Int
    BY <1>0
  <2> DEFINE one == 1
  <2>2. one \in Int
    OBVIOUS
  <2> HIDE DEF one
  <2>3. ((v % R) + one) % R = (v + one) % R
    BY <1>1, <2>1, <2>2, ModSum
  <2> QED
    BY <2>3 DEF one
<1>4. (v + 1) % R = ((a + p) + 1) % R
  BY <1>0, <1>3
<1>5. p = w - 1 => (a + p) + 1 = a + w
  BY <1>0, <1>1
<1>6. p # w - 1 => (a + p) + 1 \in 0 .. R - 1 /\ (a + p) + 1 = a + (p + 1)
  BY <1>0, <1>1, <1>2
<1>7. \A y \in 0 .. R - 1 : y % R = y
  <2> TAKE y \in 0 .. R - 1
  <2> DEFINE z == 0
  <2>1. z \in Int /\ y = R * z + y /\ y \in Int
    BY <1>1
  <2> HIDE DEF z
  <2> QED
    BY <1>1, <2>1, DivUnique
<1> QED
  BY <1>0, <1>4, <1>5, <1>6, <1>7 DEF NextSite

(* What a site update does at its place.                                   *)
LEMMA UpdateSiteDoes ==
  ASSUME IInv, CountInv, PlaceInv, UpdateSite
  PROVE  /\ pc = "site" /\ pc' \in {"site", "last"}
         /\ UNCHANGED <<registers, tables, start, reading, sir, siteCtr, xLen, smeared, numXBits, osr, dcm>>
         /\ SimUpdateSite(word)
         /\ i' = Turn(i, 1) /\ Place' = Turn(Place, 1) /\ At' = At + 1 /\ Sofar' = Sofar + 1
         /\ Place = W - 1 =>
              /\ plane' = IF IsDestUpdated THEN Store(addr, Updated(word)) ELSE plane
              /\ addr' = IF numXBits > WordLog THEN NextWord(addr) ELSE addr
              /\ word' = IF numXBits > WordLog THEN Load(plane', addr') ELSE Updated(word)
         /\ Place # W - 1 => word' = Updated(word) /\ plane' = plane /\ addr' = addr
         /\ pc' = "site" => xCtr' \in 1 .. xLen
         /\ pc' = "last" => i = W - 1 /\ i' = 0 /\ xCtr = 1 /\ xCtr' = 0
<1>1. /\ pc = "site" /\ SimUpdateSite(word)
      /\ i' = (i + 1) % W
      /\ xCtr' = (IF i = W - 1 THEN xCtr - 1 ELSE xCtr)
      /\ pc' = (IF i = W - 1 /\ xCtr = 1 THEN "last" ELSE "site")
      /\ UNCHANGED <<registers, tables, history, siteCtr, xLen, sir, reading, smeared>>
  BY DEF UpdateSite
<1>2. UNCHANGED <<registers, tables, start, reading, sir, siteCtr, xLen, smeared, numXBits, osr, dcm>>
  BY <1>1 DEF registers, history
<1>3. /\ BitOffset(osr) = W - 1 - i =>
           /\ plane' = IF IsDestUpdated THEN Store(addr, Updated(word)) ELSE plane
           /\ addr' = IF numXBits > WordLog THEN NextWord(addr) ELSE addr
           /\ word' = IF numXBits > WordLog THEN Load(plane', addr') ELSE Updated(word)
      /\ BitOffset(osr) # W - 1 - i => word' = Updated(word) /\ plane' = plane /\ addr' = addr
  BY Zenon DEF UpdateSite
<1>4. /\ W \in Nat /\ W >= 2 /\ BitOffset(osr) \in 0 .. W - 1 /\ xLen \in Nat \ {0}
      /\ Begun \in Nat
  BY <1>1, SweepFacts
<1>5. i \in 0 .. W - 1 /\ xCtr \in 1 .. xLen
  BY <1>1, <1>4 DEF IInv, TypeOK, ShapeInv, PlaceInv
<1>6. i' = Turn(i, 1)
  <2>1. Turn(i, 1) = IF i = W - 1 THEN 0 ELSE i + 1
    BY <1>5, TurnFacts
  <2> HIDE DEF W
  <2>2. (i + 1) % W = IF i = W - 1 THEN 0 ELSE i + 1
    <3>1. CASE i = W - 1
      <4>1. i + 1 = W
        BY <1>4, <3>1
      <4>2. W % W = 0
        BY <1>4
      <4> QED
        BY <3>1, <4>1, <4>2
    <3>2. CASE i # W - 1
      <4> DEFINE u == i + 1
                 z == 0
      <4>1. u \in 0 .. W - 1 /\ u \in Int /\ z \in Int /\ u = W * z + u /\ W \in Nat \ {0}
        BY <1>4, <1>5, <3>2
      <4> HIDE DEF u, z
      <4>2. u % W = u
        BY <4>1, DivUnique
      <4> QED
        BY <3>2, <4>2 DEF u
    <3> QED
      BY <3>1, <3>2
  <2> QED
    BY <1>1, <2>1, <2>2
<1>7. Place' = Turn(Place, 1)
  <2>1. Place' = Turn(i', BitOffset(osr))
    BY <1>2 DEF Place, BitOffset
  <2>2. Turn(Turn(i, 1), BitOffset(osr)) = Turn(Turn(i, BitOffset(osr)), 1)
    BY <1>4, <1>5, TurnFacts
  <2> QED
    BY <1>6, <2>1, <2>2 DEF Place
<1>8. At' = At + 1
  <2> DEFINE w == W
             x == xLen
             c == xCtr
             b == i
  <2>1. w \in Nat \ {0} /\ x \in Nat /\ c \in 1 .. x /\ b \in 0 .. w - 1
    BY <1>4, <1>5
  <2> HIDE DEF w, x, c, b
  <2>2. ((x - c) * w + b) + 1 = IF b = w - 1 THEN (x - (c - 1)) * w + 0 ELSE (x - c) * w + (b + 1)
    BY <2>1, AtFacts
  <2>3. i' = (IF i = W - 1 THEN 0 ELSE i + 1)
    BY <1>5, <1>6, TurnFacts
  <2>4. At = (x - c) * w + b
    BY DEF At, x, c, w, b
  <2>5. At' = (xLen - xCtr') * W + i'
    BY <1>2 DEF At
  <2>6. CASE i = W - 1
    BY <1>1, <2>2, <2>3, <2>4, <2>5, <2>6, Zenon DEF x, c, w, b
  <2>7. CASE i # W - 1
    BY <1>1, <2>2, <2>3, <2>4, <2>5, <2>7, Zenon DEF x, c, w, b
  <2> QED
    BY <2>6, <2>7
<1>9. pc' \in {"site", "last"}
  BY <1>1
<1>10. Sofar' = Sofar + 1
  <2>1. Sofar = Begun + At /\ Sofar' = Begun + At'
    BY <1>1, <1>2, <1>9 DEF Sofar, Begun
  <2>2. At \in Nat
    <3>1. Low \in 0 .. numXBits /\ 2^Low \in Nat
      BY <1>1, SweepFacts
    <3>2. At \in 0 .. 2^Low - 1
      BY <1>1, SiteCell
    <3> HIDE DEF At
    <3> QED
      BY <3>1, <3>2
  <2> HIDE DEF At, Begun
  <2> QED
    BY <1>4, <1>8, <2>1, <2>2
<1>11. Place = W - 1 <=> BitOffset(osr) = W - 1 - i
  <2>1. \A k, b \in 0 .. W - 1 : Turn(b, k) = W - 1 <=> k = (W - 1) - b
    BY TurnFacts
  <2> HIDE DEF W
  <2>2. Turn(i, BitOffset(osr)) = W - 1 <=> BitOffset(osr) = (W - 1) - i
    BY <1>4, <1>5, <2>1
  <2> QED
    BY <2>2 DEF Place
<1>12. pc' = "site" => xCtr' \in 1 .. xLen
  <2> HIDE DEF W
  <2> QED
    BY <1>1, <1>4, <1>5
<1>13. pc' = "last" => i = W - 1 /\ i' = 0 /\ xCtr = 1 /\ xCtr' = 0
  <2>1. pc' = "last" => i = W - 1 /\ xCtr = 1
    BY <1>1
  <2>2. i = W - 1 => Turn(i, 1) = 0
    BY <1>5, TurnFacts
  <2> QED
    BY <1>1, <1>6, <2>1, <2>2
<1> QED
  BY <1>1, <1>2, <1>3, <1>6, <1>7, <1>8, <1>9, <1>10, <1>11, <1>12, <1>13

(* A sweep begins at the first site's place.                               *)
LEMMA BeginPlace ==
  ASSUME IInv, CountInv, PlaceInv, BeginSweep
  PROVE  /\ PlaceInv' /\ At' = 0 /\ Place' = BitOffset(osr) /\ Sofar' = Sofar
         /\ First' = First /\ pc = "sweep" /\ pc' = "site"
<1>1. /\ pc = "sweep" /\ pc' = "site" /\ addr' = WordOf(First) /\ xCtr' = xLen /\ i' = 0
      /\ UNCHANGED <<sir, osr, dcm, numXBits, xLen, start>>
  BY DEF BeginSweep, First, registers, history
<1>2. /\ IsCut(dcm) /\ numXBits = DCMRLowBit(dcm) /\ numXBits \in 1 .. AddrBits /\ WordLog <= numXBits
      /\ osr \in SUBSET Bit /\ W \in Nat /\ W >= 2 /\ BitOffset(osr) \in 0 .. W - 1
      /\ xLen \in Nat \ {0} /\ sir \in Nat /\ sir % W = 0
      /\ Begun \in Nat
  BY <1>1, SweepFacts
<1>3. First' = First
  BY <1>1 DEF First
<1>4. At' = 0
  <2> HIDE DEF W
  <2>1. At' = (xLen - xLen) * W + 0
    BY <1>1 DEF At
  <2> QED
    BY <1>2, <2>1
<1>5. Place' = BitOffset(osr)
  <2>1. Place' = Turn(0, BitOffset(osr))
    BY <1>1 DEF Place, BitOffset
  <2> QED
    BY <1>2, <2>1, TurnFacts
<1>6. Num(addr') + BitOffset(osr) = InRow(First, numXBits, 0)
  <2> DEFINE F == First
             n == numXBits
             X == 0 .. n - 1
             f == Num(F \cap X)
             R == 2^n
  <2>1. F \in SUBSET Bit
    BY <1>2, SiteTyped DEF First
  <2>2. Num(WordOf(F)) + BitOffset(osr) = Num(F)
    <3>1. F = AddSiteAddress(Bits(sir), osr, dcm)
      BY DEF First
    <3> HIDE DEF F
    <3> QED
      BY <1>2, <3>1, FirstWord
  <2>3. Num(F) = Num(F \ X) + f /\ f \in 0 .. R - 1
    <3> HIDE DEF F
    <3> QED
      BY <1>2, <2>1, NumAddress
  <2>4. R \in Nat \ {0}
    BY <1>2, PowType
  <2> HIDE DEF f, R
  <2>5. (f + 0) % R = f
    <3> DEFINE z == 0
    <3>1. z \in Int /\ f \in Int /\ f = R * z + f /\ f + 0 = f
      BY <2>3, <2>4
    <3> HIDE DEF z
    <3>2. f % R = f
      BY <2>3, <2>4, <3>1, DivUnique
    <3> QED
      BY <3>1, <3>2
  <2> QED
    BY <1>1, <2>2, <2>3, <2>5 DEF InRow, f, R
<1>7. PlaceInv'
  <2>1. Num(addr') + Place' = InRow(First', numXBits', At')
    BY <1>1, <1>3, <1>4, <1>5, <1>6
  <2>2. xCtr' <= xLen'
    BY <1>1, <1>2
  <2> QED
    BY <1>1, <2>1, <2>2 DEF PlaceInv
<1>8. Sofar' = Sofar
  <2>1. Sofar = Begun /\ Sofar' = Begun + At'
    BY <1>1 DEF Sofar, Begun
  <2> HIDE DEF Begun
  <2> QED
    BY <1>2, <1>4, <2>1
<1> QED
  BY <1>1, <1>3, <1>4, <1>5, <1>7, <1>8

(* A site update goes on to the next place, in the word or in the row.     *)
LEMMA UpdatePlace ==
  ASSUME IInv, RowKept, CountInv, PlaceInv, UpdateSite
  PROVE  PlaceInv'
<1>1. /\ pc = "site" /\ pc' \in {"site", "last"}
      /\ UNCHANGED <<registers, tables, start, reading, sir, siteCtr, xLen, smeared, numXBits, osr, dcm>>
      /\ Place' = Turn(Place, 1) /\ At' = At + 1
      /\ Place = W - 1 => addr' = IF numXBits > WordLog THEN NextWord(addr) ELSE addr
      /\ Place # W - 1 => addr' = addr
      /\ pc' = "site" => xCtr' \in 1 .. xLen
      /\ pc' = "last" => i' = 0 /\ xCtr' = 0
  BY UpdateSiteDoes
<1>2. /\ numXBits \in 1 .. AddrBits /\ WordLog <= numXBits /\ W \in Nat /\ W >= 2 /\ Place \in 0 .. W - 1
      /\ WordLog \in Nat /\ numXBits \in Nat /\ Low \in 0 .. numXBits /\ 2^Low \in Nat
  BY <1>1, SweepFacts, WordFacts
<1>3. addr \in SUBSET Bit /\ Aligned(addr) /\ addr' \in SUBSET Bit
  <2>1. IInv'
    BY SweepStep
  <2> QED
    BY <2>1 DEF IInv, TypeOK, ShapeInv
<1> DEFINE X == 0 .. numXBits - 1
           R == 2^numXBits
           a == Num(addr \cap X)
           b == Num(addr' \cap X)
           H == Num(First \ X)
           f == Num(First \cap X)
           p == Place
           v == f + At
<1>4. addr \ X = First \ X
  BY <1>1 DEF RowKept, First
<1>5. addr' \ X = First \ X
  <2>1. RowKept'
    <3>1. [Next]_vars
      BY DEF Next
    <3> QED
      BY <3>1, RowStep
  <2>2. addr' \ (0 .. numXBits' - 1) = AddSiteAddress(Bits(sir'), osr', dcm') \ (0 .. numXBits' - 1)
    BY <1>1, <2>1, Zenon DEF RowKept
  <2> QED
    BY <1>1, <2>2 DEF First
<1>6. First \in SUBSET Bit
  <2>1. IsCut(dcm)
    BY <1>1, SweepFacts
  <2> QED
    BY <2>1, SiteTyped DEF First
<1>7. Num(addr) = H + a /\ Num(addr') = H + b /\ a \in 0 .. R - 1 /\ b \in 0 .. R - 1 /\ H \in Nat /\ f \in Nat
  <2>1. ASSUME NEW A \in SUBSET Bit
        PROVE  Num(A) = Num(A \ X) + Num(A \cap X) /\ Num(A \cap X) \in 0 .. R - 1 /\ Num(A \ X) \in Nat
    BY <1>2, NumAddress
  <2>2. f \in 0 .. R - 1 /\ H \in Nat
    BY <1>6, <2>1
  <2>3. f \in Nat
    <3> HIDE DEF f
    <3> QED
      BY <2>2
  <2> QED
    BY <1>3, <1>4, <1>5, <2>1, <2>2, <2>3
<1>8. PICK e \in Nat \ {0} : R = W * e
  <2>1. \E e \in Nat \ {0} : 2^numXBits = 2^WordLog * e
    BY <1>2, PowSplit
  <2> QED
    BY <2>1 DEF W
<1>9. PICK k \in Nat : a = W * k
  <2>1. addr \cap X \in SUBSET Bit
    BY <1>3
  <2>2. addr \cap X \in SUBSET Nat /\ IsFiniteSet(addr \cap X)
    BY <2>1, BitFinite
  <2>3. \A c \in addr \cap X : WordLog <= c
    BY <1>2, <1>3, <2>2 DEF Aligned
  <2> DEFINE S == addr \cap X
  <2> HIDE DEF S
  <2>4. \E k \in Nat : Num(S) = 2^WordLog * k
    BY <1>2, <2>2, <2>3, NumHigh DEF S
  <2> QED
    BY <2>4 DEF W, S
<1>10. At \in Nat /\ v \in Nat
  <2>1. At \in 0 .. 2^Low - 1
    BY <1>1, SiteCell
  <2> HIDE DEF At, f
  <2> QED
    BY <1>2, <1>7, <2>1
<1>11. a + p = v % R
  <2>1. Num(addr) + Place = H + (v % R)
    BY <1>1 DEF PlaceInv, InRow
  <2> HIDE DEF a, H, v, R
  <2>2. R \in Nat \ {0}
    BY <1>2, PowType DEF R
  <2>3. v % R \in 0 .. R - 1
    BY <1>10, <2>2, DivMod
  <2> DEFINE z == v % R
             n == Num(addr)
  <2>4. z \in Int /\ n = H + a /\ n + p = H + z /\ H \in Int /\ a \in Int /\ p \in Int
    BY <1>2, <1>7, <2>1, <2>3
  <2> HIDE DEF z, n, p
  <2>5. a + p = z
    BY <2>4
  <2> QED
    BY <2>5 DEF z
<1>12. b + Place' = (v + 1) % R
  <2>1. /\ p = W - 1 => (a + W) % R = (v + 1) % R
        /\ p # W - 1 => a + (p + 1) = (v + 1) % R
    <3>1. a < R
      <4>1. R \in Nat \ {0}
        BY <1>2, PowType
      <4> HIDE DEF a, R
      <4> QED
        BY <1>7, <4>1
    <3>2. AtPlace(W, e, R, k, a, v, p)
      BY <1>2, <1>8, <1>9, <1>10, <1>11, <3>1 DEF AtPlace
    <3> HIDE DEF R, a, v, p
    <3>3. NextSite(W, R, a, v, p)
      BY <3>2, NextPlace
    <3> QED
      BY <3>3 DEF NextSite
  <2>2. Turn(p, 1) = IF p = W - 1 THEN 0 ELSE p + 1
    BY <1>2, TurnFacts
  <2>3. CASE p # W - 1
    BY <1>1, <2>1, <2>2, <2>3
  <2>4. CASE p = W - 1
    <3>1. b = (a + W) % R
      <4>1. CASE numXBits > WordLog
        <5>1. addr' = NextWord(addr) /\ WordLog < numXBits
          BY <1>1, <1>2, <2>4, <4>1
        <5>2. Num(NextWord(addr) \cap X) = (Num(addr \cap X) + W) % 2^numXBits
          BY <1>2, <1>3, <5>1, NextNum
        <5> QED
          BY <5>1, <5>2
      <4>2. CASE ~ (numXBits > WordLog)
        <5>1. numXBits = WordLog /\ addr' = addr
          BY <1>1, <1>2, <2>4, <4>2
        <5>2. R = W /\ b = a
          BY <5>1 DEF W
        <5> HIDE DEF R, a, b, W
        <5>3. a = 0
          <6>1. a \in 0 .. W - 1 /\ a = W * k
            BY <1>7, <1>9, <5>2
          <6>2. k >= 1 => W * k >= W /\ W * k \in Nat
            BY <1>2
          <6>3. k = 0
            BY <1>2, <6>1, <6>2
          <6> QED
            BY <1>2, <6>1, <6>3
        <5>4. W % W = 0 /\ 0 + W = W
          BY <1>2
        <5> QED
          BY <5>2, <5>3, <5>4
      <4> QED
        BY <4>1, <4>2
    <3>2. b \in Nat
      <4> HIDE DEF b
      <4> QED
        BY <1>7
    <3>3. Place' = 0
      BY <1>1, <2>2, <2>4
    <3>4. b + Place' = b
      <4> HIDE DEF b
      <4> QED
        BY <3>2, <3>3
    <3> QED
      BY <2>1, <2>4, <3>1, <3>4
  <2> QED
    BY <2>3, <2>4
<1>13. Num(addr') + Place' = InRow(First', numXBits', At')
  <2>1. First' = First /\ numXBits' = numXBits
    BY <1>1 DEF First
  <2>2. InRow(First', numXBits', At') = H + ((f + (At + 1)) % R)
    BY <1>1, <2>1 DEF InRow
  <2>3. f + (At + 1) = v + 1
    <3> HIDE DEF At, f
    <3> QED
      BY <1>7, <1>10
  <2>4. Place' \in Nat
    <3>1. Place' \in 0 .. W - 1
      BY <1>1, <1>2, TurnFacts
    <3> HIDE DEF W
    <3> QED
      BY <1>2, <3>1
  <2>5. Num(addr') + Place' = H + (b + Place')
    <3> HIDE DEF b, H
    <3> QED
      BY <1>7, <2>4
  <2> QED
    BY <1>12, <2>2, <2>3, <2>5
<1>14. xLen \in Nat
  BY <1>1, SweepFacts
<1> QED
  BY <1>1, <1>13, <1>14 DEF PlaceInv

(* A scan is started, by one of the three registers that do.               *)
StartsScan(read) ==
  /\ pc = "idle" /\ tpos' \in Nat /\ SimExecScan(read) /\ UNCHANGED <<dcm, numXBits, esc, rule>>

(* What a step can be for the scan.                                        *)
LEMMA StepCases ==
  ASSUME IInv, [Next]_vars
  PROVE  \/ UNCHANGED vars
         \/ pc' = "idle"
         \/ \E read \in BOOLEAN : StartsScan(read)
         \/ BeginSweep \/ UpdateSite \/ SaveLastWord
         \/ GeneralSite
<1>0. tpos \in Nat
  BY DEF IInv, TypeOK
<1>1. ASSUME \/ \E c \in Cuts : WriteDR(c)
             \/ \E e \in Lengths : WriteSFR(e)
             \/ \E s \in Starts : WriteSIR(s)
             \/ \E r \in Rules : WriteDSR(r)
             \/ \E k \in Kicks : WriteKR(k)
             \/ \E a \in 0 .. 1 : WriteHER(a)
             \/ EndScan
      PROVE  pc' = "idle"
  BY <1>1 DEF WriteDR, WriteSFR, WriteSIR, WriteDSR, WriteKR, WriteHER, EndScan
<1>2. ASSUME WriteSIOR PROVE StartsScan(FALSE)
  <2>1. /\ pc = "idle" /\ tpos' = 0 /\ SimExecScan(FALSE) /\ UNCHANGED <<registers, tables, kicks, ideal>>
    BY <1>2 DEF WriteSIOR
  <2> QED
    BY <2>1 DEF StartsScan, registers
<1>3. ASSUME ReadSIOR PROVE StartsScan(TRUE)
  <2>1. /\ pc = "idle" /\ tpos' = tpos /\ SimExecScan(TRUE) /\ UNCHANGED <<registers, tables, kicks, ideal>>
    BY <1>3 DEF ReadSIOR
  <2> QED
    BY <1>0, <2>1 DEF StartsScan, registers
<1>4. ASSUME NEW kick \in BOOLEAN, NEW alt \in BOOLEAN, NEW scan \in BOOLEAN, WriteRMR(kick, alt, scan)
      PROVE  pc' = "idle" \/ StartsScan(FALSE)
  <2>1. CASE scan
    <3>1. pc = "idle" /\ UNCHANGED <<dcm, numXBits, ka, esc, rule, tpos>> /\ SimExecScan(FALSE)
      BY <1>4, <2>1 DEF WriteRMR
    <3> QED
      BY <1>0, <3>1 DEF StartsScan
  <2>2. CASE ~ scan
    <3>1. pc = "idle" /\ pc' = pc
      BY <1>4, <2>2 DEF WriteRMR
    <3> QED
      BY <3>1
  <2> QED
    BY <2>1, <2>2
<1> QED
  BY <1>1, <1>2, <1>3, <1>4 DEF Next

(* Where a scan starts.                                                    *)
LEMMA StartDoes ==
  ASSUME IInv, NEW read \in BOOLEAN, StartsScan(read)
  PROVE  /\ pc' \in {"sweep", "general", "done"}
         /\ Sweeping' => pc' = "sweep"
         /\ CountInv' /\ PlaceInv'
         /\ Sweeping' => Sofar' = 0
         /\ plane' = plane /\ start'.plane = plane /\ start'.tpos = tpos' /\ start'.events = eventCount
         /\ eventCount' = eventCount /\ eventCount \in Nat /\ shown' = <<>> /\ tpos' \in Nat
<1>1. TypeOK /\ tpos' \in Nat
  BY DEF IInv, StartsScan
<1>2. /\ reading' = read /\ shown' = <<>>
      /\ start' = [plane |-> plane, sir |-> sir, tpos |-> tpos', events |-> eventCount,
                   sites |-> ScanLength, fast |-> NoPerm]
      /\ NoPerm => SimScanNoPerm /\ pc' = IF PlaneUsed THEN "sweep" ELSE "done"
      /\ ~ NoPerm => pc' = IF PlaneUsed THEN "general" ELSE "done"
      /\ UNCHANGED <<eventCount, unglue, tbus, disp, xCtr, i, addr, word, sir, plane, smeared>>
      /\ UNCHANGED <<dcm, numXBits, esc, rule>>
  BY Zenon DEF StartsScan, SimExecScan
<1>3. /\ start'.plane = plane /\ start'.sir = sir /\ start'.tpos = tpos' /\ start'.events = eventCount
      /\ start'.sites = ScanLength /\ start'.fast = NoPerm
  BY <1>2
<1>4. PlaneUsed' = PlaneUsed
  BY <1>2 DEF PlaneUsed, IsDestUpdated, IsSrcNeeded, SiteSources, OtherSources
<1>5. pc' \in {"sweep", "general", "done"} /\ (pc' = "general" => ~ start'.fast)
  BY <1>2, <1>3
<1>6. Sweeping' => pc' = "sweep" /\ NoPerm /\ PlaneUsed
  BY <1>2, <1>3, <1>4 DEF Sweeping
<1>7. Sofar' = Begun' /\ Begun' = 0
  <2>1. sir \in Int /\ sir - sir = 0
    BY <1>1 DEF TypeOK
  <2> QED
    BY <1>2, <1>3, <1>5, <2>1 DEF Sofar, Begun
<1>8. ASSUME Sweeping'
      PROVE  /\ start'.plane \in [Cells -> BOOLEAN] /\ start'.sir \in Nat /\ start'.tpos \in Nat
             /\ start'.events \in Nat /\ start'.fast /\ PlaneUsed'
             /\ start'.sites = 2^esc' - (start'.sir % 2^esc')
             /\ Low' \in WordLog .. numXBits' /\ Low' <= esc' /\ xLen' * W = 2^Low'
             /\ sir' % 2^Low' = 0 /\ start'.sir <= sir'
             /\ sir' + siteCtr' * 2^Low' = start'.sir + start'.sites
             /\ pc' # "done"
  <2>1. NoPerm /\ PlaneUsed /\ pc' = "sweep"
    BY <1>6, <1>8
  <2> DEFINE low == Min({esc, numXBits})
  <2>2. /\ siteCtr' = (IF esc < numXBits THEN 1 ELSE ScanLength \div 2^numXBits)
        /\ xLen' = 2^low \div W
    BY <1>2, <2>1, Zenon DEF SimScanNoPerm
  <2>3. /\ numXBits >= WordLog
        /\ (2^low \div W) * W = 2^low
        /\ ScanLength \div 2^numXBits \in Nat
        /\ esc >= numXBits => (ScanLength \div 2^numXBits) * 2^numXBits = ScanLength
    BY <1>1, <2>1, SweepBegins
  <2>4. Low' = low /\ sir % 2^low = 0
    BY <1>2, <2>1 DEF Low, NoPerm
  <2>5. /\ esc \in 0 .. AddrBits /\ esc # WordLog - 1 /\ esc + 1 >= WordLog /\ numXBits \in 1 .. AddrBits
        /\ sir \in Nat /\ AddrBits \in Nat /\ WordLog \in Nat /\ plane \in [Cells -> BOOLEAN] /\ eventCount \in Nat
    BY <1>1, <2>1, ScanAssumption, WordFacts DEF TypeOK, NoPerm
  <2>6. low \in {esc, numXBits} /\ low <= esc /\ low <= numXBits
    <3>1. \E m \in {esc, numXBits} : \A k \in {esc, numXBits} : m <= k
      BY <2>5
    <3> QED
      BY <3>1 DEF Min
  <2> HIDE DEF low
  <2>7. esc >= WordLog /\ low \in WordLog .. numXBits /\ low \in Nat
    BY <2>3, <2>5, <2>6
  <2>8. sir + siteCtr' * 2^low = sir + ScanLength
    <3>1. siteCtr' * 2^low = ScanLength
      <4>1. CASE esc < numXBits
        <5>1. siteCtr' = 1 /\ low = esc
          BY <2>2, <2>5, <2>6, <4>1
        <5>2. ScanLength = 2^low - 0
          BY <2>4, <5>1 DEF ScanLength
        <5>3. 2^low \in Nat
          BY <2>7, PowType
        <5> QED
          BY <5>1, <5>2, <5>3
      <4>2. CASE ~ (esc < numXBits)
        <5>1. low = numXBits /\ esc >= numXBits
          BY <2>5, <2>6, <4>2
        <5> QED
          BY <2>2, <2>3, <4>2, <5>1
      <4> QED
        BY <4>1, <4>2
    <3> QED
      BY <3>1
  <2>9. start'.sites = 2^esc' - (start'.sir % 2^esc')
    BY <1>2, <1>3 DEF ScanLength
  <2>10. sir' = sir /\ sir <= sir /\ start'.fast /\ PlaneUsed' /\ esc' = esc /\ numXBits' = numXBits
    BY <1>2, <1>3, <1>4, <2>1, <2>5
  <2> QED
    BY <1>1, <1>3, <2>1, <2>2, <2>3, <2>4, <2>5, <2>6, <2>7, <2>8, <2>9, <2>10
<1>9. CountInv'
  BY <1>5, <1>8 DEF CountInv
<1>10. PlaceInv'
  BY <1>5 DEF PlaceInv
<1>11. eventCount \in Nat
  BY <1>1 DEF TypeOK
<1> QED
  BY <1>1, <1>2, <1>3, <1>5, <1>6, <1>7, <1>9, <1>10, <1>11

(* A sweep's end moves the scan index by the sweep's length.               *)
LEMMA SaveCounts ==
  ASSUME IInv, CountInv, PlaceInv, SaveLastWord
  PROVE  /\ CountInv' /\ PlaceInv'
         /\ pc = "last" /\ pc' \in {"sweep", "done"} /\ Sofar' = Sofar /\ Place = BitOffset(osr)
         /\ UNCHANGED <<registers, tables, sources, start, reading, osr, addr, word>>
<1>1. /\ pc = "last" /\ sir' = sir + xLen * W /\ siteCtr' = siteCtr - 1
      /\ pc' = (IF siteCtr = 1 THEN "done" ELSE "sweep")
      /\ UNCHANGED <<registers, tables, sources, history, xLen, xCtr, i, addr, word, reading>>
  BY Zenon DEF SaveLastWord
<1>2. UNCHANGED <<registers, tables, sources, start, reading, osr, dcm, numXBits, esc, rule, addr, word>>
  BY <1>1 DEF registers, history
<1>3. /\ W \in Nat /\ W >= 2 /\ BitOffset(osr) \in 0 .. W - 1 /\ xLen * W = 2^Low /\ 2^Low \in Nat \ {0}
      /\ xLen \in Nat \ {0} /\ sir \in Nat /\ sir % 2^Low = 0
      /\ start.sir \in Nat /\ start.sites \in Nat /\ Begun \in Nat /\ start.sir + Begun = sir
  BY <1>1, SweepFacts
<1>4. /\ start.plane \in [Cells -> BOOLEAN] /\ start.sir \in Nat /\ start.tpos \in Nat
      /\ start.events \in Nat /\ start.fast /\ PlaneUsed
      /\ start.sites = 2^esc - (start.sir % 2^esc)
      /\ Low \in WordLog .. numXBits /\ Low <= esc /\ xLen * W = 2^Low
      /\ start.sir <= sir /\ sir + siteCtr * 2^Low = start.sir + start.sites
  BY <1>1 DEF CountInv, Sweeping
<1>5. siteCtr \in Nat /\ siteCtr >= 1 /\ xCtr = 0 /\ i = 0
  BY <1>1 DEF IInv, TypeOK, ShapeInv, PlaceInv
<1>6. PlaneUsed' = PlaneUsed /\ Low' = Low
  BY <1>2, SceneStays
<1> DEFINE q == 2^Low
           s == start.sir
           n == start.sites
<1>7. sir' % q = 0
  <2> DEFINE one == 1
             z == 0
             x == q * one + sir
  <2>1. q \in Nat \ {0} /\ one \in Int /\ sir \in Int
    BY <1>3
  <2>2. sir' = x
    <3> HIDE DEF q
    <3>1. sir' = sir + q
      BY <1>1, <1>3 DEF q
    <3> QED
      BY <2>1, <3>1
  <2> HIDE DEF q, one
  <2>3. (q * one + sir) % q = sir % q
    BY <2>1, ModShift
  <2> QED
    BY <1>3, <2>2, <2>3 DEF q
<1>8. s <= sir' /\ sir' + siteCtr' * q = s + n
  <2>1. q \in Nat /\ sir' = sir + q /\ s \in Nat /\ n \in Nat /\ s <= sir /\ sir + siteCtr * q = s + n
    BY <1>1, <1>3, <1>4
  <2> HIDE DEF q, s, n
  <2>2. (siteCtr - 1) * q = siteCtr * q - q /\ siteCtr * q \in Int
    BY <1>5, <2>1
  <2> QED
    BY <1>1, <1>3, <2>1, <2>2
<1>9. pc' = "done" => siteCtr' = 0
  BY <1>1, <1>5
<1>10. CountInv'
  <2>1. start' = start /\ esc' = esc /\ numXBits' = numXBits /\ xLen' = xLen
    BY <1>1, <1>2
  <2>2. pc' # "general"
    BY <1>1
  <2> QED
    BY <1>4, <1>6, <1>7, <1>8, <1>9, <2>1, <2>2 DEF CountInv
<1>11. PlaceInv' /\ pc' \in {"sweep", "done"}
  BY <1>1 DEF PlaceInv
<1>12. Sofar' = Sofar
  <2>1. Sofar' = sir' - s /\ Sofar = Begun + At /\ Begun = sir - s
    BY <1>1, <1>2 DEF Sofar, Begun
  <2>2. At = xLen * W
    <3>1. At = (xLen - 0) * W + 0
      BY <1>5 DEF At
    <3> HIDE DEF W
    <3> QED
      BY <1>3, <3>1
  <2>3. sir' = sir + xLen * W /\ xLen * W \in Nat /\ s \in Nat
    BY <1>1, <1>3
  <2> DEFINE m == xLen * W
  <2>4. sir' = sir + m /\ m \in Nat /\ Sofar = (sir - s) + m
    BY <2>1, <2>2, <2>3
  <2> HIDE DEF m, s
  <2> QED
    BY <1>3, <2>1, <2>3, <2>4
<1>13. Place = BitOffset(osr)
  BY <1>3, <1>5, TurnFacts DEF Place
<1> QED
  BY <1>1, <1>2, <1>10, <1>11, <1>12, <1>13

(* The scan's place, after any step.                                       *)
LEMMA PlaceStep ==
  ASSUME IInv, RowKept, CountInv, PlaceInv, [Next]_vars
  PROVE  CountInv' /\ PlaceInv'
<1>1. CASE UNCHANGED vars
  <2>1. UNCHANGED <<registers, tables, sources, loop, history, sir, plane, pc, reading, smeared>>
    BY <1>1 DEF vars
  <2>2. UNCHANGED <<registers, tables, start, reading, sir, pc, siteCtr, xLen, xCtr, i, addr, numXBits, esc, osr, dcm>>
    BY <2>1 DEF registers, history, loop
  <2>3. PlaneUsed' = PlaneUsed /\ Low' = Low
    BY <2>2, SceneStays
  <2>4. First' = First /\ At' = At /\ Place' = Place
    BY <2>2 DEF First, At, Place, BitOffset
  <2>5. CountInv'
    BY <2>2, <2>3 DEF CountInv, Sweeping
  <2>6. PlaceInv'
    BY <2>2, <2>4 DEF PlaceInv
  <2> QED
    BY <2>5, <2>6
<1>2. CASE pc' = "idle"
  BY <1>2 DEF CountInv, PlaceInv, Sweeping
<1>3. CASE \E read \in BOOLEAN : StartsScan(read)
  BY <1>3, StartDoes
<1>4. CASE BeginSweep \/ UpdateSite
  <2>1. /\ UNCHANGED <<registers, tables, start, reading, sir, siteCtr, xLen, numXBits, esc>>
        /\ pc \in {"sweep", "site"} /\ pc' \in {"site", "last"}
    BY <1>4 DEF BeginSweep, UpdateSite, registers, history
  <2>2. PlaneUsed' = PlaneUsed /\ Low' = Low
    BY <2>1, SceneStays
  <2>3. CountInv'
    BY <2>1, <2>2 DEF CountInv, Sweeping
  <2>4. PlaceInv'
    BY <1>4, BeginPlace, UpdatePlace
  <2> QED
    BY <2>3, <2>4
<1>5. CASE SaveLastWord
  BY <1>5, SaveCounts
<1>6. CASE GeneralSite
  <2>1. UNCHANGED <<registers, start>> /\ pc = "general" /\ pc' \in {"general", "done"}
    BY <1>6 DEF GeneralSite, history
  <2> QED
    BY <2>1 DEF CountInv, PlaceInv, Sweeping
<1> QED
  BY <1>1, <1>2, <1>3, <1>4, <1>5, <1>6, StepCases

(* The cells of a word.                                                    *)
LEMMA WordCells ==
  ASSUME NEW a \in SUBSET Bit, Aligned(a)
  PROVE  Num(a) \in Nat /\ \A b \in 0 .. W - 1 : Num(a) + b \in Cells
<1>1. PICK k \in Nat : Num(a) = W * k /\ Num(a) + W <= 2^AddrBits
  BY AlignedNum
<1>2. Num(a) \in Nat
  BY BitFinite, NumChosen
<1> DEFINE n == Num(a)
<1>3. n \in Nat /\ n + W <= 2^AddrBits /\ W \in Nat /\ 2^AddrBits \in Nat
  BY <1>1, <1>2, WordFacts
<1> HIDE DEF n, W
<1>4. \A b \in 0 .. W - 1 : n + b \in Cells
  BY <1>3 DEF Cells
<1> QED
  BY <1>3, <1>4 DEF n

(* A stored word is in its cells, and no other cell has changed.           *)
LEMMA StoreIs ==
  ASSUME NEW a \in SUBSET Bit, Aligned(a), NEW w \in Words
  PROVE  /\ \A b \in 0 .. W - 1 : Store(a, w)[Num(a) + b] = w[b]
         /\ \A c \in Cells : (\A b \in 0 .. W - 1 : c # Num(a) + b) => Store(a, w)[c] = plane[c]
         /\ Load(Store(a, w), a) = w
<1> DEFINE n == Num(a)
           s == Store(a, w)
<1>1. n \in Nat /\ \A b \in 0 .. W - 1 : n + b \in Cells
  BY WordCells
<1>2. \A c \in Cells : s[c] = IF c - n \in 0 .. W - 1 THEN w[c - n] ELSE plane[c]
  BY DEF Store
<1>3. Load(s, a) = [b \in 0 .. W - 1 |-> s[n + b]]
  BY DEF Load
<1>4. Cells \subseteq Int /\ W \in Nat
  BY WordFacts DEF Cells
<1> HIDE DEF n, s, W
<1>5. ASSUME NEW b \in 0 .. W - 1 PROVE s[n + b] = w[b]
  <2>1. n + b \in Cells /\ (n + b) - n = b
    BY <1>1
  <2> QED
    BY <1>2, <2>1
<1>6. ASSUME NEW c \in Cells, \A b \in 0 .. W - 1 : c # n + b PROVE s[c] = plane[c]
  <2>1. c - n \notin 0 .. W - 1
    <3> SUFFICES ASSUME c - n \in 0 .. W - 1 PROVE FALSE
      OBVIOUS
    <3>1. n + (c - n) = c
      BY <1>1, <1>4
    <3> QED
      BY <1>6, <3>1
  <2> QED
    BY <1>2, <2>1
<1>7. Load(s, a) = w
  <2>1. w = [b \in 0 .. W - 1 |-> w[b]]
    BY DEF Words
  <2>2. [b \in 0 .. W - 1 |-> s[n + b]] = [b \in 0 .. W - 1 |-> w[b]]
    BY <1>5
  <2> QED
    BY <1>3, <2>1, <2>2
<1> QED
  BY <1>5, <1>6, <1>7 DEF n, s

(* What a cell's value is after one more site, another cell's.             *)
LEMMA RightStep ==
  ASSUME NEW c, NEW v, NEW k \in Nat, Right(c, v, k), Cell(k) # c
  PROVE  Right(c, v, k + 1)
<1>1. \A j \in 0 .. (k + 1) - 1 : j \in 0 .. k - 1 \/ j = k
  OBVIOUS
<1>2. \A j \in 0 .. k - 1 : j \in 0 .. (k + 1) - 1
  OBVIOUS
<1> QED
  BY <1>1, <1>2, Zenon DEF Right

(* And after its own.                                                      *)
LEMMA RightNew ==
  ASSUME NEW v, NEW k \in Nat, \A j \in 0 .. k - 1 : Cell(j) # Cell(k),
         Provided => v = NewValue(start.plane[Cell(k)], Datum(k))
  PROVE  Right(Cell(k), v, k + 1)
<1>1. \A j \in 0 .. (k + 1) - 1 : j \in 0 .. k - 1 \/ j = k
  OBVIOUS
<1>2. k \in 0 .. (k + 1) - 1
  OBVIOUS
<1> QED
  BY <1>1, <1>2, Zenon DEF Right

(* The value of a cell whose site is still to come is the old one.         *)
LEMMA RightOld ==
  ASSUME NEW v, NEW k, NEW c, \A j \in 0 .. k - 1 : Cell(j) # c, Right(c, v, k)
  PROVE  v = start.plane[c]
BY Zenon DEF Right

(* The word's facts at a site of a sweep.                                  *)
LEMMA AtSite ==
  ASSUME IInv, CountInv, pc = "site"
  PROVE  /\ TypeOK /\ PlaneUsed /\ Sweeping /\ addr \in SUBSET Bit /\ Aligned(addr) /\ word \in Words
         /\ W \in Nat /\ W >= 2 /\ Place \in 0 .. W - 1 /\ 0 \in 0 .. W - 1 /\ W - 1 \in 0 .. W - 1
         /\ i \in 0 .. W - 1 /\ Num(addr) \in Nat
<1>1. /\ TypeOK /\ PlaneUsed /\ Sweeping /\ addr \in SUBSET Bit /\ Aligned(addr) /\ word \in Words
      /\ i \in 0 .. W - 1
  BY DEF IInv, TypeOK, ShapeInv, CountInv, Sweeping
<1>2. W \in Nat /\ W >= 2 /\ Place \in 0 .. W - 1
  BY SweepFacts
<1>3. 0 \in 0 .. W - 1 /\ W - 1 \in 0 .. W - 1
  <2> HIDE DEF W
  <2> QED
    BY <1>2
<1>4. Num(addr) \in Nat
  BY <1>1, BitFinite, NumChosen
<1> QED
  BY <1>1, <1>2, <1>3, <1>4

(* The site at the top of the word is the one to be updated, not updated.  *)
LEMMA TopSite ==
  ASSUME IInv, CountInv, PlaceInv, UpdateInv, LeftInv, pc = "site", ~ smeared
  PROVE  word[0] = start.plane[Cell(Sofar)]
<1>1. /\ PlaneUsed /\ Sweeping /\ W \in Nat /\ W >= 2 /\ Place \in 0 .. W - 1 /\ 0 \in 0 .. W - 1
      /\ i \in 0 .. W - 1
  BY AtSite
<1>2. Turn(0, Place) = Place
  BY <1>1, TurnFacts
<1>3. Cell(Sofar) = Num(addr) + Place /\ \A j \in 0 .. Sofar - 1 : Cell(j) # Cell(Sofar)
  BY SiteCell
<1>4. CASE IsDestUpdated
  <2>1. Right(Num(addr) + Turn(0, Place), word[0], Sofar)
    BY <1>1, <1>4 DEF UpdateInv
  <2>2. Right(Cell(Sofar), word[0], Sofar)
    BY <1>2, <1>3, <2>1
  <2> QED
    BY <1>3, <2>2, RightOld
<1>5. CASE ~ IsDestUpdated
  <2>1. 0 \in 0 .. W - 1 /\ Place + 0 < W /\ i + 0 < W
    <3> HIDE DEF W
    <3> QED
      BY <1>1
  <2>2. plane = start.plane /\ word[0] = plane[Num(addr) + Turn(0, Place)]
    BY <1>1, <1>5, <2>1 DEF LeftInv
  <2> QED
    BY <1>2, <1>3, <2>2
<1> QED
  BY <1>4, <1>5

(* After an update the word is right, one site further.                    *)
LEMMA UpdatedRight ==
  ASSUME IInv, TablesApart, CountInv, PlaceInv, UpdateInv, LeftInv, SourceInv,
         pc = "site", ~ smeared, IsDestUpdated
  PROVE  \A b \in 0 .. W - 1 : Right(Num(addr) + Turn(b, Turn(Place, 1)), Updated(word)[b], Sofar + 1)
<1>1. /\ TypeOK /\ PlaneUsed /\ Sweeping /\ word \in Words /\ W \in Nat /\ W >= 2
      /\ Place \in 0 .. W - 1 /\ 0 \in 0 .. W - 1 /\ W - 1 \in 0 .. W - 1 /\ Num(addr) \in Nat
  BY AtSite
<1>2. /\ Sofar \in Nat /\ Cell(Sofar) = Num(addr) + Place
      /\ \A j \in 0 .. Sofar - 1 : Cell(j) # Cell(Sofar)
  BY SiteCell
<1>3. word[0] = start.plane[Cell(Sofar)]
  BY TopSite
<1>4. /\ \A b \in 0 .. W - 1 : b < W - 1 => Updated(word)[b] = word[b + 1]
      /\ Updated(word)[W - 1] = MapFunction(rule.sdm, word[0], Source(word))
  BY <1>1, UpdatedAt
<1>5. ASSUME NEW b \in 0 .. W - 1, b < W - 1
      PROVE  Right(Num(addr) + Turn(b, Turn(Place, 1)), Updated(word)[b], Sofar + 1)
  <2>1. b + 1 \in 0 .. W - 1 /\ b + 1 # 0
    <3> HIDE DEF W
    <3> QED
      BY <1>1, <1>5
  <2>2. Turn(b, Turn(Place, 1)) = Turn(b + 1, Place)
    BY <1>1, <1>5, TurnFacts
  <2> DEFINE d == b + 1
             m == Turn(d, Place)
  <2>3. d \in 0 .. W - 1 /\ d # 0
    BY <2>1
  <2>4. Right(Num(addr) + m, word[d], Sofar)
    BY <1>1, <2>3 DEF UpdateInv
  <2>5. m \in 0 .. W - 1 /\ m # Place
    <3>1. Turn(0, Place) = Place /\ Turn(d, Place) \in 0 .. W - 1
      BY <1>1, <2>3, TurnFacts
    <3>2. \A k, c \in 0 .. W - 1 : Turn(c, k) = Turn(0, k) => c = 0
      BY <1>1, TurnFacts
    <3> HIDE DEF d, W
    <3> QED
      BY <1>1, <2>3, <3>1, <3>2
  <2> HIDE DEF m
  <2>6. Cell(Sofar) # Num(addr) + m
    <3> DEFINE n == Num(addr)
               p == Place
    <3>1. n \in Nat /\ m \in Int /\ p \in Int /\ m # p /\ Cell(Sofar) = n + p
      BY <1>1, <1>2, <2>5
    <3> HIDE DEF n, p
    <3>2. n + p # n + m
      BY <3>1
    <3> QED
      BY <3>1, <3>2 DEF n
  <2>7. Right(Num(addr) + m, word[d], Sofar + 1)
    <3> DEFINE x == Num(addr) + m
               v == word[d]
    <3>1. Right(x, v, Sofar) /\ Cell(Sofar) # x
      BY <2>4, <2>6
    <3> HIDE DEF x, v
    <3>2. Right(x, v, Sofar + 1)
      BY <1>2, <3>1, RightStep
    <3> QED
      BY <3>2 DEF x, v
  <2> QED
    BY <1>4, <1>5, <2>2, <2>7 DEF m
<1>6. Right(Num(addr) + Turn(W - 1, Turn(Place, 1)), Updated(word)[W - 1], Sofar + 1)
  <2>1. Turn(W - 1, Turn(Place, 1)) = Place
    BY <1>1, TurnFacts
  <2>2. Fetch => tpos = start.tpos + Sofar
    BY <1>1 DEF SourceInv
  <2>3. Provided => MapFunction(rule.sdm, word[0], Source(word)) = NewValue(word[0], Datum(Sofar))
    <3> DEFINE k == Sofar
    <3>1. Fetch => tpos = start.tpos + k
      BY <2>2
    <3> HIDE DEF k
    <3>2. Provided => MapFunction(rule.sdm, word[0], Source(word)) = NewValue(word[0], Datum(k))
      BY <1>1, <3>1, NewValueIs
    <3> QED
      BY <3>2 DEF k
  <2> DEFINE v == Updated(word)[W - 1]
             k == Sofar
  <2>4. Provided => v = NewValue(start.plane[Cell(k)], Datum(k))
    BY <1>3, <1>4, <2>3
  <2>5. k \in Nat /\ \A j \in 0 .. k - 1 : Cell(j) # Cell(k)
    BY <1>2
  <2> HIDE DEF v, k
  <2>6. Right(Cell(k), v, k + 1)
    BY <2>4, <2>5, RightNew
  <2> QED
    BY <1>2, <2>1, <2>6 DEF v, k
<1>7. \A b \in 0 .. W - 1 : b < W - 1 \/ b = W - 1
  <2> HIDE DEF W
  <2> QED
    BY <1>1
<1> QED
  BY <1>5, <1>6, <1>7

(* A site update keeps the updated plane right.                            *)
LEMMA UpdateKeepsNew ==
  ASSUME IInv, TablesApart, CountInv, PlaceInv, UpdateInv, LeftInv, SourceInv, UpdateSite
  PROVE  UpdateInv'
<1>1. /\ pc = "site" /\ pc' \in {"site", "last"}
      /\ UNCHANGED <<registers, tables, start, reading>> /\ smeared' = smeared
      /\ Place' = Turn(Place, 1) /\ Sofar' = Sofar + 1
      /\ Place = W - 1 =>
           /\ plane' = IF IsDestUpdated THEN Store(addr, Updated(word)) ELSE plane
           /\ addr' = IF numXBits > WordLog THEN NextWord(addr) ELSE addr
           /\ word' = IF numXBits > WordLog THEN Load(plane', addr') ELSE Updated(word)
      /\ Place # W - 1 => word' = Updated(word) /\ plane' = plane /\ addr' = addr
  BY UpdateSiteDoes
<1>0. /\ IsDestUpdated' = IsDestUpdated
      /\ \A c, v, k : Right(c, v, k)' = Right(c, v, k)
  BY <1>1, SceneStays
<1>2. SUFFICES ASSUME ~ smeared, IsDestUpdated
               PROVE  /\ \A c \in Cells : InWord(c)' \/ Right(c, plane'[c], Sofar')
                      /\ \A b \in 0 .. W - 1 : Right(Num(addr') + Turn(b, Place'), word'[b], Sofar')
                      /\ Place' = 0 => word' = Load(plane', addr')
  BY <1>0, <1>1, Zenon DEF UpdateInv
<1>3. /\ TypeOK /\ PlaneUsed /\ Sweeping /\ addr \in SUBSET Bit /\ Aligned(addr) /\ word \in Words
      /\ W \in Nat /\ W >= 2 /\ Place \in 0 .. W - 1 /\ Num(addr) \in Nat
  BY <1>1, AtSite
<1>4. addr' \in SUBSET Bit /\ Aligned(addr') /\ word' \in Words
  <2>1. IInv'
    BY SweepStep
  <2>2. addr' \in SUBSET Bit /\ word' \in Words
    BY <2>1 DEF IInv, TypeOK
  <2>3. Aligned(addr')
    BY <2>1 DEF IInv, ShapeInv
  <2> QED
    BY <2>2, <2>3
<1> DEFINE u == Updated(word)
           k == Sofar
           n == Num(addr)
<1>5. \A b \in 0 .. W - 1 : Right(n + Turn(b, Place'), u[b], k + 1)
  BY <1>1, <1>2, UpdatedRight
<1>6. u \in Words
  BY <1>3, UpdatedTyped
<1>7. k \in Nat /\ Cell(k) = n + Place
  BY <1>1, SiteCell
<1>8. ASSUME NEW c \in Cells, \A b \in 0 .. W - 1 : c # n + b
      PROVE  Right(c, plane[c], k + 1)
  <2> DEFINE v == plane[c]
  <2>1. Right(c, v, k)
    BY <1>2, <1>3, <1>8 DEF UpdateInv, InWord
  <2>2. Cell(k) # c
    BY <1>3, <1>7, <1>8
  <2> HIDE DEF v, k
  <2>3. Right(c, v, k + 1)
    BY <1>7, <2>1, <2>2, RightStep
  <2> QED
    BY <2>3 DEF v
<1>9. Sofar' = k + 1
  BY <1>1
<1> HIDE DEF u, k
<1>10. CASE Place # W - 1
  <2>1. word' = u /\ plane' = plane /\ addr' = addr
    BY <1>1, <1>10 DEF u
  <2>2. Num(addr') = n
    BY <2>1
  <2>3. Place' # 0
    <3>1. Place' = Place + 1
      BY <1>1, <1>3, <1>10, TurnFacts
    <3> HIDE DEF W
    <3> QED
      BY <1>3, <3>1
  <2>4. \A b \in 0 .. W - 1 : Right(Num(addr') + Turn(b, Place'), word'[b], Sofar')
    BY <1>5, <1>9, <2>1, <2>2, Zenon
  <2>5. ASSUME NEW c \in Cells PROVE InWord(c)' \/ Right(c, plane'[c], Sofar')
    <3>1. CASE \A b \in 0 .. W - 1 : c # n + b
      BY <1>8, <1>9, <2>1, <3>1, Zenon
    <3>2. CASE \E b \in 0 .. W - 1 : c = n + b
      BY <2>2, <3>2, Zenon DEF InWord
    <3> QED
      BY <3>1, <3>2
  <2> QED
    BY <2>3, <2>4, <2>5
<1>11. CASE Place = W - 1
  <2>1. /\ plane' = Store(addr, u)
        /\ addr' = (IF numXBits > WordLog THEN NextWord(addr) ELSE addr)
        /\ word' = (IF numXBits > WordLog THEN Load(plane', addr') ELSE u)
    BY <1>1, <1>2, <1>11 DEF u
  <2>2. Place' = 0
    BY <1>1, <1>3, <1>11, TurnFacts
  <2>3. /\ \A b \in 0 .. W - 1 : plane'[n + b] = u[b]
        /\ \A c \in Cells : (\A b \in 0 .. W - 1 : c # n + b) => plane'[c] = plane[c]
        /\ Load(plane', addr) = u
    BY <1>3, <1>6, <2>1, StoreIs
  <2>4. \A b \in 0 .. W - 1 : Turn(b, 0) = b
    BY <1>3, TurnFacts
  <2>5. ASSUME NEW c \in Cells PROVE Right(c, plane'[c], Sofar')
    <3>1. CASE \A b \in 0 .. W - 1 : c # n + b
      <4>1. plane'[c] = plane[c]
        BY <2>3, <3>1
      <4>2. Right(c, plane[c], k + 1)
        BY <1>8, <3>1
      <4> QED
        BY <1>9, <4>1, <4>2, Zenon
    <3>2. CASE \E b \in 0 .. W - 1 : c = n + b
      <4>1. PICK b \in 0 .. W - 1 : c = n + b
        BY <3>2
      <4>2. Turn(b, Place') = b
        BY <2>2, <2>4
      <4>3. Right(c, u[b], k + 1)
        BY <1>5, <4>1, <4>2, Zenon
      <4>4. plane'[c] = u[b]
        BY <2>3, <4>1, Zenon
      <4> QED
        BY <1>9, <4>3, <4>4, Zenon
    <3> QED
      BY <3>1, <3>2
  <2>6. word' = Load(plane', addr')
    BY <2>1, <2>3
  <2>7. ASSUME NEW b \in 0 .. W - 1
        PROVE  Right(Num(addr') + Turn(b, Place'), word'[b], Sofar')
    <3>1. Turn(b, Place') = b
      BY <2>2, <2>4
    <3>2. Num(addr') + b \in Cells
      BY <1>4, WordCells
    <3>3. word'[b] = plane'[Num(addr') + b]
      BY <2>6 DEF Load
    <3>4. Right(Num(addr') + b, plane'[Num(addr') + b], Sofar')
      BY <2>5, <3>2, Zenon
    <3> QED
      BY <3>1, <3>3, <3>4, Zenon
  <2> QED
    BY <2>5, <2>6, <2>7
<1> QED
  BY <1>10, <1>11

(* A site update keeps the word of a plane that is not updated.            *)
LEMMA UpdateKeepsOld ==
  ASSUME IInv, CountInv, PlaceInv, LeftInv, UpdateSite
  PROVE  LeftInv'
<1>1. /\ pc = "site" /\ pc' \in {"site", "last"}
      /\ UNCHANGED <<registers, tables, start, reading>> /\ smeared' = smeared
      /\ numXBits' = numXBits /\ xLen' = xLen /\ xCtr' = (IF i = W - 1 THEN xCtr - 1 ELSE xCtr)
      /\ i' = Turn(i, 1) /\ Place' = Turn(Place, 1)
      /\ Place = W - 1 =>
           /\ plane' = IF IsDestUpdated THEN Store(addr, Updated(word)) ELSE plane
           /\ addr' = IF numXBits > WordLog THEN NextWord(addr) ELSE addr
           /\ word' = IF numXBits > WordLog THEN Load(plane', addr') ELSE Updated(word)
      /\ Place # W - 1 => word' = Updated(word) /\ plane' = plane /\ addr' = addr
      /\ pc' = "site" => xCtr' \in 1 .. xLen
  <2>1. xCtr' = IF i = W - 1 THEN xCtr - 1 ELSE xCtr
    BY DEF UpdateSite
  <2> QED
    BY <2>1, UpdateSiteDoes
<1>2. SUFFICES ASSUME ~ smeared, ~ IsDestUpdated
               PROVE  /\ plane' = start'.plane
                      /\ pc' = "site" =>
                           \A b \in 0 .. W - 1 :
                              (IF numXBits' > WordLog THEN Place' + b < W ELSE i' + b < W)
                                => word'[b] = plane'[Num(addr') + Turn(b, Place')]
  BY <1>1, SceneStays DEF LeftInv
<1>3. /\ TypeOK /\ PlaneUsed /\ Sweeping /\ addr \in SUBSET Bit /\ Aligned(addr) /\ word \in Words
      /\ W \in Nat /\ W >= 2 /\ Place \in 0 .. W - 1 /\ Num(addr) \in Nat /\ i \in 0 .. W - 1
  BY <1>1, AtSite
<1>4. /\ plane = start.plane
      /\ \A b \in 0 .. W - 1 :
           (IF numXBits > WordLog THEN Place + b < W ELSE i + b < W)
             => word[b] = plane[Num(addr) + Turn(b, Place)]
  BY <1>1, <1>2, <1>3 DEF LeftInv
<1>5. plane' = plane /\ start' = start
  BY <1>1, <1>2
<1> DEFINE u == Updated(word)
           n == Num(addr)
<1>6. \A b \in 0 .. W - 1 : b < W - 1 => u[b] = word[b + 1]
  BY <1>3, UpdatedAt
<1>7. ASSUME NEW b \in 0 .. W - 1, b + 1 < W, IF numXBits > WordLog THEN Place + (b + 1) < W ELSE i + (b + 1) < W
      PROVE  u[b] = plane[n + Turn(b, Place')]
  <2> DEFINE d == b + 1
  <2>1. d \in 0 .. W - 1 /\ b < W - 1
    <3> HIDE DEF W
    <3> QED
      BY <1>3, <1>7
  <2>2. u[b] = word[d]
    BY <1>6, <2>1
  <2>3. word[d] = plane[n + Turn(d, Place)]
    BY <1>4, <1>7, <2>1
  <2>4. Turn(b, Place') = Turn(d, Place)
    BY <1>1, <1>3, <2>1, TurnFacts
  <2> QED
    BY <2>2, <2>3, <2>4
<1>8. ASSUME pc' = "site", NEW b \in 0 .. W - 1,
             IF numXBits > WordLog THEN Place' + b < W ELSE i' + b < W
      PROVE  word'[b] = plane'[Num(addr') + Turn(b, Place')]
  <2>1. CASE numXBits > WordLog /\ Place = W - 1
    <3>1. word' = Load(plane', addr') /\ Place' = 0
      BY <1>1, <1>3, <2>1, TurnFacts
    <3>2. Turn(b, Place') = b
      BY <1>3, <3>1, TurnFacts
    <3> QED
      BY <3>1, <3>2 DEF Load
  <2>2. CASE numXBits > WordLog /\ Place # W - 1
    <3>1. word' = u /\ addr' = addr /\ Place' = Place + 1
      BY <1>1, <1>3, <2>2, TurnFacts
    <3>2. b + 1 < W /\ Place + (b + 1) < W
      <4>1. (Place + 1) + b < W
        BY <1>8, <2>2, <3>1
      <4> HIDE DEF W
      <4> QED
        BY <1>3, <4>1
    <3>3. u[b] = plane[n + Turn(b, Place')]
      BY <1>7, <2>2, <3>2
    <3> QED
      BY <1>5, <3>1, <3>3
  <2>3. CASE ~ (numXBits > WordLog)
    <3>1. word' = u /\ addr' = addr
      BY <1>1, <2>3
    <3>2. i # W - 1
      <4> SUFFICES ASSUME i = W - 1 PROVE FALSE
        OBVIOUS
      <4>1. xCtr' = xCtr - 1 /\ xCtr' \in 1 .. xLen
        BY <1>1, <1>8
      <4>2. xCtr <= xLen /\ xCtr \in Nat /\ xLen \in Nat /\ numXBits >= WordLog
        BY <1>1, <1>3 DEF PlaceInv, TypeOK, IInv, ShapeInv
      <4>3. Low \in WordLog .. numXBits /\ xLen * W = 2^Low /\ numXBits \in Nat
        BY <1>3 DEF CountInv, TypeOK
      <4>4. xLen * W = W
        <5>1. numXBits = WordLog
          BY <2>3, <4>2, <4>3, WordFacts
        <5>2. Low = WordLog
          <6> HIDE DEF Low
          <6> QED
            BY <4>3, <5>1, WordFacts
        <5> QED
          BY <4>3, <5>2 DEF W
      <4> HIDE DEF W
      <4>5. xLen >= 2 => xLen * W >= 2 * W
        BY <1>3, <4>2
      <4>6. xLen < 2
        BY <1>3, <4>2, <4>4, <4>5
      <4> QED
        BY <4>1, <4>2, <4>6
    <3>3. b + 1 < W /\ i + (b + 1) < W
      <4>1. i' = i + 1
        BY <1>1, <1>3, <3>2, TurnFacts
      <4>2. (i + 1) + b < W
        BY <1>8, <2>3, <4>1
      <4> HIDE DEF W
      <4> QED
        BY <1>3, <4>2
    <3>4. u[b] = plane[n + Turn(b, Place')]
      BY <1>7, <2>3, <3>3
    <3> QED
      BY <1>5, <3>1, <3>4
  <2> QED
    BY <2>1, <2>2, <2>3
<1>9. plane' = start'.plane
  BY <1>4, <1>5
<1> QED
  BY <1>1, <1>8, <1>9

(* Counting the ones among the sites, one by one.                          *)
LEMMA CountOne ==
  ASSUME NEW k \in Nat, NEW f
  PROVE  Ones(f, k) \in Nat /\ Ones(f, k + 1) = IF f[k] THEN Ones(f, k) + 1 ELSE Ones(f, k)
<1> DEFINE A == {j \in 0 .. k - 1 : f[j]}
           B == {j \in 0 .. (k + 1) - 1 : f[j]}
<1>1. IsFiniteSet(0 .. k - 1)
  BY FS_Interval
<1>2. IsFiniteSet(A)
  BY <1>1, FS_Subset
<1>3. k \notin A
  OBVIOUS
<1>4. Cardinality(A \cup {k}) = Cardinality(A) + 1
  BY <1>2, <1>3, FS_AddElement
<1>5. B = IF f[k] THEN A \cup {k} ELSE A
  <2>1. \A j \in 0 .. (k + 1) - 1 : j \in 0 .. k - 1 \/ j = k
    OBVIOUS
  <2>2. k \in 0 .. (k + 1) - 1 /\ \A j \in 0 .. k - 1 : j \in 0 .. (k + 1) - 1
    OBVIOUS
  <2>3. f[k] => B = A \cup {k}
    BY <2>1, <2>2, Zenon
  <2>4. ~ f[k] => B = A
    BY <2>1, <2>2, Zenon
  <2> QED
    BY <2>3, <2>4, Zenon
<1>6. Cardinality(A) \in Nat
  BY <1>2, FS_CardinalityType
<1> QED
  BY <1>4, <1>5, <1>6, Zenon DEF Ones

(* A sequence of k values, and one more.                                   *)
LEMMA AppendOne ==
  ASSUME NEW k \in Nat, NEW f, NEW s, s = Values(f, k), s \in Seq(BOOLEAN), NEW x, x = f[k]
  PROVE  Append(s, x) = Values(f, k + 1)
<1>1. Len(s) = k
  BY DEF Values
<1>2. Append(s, x) = [n \in 1 .. Len(s) + 1 |-> IF n = Len(s) + 1 THEN x ELSE s[n]]
  OBVIOUS
<1>3. \A n \in 1 .. k + 1 : (IF n = k + 1 THEN x ELSE s[n]) = f[n - 1]
  BY DEF Values
<1> QED
  BY <1>1, <1>2, <1>3 DEF Values

(* A site update takes the site's sources.                                 *)
LEMMA UpdateKeepsSources ==
  ASSUME IInv, CountInv, PlaceInv, UpdateInv, LeftInv, SourceInv, UpdateSite
  PROVE  SourceInv'
<1>1. /\ pc = "site" /\ pc' \in {"site", "last"}
      /\ UNCHANGED <<registers, tables, start, reading>> /\ rule' = rule /\ smeared' = smeared
      /\ Sofar' = Sofar + 1 /\ SimUpdateSite(word)
  <2>1. rule' = rule
    BY UpdateSiteDoes DEF registers
  <2> QED
    BY <2>1, UpdateSiteDoes
<1>2. Fetch' = Fetch /\ Old' = Old /\ start' = start /\ reading' = reading
  BY <1>1, SceneStays
<1>3. Sweeping /\ PlaneUsed /\ TypeOK
  BY <1>1, AtSite
<1> DEFINE k == Sofar
           f == Old
           e == start.events
           t == start.tpos
<1>4. SUFFICES ASSUME ~ smeared
               PROVE  /\ Fetch => tpos' = t + (k + 1)
                      /\ rule.ecs = "site" => eventCount' = e + Ones(f, k + 1)
                      /\ reading /\ rule.dds = "site" => shown' = Values(f, k + 1)
  <2>1. Sofar' = k + 1 /\ start'.events = e /\ start'.tpos = t
    BY <1>1, <1>2
  <2> HIDE DEF k, e, t
  <2> QED
    BY <1>1, <1>2, <2>1 DEF SourceInv
<1>5. /\ Fetch => tpos = t + k
      /\ rule.ecs = "site" => eventCount = e + Ones(f, k)
      /\ reading /\ rule.dds = "site" => shown = Values(f, k)
  BY <1>3, <1>4, Zenon DEF SourceInv
<1>6. k \in Nat /\ word[0] = f[k]
  <2>1. k \in Nat /\ word[0] = start.plane[Cell(k)]
    BY <1>1, <1>4, SiteCell, TopSite
  <2> HIDE DEF k
  <2> QED
    BY <2>1 DEF Old
<1>7. e \in Nat /\ t \in Nat /\ tpos \in Nat /\ shown \in Seq(BOOLEAN)
  BY <1>3 DEF CountInv, TypeOK
<1>8. rule.ecs = "site" \/ rule.dds = "site" => Unglued(word) = f[k]
  <2>1. rule.ecs = "site" \/ rule.dds = "site" => IsSrcNeeded("site")
    BY DEF IsSrcNeeded, OtherSources
  <2> QED
    BY <1>6, <2>1 DEF Unglued
<1>9. /\ tpos' = (IF Fetch THEN tpos + 1 ELSE tpos)
      /\ disp' = (IF rule.dds = "site" THEN Unglued(word) ELSE disp)
      /\ shown' = (IF reading THEN Append(shown, disp') ELSE shown)
      /\ eventCount' = (IF rule.ecs = "site" /\ Unglued(word) THEN eventCount + 1 ELSE eventCount)
  BY <1>1, Zenon DEF SimUpdateSite
<1> HIDE DEF k, f, e, t
<1>10. Fetch => tpos' = t + (k + 1)
  <2>1. Fetch => tpos' = (t + k) + 1
    BY <1>5, <1>9
  <2> QED
    BY <1>6, <1>7, <2>1
<1>11. ASSUME rule.ecs = "site"
       PROVE  eventCount' = e + Ones(f, k + 1)
  <2> DEFINE C == Ones(f, k)
             D == Ones(f, k + 1)
  <2>1. C \in Nat /\ D = IF f[k] THEN C + 1 ELSE C
    BY <1>6, CountOne, Zenon
  <2>2. eventCount' = IF f[k] THEN (e + C) + 1 ELSE e + C
    BY <1>5, <1>8, <1>9, <1>11, Zenon
  <2> HIDE DEF C, D
  <2>3. (e + C) + 1 = e + (C + 1)
    BY <1>7, <2>1
  <2>4. eventCount' = e + D
    BY <2>1, <2>2, <2>3, Zenon
  <2> QED
    BY <2>4 DEF D
<1>12. ASSUME reading, rule.dds = "site" PROVE shown' = Values(f, k + 1)
  <2> DEFINE x == disp'
             s == shown
  <2>1. x = f[k] /\ s = Values(f, k) /\ s \in Seq(BOOLEAN) /\ shown' = Append(s, x)
    BY <1>5, <1>7, <1>8, <1>9, <1>12, Zenon
  <2> HIDE DEF x, s
  <2>2. Append(s, x) = Values(f, k + 1)
    BY <1>6, <2>1, AppendOne
  <2> QED
    BY <2>1, <2>2
<1> QED
  BY <1>10, <1>11, <1>12

(* The invariant of the plane and of what the scan takes from it.          *)
DataInv == UpdateInv /\ LeftInv /\ SourceInv

(* A sweep's first word, rotated.                                          *)
LEMMA BeginWord ==
  ASSUME IInv, CountInv, PlaceInv, BeginSweep, ~ smeared'
  PROVE  /\ ~ smeared /\ addr' \in SUBSET Bit /\ Aligned(addr')
         /\ \A b \in 0 .. W - 1 : word'[b] = plane[Num(addr') + Turn(b, Place')]
         /\ Place' = 0 => word' = Load(plane, addr')
<1> DEFINE off == BitOffset(osr)
           w == Load(plane, addr')
<1>1. /\ pc = "sweep" /\ word' = (IF off = 0 THEN w ELSE Rotated(w, off))
      /\ smeared' = (smeared \/ (off # 0 /\ Smears(w, W - off)))
  BY Zenon DEF BeginSweep
<1>2. Place' = off
  BY BeginPlace
<1>3. off \in 0 .. W - 1 /\ W \in Nat /\ W >= 2
  BY <1>1, SweepFacts
<1>4. plane \in [Cells -> BOOLEAN]
  BY DEF IInv, TypeOK
<1>5. addr' \in SUBSET Bit /\ Aligned(addr')
  <2>1. IInv'
    BY SweepStep
  <2> QED
    BY <2>1 DEF IInv, TypeOK, ShapeInv
<1>6. w \in Words
  BY <1>4, <1>5, LoadTyped
<1>7. \A b \in 0 .. W - 1 : w[b] = plane[Num(addr') + b]
  BY DEF Load
<1>8. smeared \in BOOLEAN
  BY DEF IInv, TypeOK
<1> HIDE DEF off, w
<1>9. ~ smeared /\ (off # 0 => ~ Smears(w, W - off))
  BY <1>1, <1>8
<1>10. CASE off = 0
  <2>1. \A b \in 0 .. W - 1 : Turn(b, off) = b
    BY <1>3, <1>10, TurnFacts
  <2> QED
    BY <1>1, <1>2, <1>5, <1>7, <1>9, <1>10, <2>1 DEF w
<1>11. CASE off # 0
  <2>1. off \in 1 .. W - 1
    <3> HIDE DEF W
    <3> QED
      BY <1>3, <1>11
  <2>2. \A b \in 0 .. W - 1 : Rotated(w, off)[b] = w[Turn(b, off)]
    BY <1>6, <1>9, <1>11, <2>1, RotatedAt
  <2>3. \A b \in 0 .. W - 1 : Turn(b, off) \in 0 .. W - 1
    BY <1>3, TurnFacts
  <2> QED
    BY <1>1, <1>2, <1>5, <1>7, <1>9, <1>11, <2>2, <2>3
<1> QED
  BY <1>10, <1>11

(* The start of a sweep changes nothing.                                   *)
LEMMA BeginKeeps ==
  ASSUME IInv, CountInv, PlaceInv, DataInv, BeginSweep
  PROVE  DataInv'
<1>1. /\ pc = "sweep" /\ pc' = "site" /\ plane' = plane
      /\ UNCHANGED <<registers, tables, sources, start, reading>>
  BY DEF BeginSweep, history
<1>2. UNCHANGED <<registers, tables, tpos, eventCount, shown, start, reading, rule>>
  BY <1>1 DEF sources, registers
<1>3. Sofar' = Sofar
  BY BeginPlace
<1>4. /\ IsDestUpdated' = IsDestUpdated /\ Fetch' = Fetch /\ Old' = Old
      /\ \A c, v, k : Right(c, v, k)' = Right(c, v, k)
  BY <1>2, SceneStays
<1>5. SUFFICES ASSUME ~ smeared' PROVE DataInv'
  BY <1>1 DEF DataInv, UpdateInv, LeftInv, SourceInv
<1>6. /\ ~ smeared /\ addr' \in SUBSET Bit /\ Aligned(addr')
      /\ \A b \in 0 .. W - 1 : word'[b] = plane[Num(addr') + Turn(b, Place')]
      /\ Place' = 0 => word' = Load(plane, addr')
  BY <1>5, BeginWord
<1>7. Sweeping /\ UpdateInv /\ LeftInv /\ SourceInv
  BY <1>1 DEF Sweeping, DataInv
<1>8. UpdateInv'
  <2> SUFFICES ASSUME IsDestUpdated
               PROVE  /\ \A c \in Cells : Right(c, plane'[c], Sofar')
                      /\ \A b \in 0 .. W - 1 : Right(Num(addr') + Turn(b, Place'), word'[b], Sofar')
                      /\ Place' = 0 => word' = Load(plane', addr')
    BY <1>4, Zenon DEF UpdateInv
  <2>1. \A c \in Cells : Right(c, plane[c], Sofar)
    BY <1>1, <1>6, <1>7 DEF UpdateInv
  <2>2. ASSUME NEW b \in 0 .. W - 1 PROVE Right(Num(addr') + Turn(b, Place'), word'[b], Sofar')
    <3>1. Place' \in 0 .. W - 1
      BY <1>1, BeginPlace, SweepFacts
    <3>2. Turn(b, Place') \in 0 .. W - 1
      BY <3>1, TurnFacts
    <3>3. Num(addr') + Turn(b, Place') \in Cells
      BY <1>6, <3>2, WordCells
    <3> QED
      BY <1>3, <1>6, <2>1, <3>3
  <2> QED
    BY <1>1, <1>3, <1>6, <2>1, <2>2
<1>9. LeftInv'
  BY <1>1, <1>2, <1>4, <1>6, <1>7 DEF LeftInv
<1>10. SourceInv'
  BY <1>2, <1>3, <1>4, <1>6, <1>7 DEF SourceInv
<1> QED
  BY <1>8, <1>9, <1>10 DEF DataInv

(* The end of a sweep puts the rest of its last word back.                 *)
LEMMA SaveWord ==
  ASSUME IInv, CountInv, PlaceInv, UpdateInv, SaveLastWord, ~ smeared', IsDestUpdated
  PROVE  ~ smeared /\ \A c \in Cells : Right(c, plane'[c], Sofar)
<1> DEFINE off == BitOffset(osr)
           n == Num(addr)
<1>1. pc = "last" /\ Place = off /\ Sweeping
  <2>1. pc = "last" /\ Place = off
    BY SaveCounts
  <2> QED
    BY <2>1 DEF Sweeping
<1>2. off \in 0 .. W - 1 /\ W \in Nat /\ W >= 2
  BY <1>1, SweepFacts
<1>3. smeared \in BOOLEAN /\ addr \in SUBSET Bit /\ Aligned(addr) /\ word \in Words
  BY DEF IInv, TypeOK, ShapeInv
<1>4. /\ off = 0 => plane' = plane /\ smeared' = smeared
      /\ off # 0 => /\ plane' = Store(addr, Or(Shl(word, W - off), Sar(word, off)))
                    /\ smeared' = (smeared \/ Smears(word, off))
  BY Zenon DEF SaveLastWord
<1>5. ~ smeared
  BY <1>3, <1>4
<1>6. /\ \A c \in Cells : InWord(c) \/ Right(c, plane[c], Sofar)
      /\ \A b \in 0 .. W - 1 : Right(n + Turn(b, off), word[b], Sofar)
      /\ off = 0 => word = Load(plane, addr)
  BY <1>1, <1>5, Zenon DEF UpdateInv
<1> HIDE DEF off
<1>7. CASE off = 0
  <2>1. ASSUME NEW c \in Cells PROVE Right(c, plane'[c], Sofar)
    <3>1. CASE \E b \in 0 .. W - 1 : c = n + b
      <4>1. PICK b \in 0 .. W - 1 : c = n + b
        BY <3>1
      <4>2. Turn(b, off) = b
        BY <1>2, <1>7, TurnFacts
      <4>3. word[b] = plane[n + b]
        BY <1>6, <1>7 DEF Load
      <4> QED
        BY <1>4, <1>6, <1>7, <4>1, <4>2, <4>3
    <3>2. CASE ~ \E b \in 0 .. W - 1 : c = n + b
      BY <1>4, <1>6, <1>7, <3>2 DEF InWord
    <3> QED
      BY <3>1, <3>2
  <2> QED
    BY <1>5, <2>1
<1>8. CASE off # 0
  <2> DEFINE k == W - off
             v == Rotated(word, k)
  <2>1. k \in 1 .. W - 1 /\ W - k = off /\ off >= 1
    <3> HIDE DEF W
    <3> QED
      BY <1>2, <1>8
  <2>2. ~ Smears(word, off)
    BY <1>4, <1>8
  <2>3. v = Or(Shl(word, W - off), Sar(word, off))
    BY <2>1 DEF Rotated
  <2>4. ~ Smears(word, W - k)
    BY <2>1, <2>2
  <2> HIDE DEF k
  <2>5. v \in Words /\ \A b \in 0 .. W - 1 : v[b] = word[Turn(b, k)]
    BY <1>3, <2>1, <2>4, RotatedAt
  <2> HIDE DEF v
  <2>6. plane' = Store(addr, v)
    BY <1>4, <1>8, <2>3
  <2>7. /\ \A b \in 0 .. W - 1 : plane'[n + b] = v[b]
        /\ \A c \in Cells : (\A b \in 0 .. W - 1 : c # n + b) => plane'[c] = plane[c]
    BY <1>3, <2>5, <2>6, StoreIs
  <2>8. \A b \in 0 .. W - 1 : Turn(b, k) \in 0 .. W - 1 /\ Turn(Turn(b, k), off) = b
    BY <1>2, <2>1, TurnFacts DEF k
  <2>9. ASSUME NEW c \in Cells PROVE Right(c, plane'[c], Sofar)
    <3>1. CASE \E b \in 0 .. W - 1 : c = n + b
      <4>1. PICK b \in 0 .. W - 1 : c = n + b
        BY <3>1
      <4>2. Right(n + Turn(Turn(b, k), off), word[Turn(b, k)], Sofar)
        BY <1>6, <2>8
      <4> QED
        BY <2>5, <2>7, <2>8, <4>1, <4>2
    <3>2. CASE ~ \E b \in 0 .. W - 1 : c = n + b
      BY <1>6, <2>7, <3>2 DEF InWord
    <3> QED
      BY <3>1, <3>2
  <2> QED
    BY <1>5, <2>9
<1> QED
  BY <1>7, <1>8

(* And nothing else of what the scan is right about changes.               *)
LEMMA SaveKeeps ==
  ASSUME IInv, CountInv, PlaceInv, DataInv, SaveLastWord
  PROVE  DataInv'
<1>1. /\ pc = "last" /\ pc' \in {"sweep", "done"} /\ Sofar' = Sofar
      /\ UNCHANGED <<registers, tables, sources, start, reading>>
  BY SaveCounts
<1>2. UNCHANGED <<registers, tables, tpos, eventCount, shown, start, reading, rule>>
  BY <1>1 DEF sources, registers
<1>3. /\ IsDestUpdated' = IsDestUpdated /\ Fetch' = Fetch /\ Old' = Old
      /\ \A c, v, k : Right(c, v, k)' = Right(c, v, k)
  BY <1>2, SceneStays
<1>4. Sweeping /\ UpdateInv /\ LeftInv /\ SourceInv
  BY <1>1 DEF Sweeping, DataInv
<1>5. SUFFICES ASSUME ~ smeared' PROVE DataInv'
  <2>1. smeared' \in BOOLEAN
    <3>1. IInv'
      BY SweepStep
    <3> QED
      BY <3>1 DEF IInv, TypeOK
  <2> QED
    BY <2>1 DEF DataInv, UpdateInv, LeftInv, SourceInv
<1>6. ~ smeared /\ (~ IsDestUpdated => plane' = plane)
  BY <1>5 DEF SaveLastWord, IInv, TypeOK
<1>7. UpdateInv'
  <2> SUFFICES ASSUME IsDestUpdated PROVE \A c \in Cells : Right(c, plane'[c], Sofar')
    BY <1>1, <1>3, Zenon DEF UpdateInv
  <2> QED
    BY <1>1, <1>4, <1>5, SaveWord
<1>8. LeftInv'
  BY <1>1, <1>2, <1>3, <1>4, <1>6 DEF LeftInv
<1>9. SourceInv'
  BY <1>1, <1>2, <1>3, <1>4, <1>6 DEF SourceInv
<1> QED
  BY <1>7, <1>8, <1>9 DEF DataInv

(* A scan starts with every cell as it was.                                *)
LEMMA StartKeeps ==
  ASSUME IInv, NEW read \in BOOLEAN, StartsScan(read)
  PROVE  DataInv'
<1>1. /\ Sweeping' => pc' = "sweep"
      /\ Sweeping' => Sofar' = 0
      /\ plane' = plane /\ start'.plane = plane /\ start'.tpos = tpos' /\ start'.events = eventCount
      /\ eventCount' = eventCount /\ eventCount \in Nat /\ shown' = <<>> /\ tpos' \in Nat
  BY StartDoes
<1>2. ASSUME Sweeping' PROVE UpdateInv'
  <2>1. \A j \in 0 .. Sofar' - 1 : FALSE
    BY <1>1, <1>2
  <2>2. \A c \in Cells : Right(c, plane[c], Sofar)'
    BY <1>1, <2>1, Zenon DEF Right
  <2> QED
    BY <1>1, <1>2, <2>2 DEF UpdateInv
<1>3. ASSUME Sweeping' PROVE LeftInv'
  BY <1>1, <1>3 DEF LeftInv
<1>4. ASSUME Sweeping' PROVE SourceInv'
  <2>1. Sofar' = 0
    BY <1>1, <1>4
  <2>2. \A f : Ones(f, 0) = 0
    <3>1. \A f : {j \in 0 .. 0 - 1 : f[j]} = {}
      OBVIOUS
    <3> QED
      BY <3>1, FS_EmptySet, Zenon DEF Ones
  <2>3. \A f : Values(f, 0) = <<>>
    BY DEF Values
  <2>4. tpos' + 0 = tpos' /\ eventCount + 0 = eventCount
    <3> DEFINE t == tpos'
               n == eventCount
    <3>1. t \in Nat /\ n \in Nat
      BY <1>1
    <3> HIDE DEF t, n
    <3>2. t + 0 = t /\ n + 0 = n
      BY <3>1
    <3> QED
      BY <3>2 DEF t, n
  <2> QED
    BY <1>1, <2>1, <2>2, <2>3, <2>4 DEF SourceInv
<1> QED
  BY <1>2, <1>3, <1>4 DEF DataInv, UpdateInv, LeftInv, SourceInv

(* The plane and the sources, after any step.                              *)
LEMMA DataStep ==
  ASSUME IInv, TablesApart, RowKept, CountInv, PlaceInv, DataInv, [Next]_vars
  PROVE  DataInv'
<1>1. CASE UNCHANGED vars
  <2>1. UNCHANGED <<registers, tables, sources, loop, history, sir, plane, pc, reading, smeared>>
    BY <1>1 DEF vars
  <2>2. UNCHANGED <<registers, tables, start, reading, sir, pc, xLen, xCtr, i, addr, word, plane, smeared, numXBits,
                    osr, rule, tpos, eventCount, shown>>
    BY <2>1 DEF registers, history, loop, sources
  <2>3. /\ IsDestUpdated' = IsDestUpdated /\ Fetch' = Fetch /\ Old' = Old /\ PlaneUsed' = PlaneUsed
        /\ \A c, v, k : Right(c, v, k)' = Right(c, v, k)
    BY <2>2, SceneStays
  <2>4. Begun' = Begun /\ At' = At /\ Place' = Place /\ Sofar' = Sofar /\ Sweeping' = Sweeping
    BY <2>2, <2>3 DEF Begun, At, Place, BitOffset, Sofar, Sweeping
  <2>5. \A c : InWord(c)' = InWord(c)
    BY <2>2 DEF InWord
  <2>6. UpdateInv'
    BY <2>2, <2>3, <2>4, <2>5 DEF DataInv, UpdateInv
  <2>7. LeftInv'
    BY <2>2, <2>3, <2>4 DEF DataInv, LeftInv
  <2>8. SourceInv'
    BY <2>2, <2>3, <2>4 DEF DataInv, SourceInv
  <2> QED
    BY <2>6, <2>7, <2>8 DEF DataInv
<1>2. CASE pc' = "idle"
  BY <1>2 DEF DataInv, UpdateInv, LeftInv, SourceInv, Sweeping
<1>3. CASE \E read \in BOOLEAN : StartsScan(read)
  BY <1>3, StartKeeps
<1>4. CASE BeginSweep
  BY <1>4, BeginKeeps
<1>5. CASE UpdateSite
  BY <1>5, UpdateKeepsNew, UpdateKeepsOld, UpdateKeepsSources DEF DataInv
<1>6. CASE SaveLastWord
  BY <1>6, SaveKeeps
<1>7. CASE GeneralSite
  <2>1. start' = start /\ pc = "general" /\ pc' \in {"general", "done"}
    BY <1>7 DEF GeneralSite, history
  <2>2. ~ Sweeping'
    BY <2>1 DEF CountInv, Sweeping
  <2> QED
    BY <2>2 DEF DataInv, UpdateInv, LeftInv, SourceInv
<1> QED
  BY <1>1, <1>2, <1>3, <1>4, <1>5, <1>6, <1>7, StepCases

(* What the invariant says of a scan that is done.                         *)
LEMMA AllSwept ==
  ASSUME IInv, CountInv, pc = "done", start.fast, PlaneUsed
  PROVE  /\ Sweeping /\ Sofar = start.sites /\ start.sites \in Nat /\ start.sir \in Nat
         /\ sir = start.sir + start.sites
         /\ start.plane \in [Cells -> BOOLEAN] /\ start.events \in Nat
<1>1. Sweeping
  BY DEF Sweeping
<1>2. /\ start.plane \in [Cells -> BOOLEAN] /\ start.sir \in Nat /\ start.events \in Nat
      /\ start.sites = 2^esc - (start.sir % 2^esc)
      /\ sir + siteCtr * 2^Low = start.sir + start.sites
      /\ siteCtr = 0 /\ Low \in WordLog .. numXBits
  BY <1>1 DEF CountInv
<1>3. TypeOK
  BY DEF IInv
<1> DEFINE p == 2^esc
           q == 2^Low
           s == start.sir
           n == start.sites
           r == s % p
<1>4. p \in Nat \ {0} /\ q \in Nat
  <2>1. esc \in Nat
    BY <1>3, ScanAssumption DEF TypeOK
  <2>2. Low \in Nat
    BY <1>2, <1>3, WordFacts DEF TypeOK
  <2> QED
    BY <2>1, <2>2, PowType
<1>5. n \in Nat /\ s \in Nat
  <2> HIDE DEF p
  <2>1. r \in 0 .. p - 1 /\ n = p - r
    BY <1>2, <1>4 DEF p
  <2> HIDE DEF r, n
  <2> QED
    BY <1>2, <1>4, <2>1
<1>6. sir \in Nat
  BY <1>3 DEF TypeOK
<1>7. sir + siteCtr * q = s + n /\ siteCtr = 0
  BY <1>2
<1> HIDE DEF q, s, n
<1>8. sir = s + n /\ sir - s = n
  BY <1>4, <1>5, <1>6, <1>7
<1> QED
  BY <1>1, <1>2, <1>5, <1>8 DEF Sofar, Begun, s, n

(* The plane that the optimized scan leaves.                               *)
LEMMA DoneExact ==
  ASSUME IInv, CountInv, DataInv, pc = "done", start.fast, PlaneUsed, Provided, ~ smeared
  PROVE  plane = Scanned
<1>1. /\ Sweeping /\ Sofar = start.sites /\ start.plane \in [Cells -> BOOLEAN]
  BY AllSwept
<1>2. plane \in [Cells -> BOOLEAN] /\ TypeOK
  BY DEF IInv, TypeOK
<1> DEFINE n == start.sites
           old == start.plane
           ks(c) == {k \in 0 .. n - 1 : Cell(k) = c}
           new(c) == IF \E k \in 0 .. n - 1 : Cell(k) = c
                       THEN NewValue(old[c], Datum(CHOOSE k \in 0 .. n - 1 : Cell(k) = c))
                       ELSE old[c]
<1>3. ASSUME NEW c \in Cells PROVE plane[c] = new(c)
  <2>1. CASE \E k \in 0 .. n - 1 : Cell(k) = c
    <3> DEFINE k == CHOOSE k \in 0 .. n - 1 : Cell(k) = c
    <3>1. k \in 0 .. n - 1 /\ Cell(k) = c
      BY <2>1, Zenon
    <3>2. new(c) = NewValue(old[c], Datum(k))
      BY <2>1, Zenon
    <3> HIDE DEF k, new
    <3>3. CASE IsDestUpdated
      <4>1. Right(c, plane[c], n)
        BY <1>1, <3>3 DEF DataInv, UpdateInv
      <4>2. plane[c] = NewValue(old[c], Datum(k))
        BY <3>1, <4>1, Zenon DEF Right
      <4> QED
        BY <3>2, <4>2
    <3>4. CASE ~ IsDestUpdated
      <4>1. plane[c] = old[c] /\ old[c] \in BOOLEAN
        BY <1>1, <3>4 DEF DataInv, LeftInv
      <4> DEFINE v == old[c]
                 t == Datum(k)
      <4>2. v \in BOOLEAN
        BY <4>1
      <4> HIDE DEF v, t
      <4>3. NewValue(v, t) = v
        BY <1>2, <3>4, <4>2, OldValue
      <4> QED
        BY <3>2, <4>1, <4>3 DEF v, t
    <3> QED
      BY <3>3, <3>4
  <2>2. CASE ~ \E k \in 0 .. n - 1 : Cell(k) = c
    <3>1. new(c) = old[c]
      BY <2>2, Zenon
    <3> HIDE DEF new
    <3>2. CASE IsDestUpdated
      <4>1. Right(c, plane[c], n)
        BY <1>1, <3>2 DEF DataInv, UpdateInv
      <4>2. plane[c] = old[c]
        BY <2>2, <4>1, Zenon DEF Right
      <4> QED
        BY <3>1, <4>2
    <3>3. CASE ~ IsDestUpdated
      BY <1>1, <3>1, <3>3 DEF DataInv, LeftInv
    <3> QED
      BY <3>2, <3>3
  <2> QED
    BY <2>1, <2>2
<1>4. Scanned = [c \in Cells |-> new(c)]
  BY Zenon DEF Scanned, Covered
<1> HIDE DEF new
<1>5. plane = [c \in Cells |-> plane[c]]
  BY <1>2
<1>6. [c \in Cells |-> plane[c]] = [c \in Cells |-> new(c)]
  BY <1>3
<1> QED
  BY <1>4, <1>5, <1>6

(* And what it counts and returns.                                         *)
LEMMA DoneSources ==
  ASSUME IInv, CountInv, DataInv
  PROVE  SweepCounts /\ ReadInOrder
<1>1. ASSUME pc = "done", start.fast, PlaneUsed, ~ smeared
      PROVE  /\ rule.ecs = "site" =>
                  eventCount - start.events = Cardinality({k \in Covered : start.plane[Cell(k)]})
             /\ sir = start.sir + start.sites
             /\ reading /\ rule.dds = "site" =>
                  shown = [n \in 1 .. start.sites |-> start.plane[Cell(n - 1)]]
  <2>1. /\ Sweeping /\ Sofar = start.sites /\ start.sites \in Nat /\ sir = start.sir + start.sites
        /\ start.events \in Nat
    BY <1>1, AllSwept
  <2>2. /\ rule.ecs = "site" => eventCount = start.events + Ones(Old, Sofar)
        /\ reading /\ rule.dds = "site" => shown = Values(Old, Sofar)
    BY <1>1, <2>1 DEF DataInv, SourceInv
  <2> DEFINE m == start.sites
             e == start.events
             C == {k \in 0 .. m - 1 : start.plane[Cell(k)]}
  <2>3. Ones(Old, m) = Cardinality(C)
    <3>1. \A k \in 0 .. m - 1 : Old[k] = start.plane[Cell(k)]
      BY <2>1 DEF Old
    <3>2. {k \in 0 .. m - 1 : Old[k]} = C
      BY <3>1, Zenon
    <3> QED
      BY <3>2, Zenon DEF Ones
  <2>4. Values(Old, m) = [n \in 1 .. m |-> start.plane[Cell(n - 1)]]
    <3> HIDE DEF m
    <3>1. \A n \in 1 .. m : n - 1 \in Nat
      BY <2>1 DEF m
    <3>2. \A n \in 1 .. m : Old[n - 1] = start.plane[Cell(n - 1)]
      BY <3>1 DEF Old
    <3> QED
      BY <3>2 DEF Values
  <2>5. Ones(Old, m) \in Nat
    BY <2>1, CountOne
  <2>6. rule.ecs = "site" => eventCount - e = Cardinality(C)
    <3> DEFINE N == Ones(Old, m)
    <3>1. N \in Nat /\ N = Cardinality(C) /\ e \in Nat /\ (rule.ecs = "site" => eventCount = e + N)
      BY <2>1, <2>2, <2>3, <2>5
    <3> HIDE DEF N, C, e
    <3>2. (e + N) - e = N
      BY <3>1
    <3> QED
      BY <3>1, <3>2
  <2> QED
    BY <2>1, <2>2, <2>4, <2>6 DEF Covered
<1> QED
  BY <1>1, Zenon DEF SweepCounts, ReadInOrder

(* The inductive invariant of the optimized scan.                          *)
SweepInv == IInv /\ TablesApart /\ RowKept /\ CountInv /\ PlaceInv /\ DataInv

(* It holds in every reachable state.                                      *)
LEMMA SweepInvariant == Spec => []SweepInv
<1>1. Init => CountInv /\ PlaceInv /\ DataInv
  BY DEF Init, CountInv, PlaceInv, DataInv, UpdateInv, LeftInv, SourceInv, Sweeping
<1>2. ASSUME CountInv /\ PlaceInv /\ DataInv, [Next]_vars, IInv, TablesApart, RowKept
      PROVE  (CountInv /\ PlaceInv /\ DataInv)'
  BY <1>2, PlaceStep, DataStep
<1>3. Spec => []IInv
  BY SpecInv
<1>4. Spec => []TablesApart
  BY TablesStayApart
<1>5. Spec => []RowKept
  BY SweepsKeepRow
<1> QED
  BY <1>1, <1>2, <1>3, <1>4, <1>5, PTL DEF Spec, SweepInv

(* SweepExact: SimScanNoPerm leaves the plane as the rule says, each site  *)
(* of the scan updated once from its old value and its datum and no other  *)
(* cell changed, for every offset, mask and plane, unless a sign smeared.  *)
THEOREM SweepsAreExact == Spec => []SweepExact
<1>1. SweepInv => SweepExact
  BY DoneExact DEF SweepInv, SweepExact
<1> QED
  BY <1>1, SweepInvariant, PTL

(* SweepCounts: EVENT_COUNT has grown by the number of ones there were in  *)
(* the scan's sites, and the scan index has moved past the last of them.   *)
THEOREM SweepsCount == Spec => []SweepCounts
<1>1. SweepInv => SweepCounts
  BY DoneSources DEF SweepInv
<1> QED
  BY <1>1, SweepInvariant, PTL

(* ReadInOrder: reading the scan I/O register returns what the sites held  *)
(* before the scan, one value a site, in scan order.                       *)
THEOREM ReadsInOrder == Spec => []ReadInOrder
<1>1. SweepInv => ReadInOrder
  BY DoneSources DEF SweepInv
<1> QED
  BY <1>1, SweepInvariant, PTL
=============================================================================
