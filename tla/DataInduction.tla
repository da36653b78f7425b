---------------------------- MODULE DataInduction -----------------------------
(***************************************************************************)
(* Induction over the natural numbers and over lists, stated about sets    *)
(* and functions so that the provers can use it: the library states them   *)
(* about operators.  It rests on the library's theorem that the finite     *)
(* subsets of a set are well-founded under inclusion.                      *)
(***************************************************************************)
EXTENDS Integers, Sequences, FiniteSetTheorems, TLAPS

(* A set of natural numbers that is not empty has a least element. *)
LEMMA LeastNatural ==
  ASSUME NEW T \in SUBSET Nat, T # {}
  PROVE  \E x \in T : \A y \in T : x <= y
<1> DEFINE R == StrictSubsetOrdering(Nat)
           F == FiniteSubsetsOf(Nat)
           U == {0 .. x : x \in T}
<1>1. IsWellFoundedOn(R, F)
  BY FS_StrictSubsetOrderingWellFounded
<1>2. U \subseteq F
  <2> SUFFICES ASSUME NEW x \in T
               PROVE  0 .. x \in F
    OBVIOUS
  <2>1. IsFiniteSet(0 .. x)
    BY FS_Interval
  <2>2. 0 .. x \in SUBSET Nat
    OBVIOUS
  <2> QED BY <2>1, <2>2 DEF FiniteSubsetsOf
<1>3. U # {}
  OBVIOUS
<1>4. \A x, y \in Nat : y < x => << 0 .. y, 0 .. x >> \in R
  <2> TAKE x, y \in Nat
  <2> HAVE y < x
  <2>1. 0 .. y \in SUBSET Nat /\ 0 .. x \in SUBSET Nat
    OBVIOUS
  <2>2. 0 .. y \subseteq 0 .. x
    OBVIOUS
  <2>3. x \in 0 .. x /\ x \notin 0 .. y
    OBVIOUS
  <2> QED BY <2>1, <2>2, <2>3, Zenon DEF StrictSubsetOrdering
<1> HIDE DEF R, F
<1>5. \E u \in U : \A v \in U : ~ (<< v, u >> \in R)
  <2> HIDE DEF U
  <2> QED BY <1>1, <1>2, <1>3, WFMin
<1>6. PICK x \in T : \A v \in U : ~ (<< v, 0 .. x >> \in R)
  BY <1>5
<1>7. \A y \in T : ~ (y < x)
  BY <1>4, <1>6
<1> QED BY <1>7

(* Induction: a set with 0 and the successors of its elements is Nat. *)
LEMMA NaturalsBySuccessor ==
  ASSUME NEW T \in SUBSET Nat, 0 \in T, \A n \in T : n + 1 \in T
  PROVE  T = Nat
<1> SUFFICES ASSUME Nat \ T # {}
             PROVE  FALSE
  OBVIOUS
<1>1. PICK x \in Nat \ T : \A y \in Nat \ T : x <= y
  BY LeastNatural
<1>2. x - 1 \in T
  BY <1>1
<1> QED BY <1>1, <1>2

(* g is the run of a step function over a list: where it stands after each *)
(* of the list's prefixes.                                                 *)
IsFold(g, A, step, a0, list) ==
  /\ g \in [0 .. Len(list) -> A]
  /\ g[0] = a0
  /\ \A n \in 1 .. Len(list) : g[n] = step[<< g[n - 1], list[n] >>]

(***************************************************************************)
(* A fold over a list exists, so the definition of a recursive function    *)
(* f[n \in 0 .. Len(list)] == ... that computes one is not empty.          *)
(***************************************************************************)
LEMMA FoldExists ==
  ASSUME NEW A, NEW B, NEW step \in [A \X B -> A], NEW a0 \in A, NEW list \in Seq(B)
  PROVE  \E g : IsFold(g, A, step, a0, list)
<1> DEFINE Folds(g, m) == /\ g[0] = a0
                          /\ \A n \in 1 .. m : n <= Len(list) =>
                               g[n] = step[<< g[n - 1], list[n] >>]
           P(m) == \E g \in [0 .. m -> A] : Folds(g, m)
           T == {m \in Nat : P(m)}
<1>1. P(0)
  <2>1. [n \in 0 .. 0 |-> a0] \in [0 .. 0 -> A] /\ [n \in 0 .. 0 |-> a0][0] = a0
    OBVIOUS
  <2>2. 1 .. 0 = {}
    OBVIOUS
  <2> QED BY <2>1, <2>2
<1>2. ASSUME NEW m \in Nat, P(m)
      PROVE  P(m + 1)
  <2>1. PICK g \in [0 .. m -> A] : Folds(g, m)
    BY <1>2
  <2> DEFINE e == IF m + 1 <= Len(list) THEN step[<< g[m], list[m + 1] >>] ELSE a0
             h == [n \in 0 .. m + 1 |-> IF n <= m THEN g[n] ELSE e]
  <2>2. g[m] \in A /\ (m + 1 <= Len(list) => list[m + 1] \in B)
    OBVIOUS
  <2>3. e \in A /\ (m + 1 <= Len(list) => e = step[<< g[m], list[m + 1] >>])
    BY <2>2
  <2> HIDE DEF e
  <2>4. h \in [0 .. m + 1 -> A]
    BY <2>3
  <2>5. h[0] = a0
    BY <2>1
  <2>6. ASSUME NEW n \in 1 .. m + 1, n <= Len(list)
        PROVE  h[n] = step[<< h[n - 1], list[n] >>]
    <3>1. CASE n <= m
      BY <2>1, <2>6, <3>1
    <3>2. CASE n = m + 1
      BY <2>3, <2>6, <3>2
    <3> QED BY <3>1, <3>2
  <2> HIDE DEF h
  <2> QED BY <2>4, <2>5, <2>6
<1> HIDE DEF P
<1>3. T \in SUBSET Nat /\ 0 \in T /\ \A m \in T : m + 1 \in T
  BY <1>1, <1>2
<1>4. T = Nat
  <2> HIDE DEF T
  <2> QED BY <1>3, NaturalsBySuccessor
<1>5. PICK g \in [0 .. Len(list) -> A] : Folds(g, Len(list))
  BY <1>4 DEF P
<1> QED BY <1>5 DEF IsFold

(* What satisfies the equations of such a run, one step at a time, is it. *)
LEMMA RunIsFold ==
  ASSUME NEW A, NEW B, NEW step \in [A \X B -> A], NEW a0 \in A, NEW list \in Seq(B), NEW after,
         after = [n \in 0 .. Len(list) |-> after[n]], after[0] = a0,
         \A n \in 1 .. Len(list) :
           after[n - 1] \in A => after[n] = step[<< after[n - 1], list[n] >>]
  PROVE  IsFold(after, A, step, a0, list)
<1> DEFINE T == {n \in Nat : n <= Len(list) => after[n] \in A}
<1>1. Len(list) \in Nat /\ \A n \in 1 .. Len(list) : list[n] \in B
  OBVIOUS
<1>2. 0 \in T
  OBVIOUS
<1>3. ASSUME NEW n \in T
      PROVE  n + 1 \in T
  <2> SUFFICES ASSUME n + 1 <= Len(list)
               PROVE  after[n + 1] \in A
    OBVIOUS
  <2>1. n \in Nat /\ n + 1 \in 1 .. Len(list) /\ (n + 1) - 1 = n /\ after[n] \in A
    BY <1>1
  <2>2. after[n + 1] = step[<< after[n], list[n + 1] >>] /\ list[n + 1] \in B
    BY <1>1, <2>1
  <2> QED BY <2>1, <2>2
<1>4. T = Nat
  <2>1. T \in SUBSET Nat
    OBVIOUS
  <2> HIDE DEF T
  <2> QED BY <2>1, <1>2, <1>3, NaturalsBySuccessor
<1>5. \A n \in 0 .. Len(list) : after[n] \in A
  BY <1>1, <1>4
<1>6. after \in [0 .. Len(list) -> A]
  BY <1>5
<1>7. \A n \in 1 .. Len(list) : n - 1 \in 0 .. Len(list)
  BY <1>1
<1> QED BY <1>5, <1>6, <1>7 DEF IsFold

(* value has, for every list, where such a run ends. *)
EndsRuns(value, A, B, step, a0) ==
  \A list \in Seq(B) : \E after :
    IsFold(after, A, step, a0, list) /\ value[list] = after[Len(list)]

(* value starts at a0 and takes a step with each element that is appended. *)
Grows(value, A, B, step, a0) ==
  /\ value[<< >>] = a0
  /\ \A s \in Seq(B) : value[s] \in A
  /\ \A s \in Seq(B), e \in B : value[Append(s, e)] = step[<< value[s], e >>]

(***************************************************************************)
(* A value that is where a run over the list ends starts at a0 and takes a *)
(* step with each element that is appended.                                *)
(***************************************************************************)
LEMMA FoldGrows ==
  ASSUME NEW A, NEW B, NEW step \in [A \X B -> A], NEW a0 \in A, NEW value,
         EndsRuns(value, A, B, step, a0)
  PROVE  Grows(value, A, B, step, a0)
<1>1. value[<< >>] = a0
  <2>1. << >> \in Seq(B) /\ Len(<< >>) = 0
    OBVIOUS
  <2>2. PICK after : IsFold(after, A, step, a0, << >>) /\ value[<< >>] = after[Len(<< >>)]
    BY <2>1 DEF EndsRuns
  <2> QED BY <2>1, <2>2 DEF IsFold
<1>2. ASSUME NEW s \in Seq(B)
      PROVE  value[s] \in A
  <2>1. PICK g : IsFold(g, A, step, a0, s) /\ value[s] = g[Len(s)]
    BY DEF EndsRuns
  <2> QED BY <2>1 DEF IsFold
<1>3. ASSUME NEW s \in Seq(B), NEW e \in B
      PROVE  value[Append(s, e)] = step[<< value[s], e >>]
  <2> DEFINE t == Append(s, e)
  <2>1. /\ t \in Seq(B) /\ Len(t) = Len(s) + 1 /\ t[Len(s) + 1] = e /\ Len(s) \in Nat
        /\ \A n \in 1 .. Len(s) : s[n] = t[n]
    OBVIOUS
  <2> HIDE DEF t
  <2>2. PICK g : IsFold(g, A, step, a0, s) /\ value[s] = g[Len(s)]
    BY DEF EndsRuns
  <2>3. PICK h : IsFold(h, A, step, a0, t) /\ value[t] = h[Len(t)]
    BY <2>1 DEF EndsRuns
  <2>4. g[Len(s)] = h[Len(s)]
    <3> DEFINE T == {n \in Nat : n <= Len(s) => g[n] = h[n]}
    <3>1. T \in SUBSET Nat /\ 0 \in T
      BY <2>2, <2>3 DEF IsFold
    <3>2. ASSUME NEW n \in T
          PROVE  n + 1 \in T
      <4> SUFFICES ASSUME n + 1 <= Len(s)
                   PROVE  g[n + 1] = h[n + 1]
        OBVIOUS
      <4>1. /\ n \in Nat /\ n + 1 \in 1 .. Len(s) /\ n + 1 \in 1 .. Len(t) /\ (n + 1) - 1 = n
            /\ g[n] = h[n]
        BY <2>1
      <4>2. g[n + 1] = step[<< g[n], s[n + 1] >>] /\ h[n + 1] = step[<< h[n], t[n + 1] >>]
        BY <4>1, <2>2, <2>3 DEF IsFold
      <4> QED BY <4>1, <4>2, <2>1
    <3>3. T = Nat
      <4> HIDE DEF T
      <4> QED BY <3>1, <3>2, NaturalsBySuccessor
    <3> QED BY <2>1, <3>3
  <2>5. Len(s) + 1 \in 1 .. Len(t) /\ (Len(s) + 1) - 1 = Len(s)
    BY <2>1
  <2>6. h[Len(s) + 1] = step[<< h[Len(s)], e >>]
    BY <2>1, <2>3, <2>5 DEF IsFold
  <2> QED BY <2>1, <2>2, <2>3, <2>4, <2>6 DEF t
<1> QED BY <1>1, <1>2, <1>3 DEF Grows

(* Induction: a set with the empty list and, with a list, each list that    *)
(* is longer by an element, has all lists.                                  *)
LEMMA ListsByAppend ==
  ASSUME NEW S, NEW T \in SUBSET Seq(S), << >> \in T,
         \A s \in T, e \in S : Append(s, e) \in T
  PROVE  T = Seq(S)
<1> DEFINE U == {n \in Nat : \A s \in Seq(S) : Len(s) = n => s \in T}
<1>1. 0 \in U
  <2>1. \A s \in Seq(S) : Len(s) = 0 => s = << >>
    OBVIOUS
  <2> QED BY <2>1
<1>2. ASSUME NEW n \in U
      PROVE  n + 1 \in U
  <2> SUFFICES ASSUME NEW s \in Seq(S), Len(s) = n + 1
               PROVE  s \in T
    OBVIOUS
  <2>1. n \in Nat /\ \A r \in Seq(S) : Len(r) = n => r \in T
    OBVIOUS
  <2> DEFINE r == [i \in 1 .. n |-> s[i]]
  <2>2. r \in Seq(S) /\ Len(r) = n /\ s[n + 1] \in S
    BY <2>1
  <2>3. Append(r, s[n + 1]) = s
    BY <2>1, <2>2
  <2> HIDE DEF r
  <2> QED BY <2>1, <2>2, <2>3
<1>3. U = Nat
  <2>1. U \in SUBSET Nat
    OBVIOUS
  <2> HIDE DEF U
  <2> QED BY <2>1, <1>1, <1>2, NaturalsBySuccessor
<1>4. \A s \in Seq(S) : Len(s) \in Nat
  OBVIOUS
<1> QED BY <1>3, <1>4

(***************************************************************************)
(* A finite set listed by rank, each element at one more than the number   *)
(* of elements before it, is the set in order: every element comes once,   *)
(* after all those before it.                                              *)
(***************************************************************************)
LEMMA RankedList ==
  ASSUME NEW S, IsFiniteSet(S), NEW R,
         \A x \in S : << x, x >> \notin R,
         \A x, y, z \in S : << x, y >> \in R /\ << y, z >> \in R => << x, z >> \in R,
         \A x, y \in S : x # y => << x, y >> \in R \/ << y, x >> \in R
  PROVE  LET s == [i \in 1 .. Cardinality(S) |->
                     CHOOSE x \in S : Cardinality({y \in S : << y, x >> \in R}) = i - 1]
         IN  /\ Cardinality(S) \in Nat
             /\ s \in [1 .. Cardinality(S) -> S]
             /\ \A x \in S : \E i \in 1 .. Cardinality(S) : s[i] = x
             /\ \A i, j \in 1 .. Cardinality(S) : i < j => << s[i], s[j] >> \in R
<1> DEFINE n == Cardinality(S)
           below(x) == {y \in S : << y, x >> \in R}
           f == [x \in S |-> Cardinality(below(x))]
           s == [i \in 1 .. n |-> CHOOSE x \in S : Cardinality(below(x)) = i - 1]
<1>1. n \in Nat
  BY FS_CardinalityType
<1>2. \A x \in S : IsFiniteSet(below(x)) /\ Cardinality(below(x)) \in 0 .. n - 1
  <2> SUFFICES ASSUME NEW x \in S
               PROVE  IsFiniteSet(below(x)) /\ Cardinality(below(x)) \in 0 .. n - 1
    OBVIOUS
  <2>1. IsFiniteSet(S \ {x}) /\ Cardinality(S \ {x}) = n - 1
    BY FS_RemoveElement
  <2>2. below(x) \in SUBSET (S \ {x})
    OBVIOUS
  <2> HIDE DEF n, below
  <2>3. IsFiniteSet(below(x)) /\ Cardinality(below(x)) <= n - 1
    BY <2>1, <2>2, FS_Subset
  <2>4. Cardinality(below(x)) \in Nat
    BY <2>3, FS_CardinalityType
  <2> QED BY <2>3, <2>4, <1>1
<1>3. \A x, y \in S : << x, y >> \in R => Cardinality(below(x)) < Cardinality(below(y))
  <2> SUFFICES ASSUME NEW x \in S, NEW y \in S, << x, y >> \in R
               PROVE  Cardinality(below(x)) < Cardinality(below(y))
    OBVIOUS
  <2>1. x \in below(y) /\ below(x) \in SUBSET (below(y) \ {x})
    OBVIOUS
  <2> HIDE DEF below
  <2>2. IsFiniteSet(below(y) \ {x}) /\ Cardinality(below(y) \ {x}) = Cardinality(below(y)) - 1
    BY <1>2, <2>1, FS_RemoveElement
  <2>3. Cardinality(below(x)) <= Cardinality(below(y)) - 1
    BY <2>1, <2>2, FS_Subset
  <2> HIDE DEF n
  <2>4. Cardinality(below(x)) \in Nat /\ Cardinality(below(y)) \in Nat
    BY <1>1, <1>2
  <2> QED BY <2>3, <2>4
<1> HIDE DEF below, n
<1>4. f \in Injection(S, 0 .. n - 1)
  <2>1. \A x, y \in S : x # y => Cardinality(below(x)) # Cardinality(below(y))
    <3> SUFFICES ASSUME NEW x \in S, NEW y \in S, x # y
                 PROVE  Cardinality(below(x)) # Cardinality(below(y))
      OBVIOUS
    <3>1. Cardinality(below(x)) \in Int /\ Cardinality(below(y)) \in Int
      BY <1>1, <1>2
    <3>2. Cardinality(below(x)) < Cardinality(below(y)) \/ Cardinality(below(y)) < Cardinality(below(x))
      BY <1>3
    <3> QED BY <3>1, <3>2
  <2> QED BY <2>1, <1>2 DEF Injection, IsInjective
<1>5. f \in Surjection(S, 0 .. n - 1)
  <2>1. IsFiniteSet(0 .. n - 1) /\ Cardinality(0 .. n - 1) = n
    BY <1>1, FS_Interval
  <2> HIDE DEF f
  <2> QED BY <1>4, <2>1, FS_Injection DEF n
<1>6. \A i \in 1 .. n : s[i] \in S /\ Cardinality(below(s[i])) = i - 1
  <2> SUFFICES ASSUME NEW i \in 1 .. n
               PROVE  s[i] \in S /\ Cardinality(below(s[i])) = i - 1
    OBVIOUS
  <2>1. i - 1 \in 0 .. n - 1
    BY <1>1
  <2>2. \E x \in S : Cardinality(below(x)) = i - 1
    BY <2>1, <1>5 DEF Surjection
  <2> QED BY <2>2
<1>7. s \in [1 .. n -> S]
  BY <1>6
<1> HIDE DEF s, f
<1>8. \A i, j \in 1 .. n : i < j => << s[i], s[j] >> \in R
  <2> SUFFICES ASSUME NEW i \in 1 .. n, NEW j \in 1 .. n, i < j, << s[i], s[j] >> \notin R
               PROVE  FALSE
    OBVIOUS
  <2>1. /\ s[i] \in S /\ Cardinality(below(s[i])) = i - 1
        /\ s[j] \in S /\ Cardinality(below(s[j])) = j - 1
        /\ i \in Int /\ j \in Int
    BY <1>6
  <2>2. s[i] # s[j]
    BY <2>1
  <2>3. Cardinality(below(s[j])) < Cardinality(below(s[i]))
    BY <2>1, <2>2, <1>3
  <2> QED BY <2>1, <2>3
<1>9. ASSUME NEW x \in S
      PROVE  \E i \in 1 .. n : s[i] = x
  <2> DEFINE i == Cardinality(below(x)) + 1
  <2>1. i \in 1 .. n
    BY <1>1, <1>2
  <2>2. s[i] \in S /\ Cardinality(below(s[i])) = i - 1
    BY <2>1, <1>6
  <2>3. Cardinality(below(s[i])) = Cardinality(below(x)) /\ Cardinality(below(x)) \in Int
    BY <2>2, <1>2, <1>1
  <2>4. s[i] = x
    <3> HIDE DEF i
    <3> SUFFICES ASSUME s[i] # x
                 PROVE  FALSE
      OBVIOUS
    <3>1. Cardinality(below(s[i])) < Cardinality(below(x)) \/ Cardinality(below(x)) < Cardinality(below(s[i]))
      BY <2>2, <1>3
    <3> QED BY <3>1, <2>3
  <2> QED BY <2>1, <2>4
<1> QED BY <1>1, <1>7, <1>8, <1>9 DEF s, n, below

(* pick chooses an element of each subset of a set that is not empty, and   *)
(* g runs a step function over the set, an element less at a time.          *)
Picks(pick, D) == \A s \in SUBSET D : s # {} => pick[s] \in s
StepsIn(step, D, A) == \A s \in SUBSET D : s # {} => \A a \in A : step[<< s, a >>] \in A
IsSubsetFold(g, D, base, pick, step) ==
  \A s \in SUBSET D : g[s] = IF s = {} THEN base ELSE step[<< s, g[s \ {pick[s]}] >>]

(***************************************************************************)
(* Recursion over the subsets of a finite set, an element less at a time:  *)
(* a function that is defined so exists, as the community modules' folds   *)
(* over sets and functions assume.                                         *)
(***************************************************************************)
LEMMA SubsetRecursionExists ==
  ASSUME NEW D, IsFiniteSet(D), NEW A, NEW base \in A, NEW pick, Picks(pick, D),
         NEW step, StepsIn(step, D, A)
  PROVE  \E g \in [SUBSET D -> A] : IsSubsetFold(g, D, base, pick, step)
<1> DEFINE value(g, s) == IF s = {} THEN base ELSE step[<< s, g[s \ {pick[s]}] >>]
           P(n) == \E g \in [SUBSET D -> A] : \A s \in SUBSET D :
                     Cardinality(s) <= n => g[s] = value(g, s)
           T == {n \in Nat : P(n)}
<1>1. \A s \in SUBSET D : IsFiniteSet(s) /\ Cardinality(s) \in Nat /\ Cardinality(s) <= Cardinality(D)
  <2> TAKE s \in SUBSET D
  <2>1. IsFiniteSet(s) /\ Cardinality(s) <= Cardinality(D)
    BY FS_Subset
  <2> QED BY <2>1, FS_CardinalityType
<1>2. \A s \in SUBSET D : s # {} =>
        s \ {pick[s]} \in SUBSET D /\ Cardinality(s \ {pick[s]}) = Cardinality(s) - 1
  BY <1>1, FS_RemoveElement DEF Picks
<1>3. \A g \in [SUBSET D -> A], s \in SUBSET D : value(g, s) \in A
  BY <1>2 DEF StepsIn
<1>4. P(0)
  <2> DEFINE g == [s \in SUBSET D |-> base]
  <2>1. \A s \in SUBSET D : Cardinality(s) <= 0 => s = {}
    <3> TAKE s \in SUBSET D
    <3> HAVE Cardinality(s) <= 0
    <3>1. IsFiniteSet(s) /\ Cardinality(s) = 0
      BY <1>1
    <3> QED BY <3>1, FS_EmptySet
  <2>2. g \in [SUBSET D -> A] /\ g[{}] = base
    OBVIOUS
  <2> QED BY <2>1, <2>2
<1>5. ASSUME NEW n \in Nat, P(n)
      PROVE  P(n + 1)
  <2>1. PICK g \in [SUBSET D -> A] : \A s \in SUBSET D : Cardinality(s) <= n => g[s] = value(g, s)
    BY <1>5
  <2> DEFINE h == [s \in SUBSET D |-> IF Cardinality(s) <= n THEN g[s] ELSE value(g, s)]
  <2>2. h \in [SUBSET D -> A]
    <3> HIDE DEF value
    <3> QED BY <1>3
  <2>3. \A s \in SUBSET D : Cardinality(s) <= n => h[s] = g[s]
    OBVIOUS
  <2>4. \A s \in SUBSET D : h[s] = value(g, s)
    <3> HIDE DEF value
    <3> QED BY <2>1
  <2> HIDE DEF h
  <2>5. ASSUME NEW s \in SUBSET D, Cardinality(s) <= n + 1
        PROVE  value(h, s) = value(g, s)
    <3>1. CASE s = {}
      BY <3>1
    <3>2. CASE s # {}
      <4>1. s \ {pick[s]} \in SUBSET D /\ Cardinality(s \ {pick[s]}) = Cardinality(s) - 1
        BY <3>2, <1>2
      <4>2. Cardinality(s \ {pick[s]}) <= n
        BY <4>1, <2>5, <1>1
      <4>3. h[s \ {pick[s]}] = g[s \ {pick[s]}]
        BY <4>1, <4>2, <2>3
      <4> QED BY <4>3, <3>2
    <3> QED BY <3>1, <3>2
  <2>6. \A s \in SUBSET D : Cardinality(s) <= n + 1 => h[s] = value(h, s)
    <3> HIDE DEF value
    <3> QED BY <2>4, <2>5
  <2> QED BY <2>2, <2>6
<1> HIDE DEF P
<1>6. T = Nat
  <2>1. T \in SUBSET Nat /\ 0 \in T /\ \A n \in T : n + 1 \in T
    BY <1>4, <1>5
  <2> HIDE DEF T
  <2> QED BY <2>1, NaturalsBySuccessor
<1>7. P(Cardinality(D))
  <2>1. Cardinality(D) \in Nat
    BY FS_CardinalityType
  <2> QED BY <2>1, <1>6
<1>8. PICK g \in [SUBSET D -> A] : \A s \in SUBSET D :
        Cardinality(s) <= Cardinality(D) => g[s] = value(g, s)
  <2> HIDE DEF value
  <2> QED BY <1>7 DEF P
<1>9. \A s \in SUBSET D : g[s] = value(g, s)
  <2> HIDE DEF value
  <2> QED BY <1>1, <1>8
<1> QED BY <1>9 DEF IsSubsetFold

(* What such a function yields is of the type of its base, if its steps     *)
(* keep that type.                                                          *)
LEMMA SubsetRecursionType ==
  ASSUME NEW D, IsFiniteSet(D), NEW A, NEW pick, Picks(pick, D), NEW g,
         g[{}] \in A,
         \A s \in SUBSET D : s # {} /\ g[s \ {pick[s]}] \in A => g[s] \in A
  PROVE  g[D] \in A
<1> DEFINE T == {n \in Nat : \A s \in SUBSET D : Cardinality(s) = n => g[s] \in A}
<1>1. \A s \in SUBSET D : IsFiniteSet(s) /\ Cardinality(s) \in Nat
  <2> TAKE s \in SUBSET D
  <2>1. IsFiniteSet(s)
    BY FS_Subset
  <2> QED BY <2>1, FS_CardinalityType
<1>2. 0 \in T
  <2>1. \A s \in SUBSET D : Cardinality(s) = 0 => s = {}
    BY <1>1, FS_EmptySet
  <2> QED BY <2>1
<1>3. ASSUME NEW n \in T
      PROVE  n + 1 \in T
  <2> SUFFICES ASSUME NEW s \in SUBSET D, Cardinality(s) = n + 1
               PROVE  g[s] \in A
    OBVIOUS
  <2>0. n \in Nat
    OBVIOUS
  <2>1. \A r \in SUBSET D : Cardinality(r) = n => g[r] \in A
    OBVIOUS
  <2> HIDE DEF T
  <2>2. s # {}
    <3>1. Cardinality({}) = 0
      BY FS_EmptySet
    <3>2. n + 1 # 0
      BY <2>0
    <3> QED BY <3>1, <3>2, Zenon
  <2>3. s \ {pick[s]} \in SUBSET D /\ Cardinality(s \ {pick[s]}) = n
    <3>1. Cardinality(s \ {pick[s]}) = Cardinality(s) - 1
      BY <2>2, <1>1, FS_RemoveElement DEF Picks
    <3>2. s \ {pick[s]} \in SUBSET D
      OBVIOUS
    <3>3. \A c : c = n + 1 => c - 1 = n
      BY <2>0
    <3>4. Cardinality(s) - 1 = n
      BY <3>3
    <3> QED BY <3>1, <3>2, <3>4
  <2>4. g[s \ {pick[s]}] \in A
    BY <2>1, <2>3
  <2> QED BY <2>2, <2>4
<1>4. T = Nat
  <2>1. T \in SUBSET Nat
    OBVIOUS
  <2> HIDE DEF T
  <2> QED BY <2>1, <1>2, <1>3, NaturalsBySuccessor
<1>5. D \in SUBSET D /\ Cardinality(D) \in Nat
  BY <1>1
<1> QED BY <1>4, <1>5
===============================================================================
