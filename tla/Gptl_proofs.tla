----------------------------- MODULE Gptl_proofs -----------------------------
(***************************************************************************)
(* What the calls of the timing library (Gptl) do, proved for every timer, *)
(* thread and library that is accounted for: its parents account for its   *)
(* calls, its tree has no loop, its handles are places of timers and its   *)
(* stack index covers the timers that run (LibOK).                         *)
(*                                                                         *)
(* The calls are taken apart in the order of the code: the tree of timers  *)
(* (newchild, construct_tree), the parent lists (update_parent_info), one  *)
(* timer, one thread (StartFound, StopFound), the library, the calls with  *)
(* a handle, and the calls that add, reset and print.  hit says that the   *)
(* counts were reset or added from outside.                                *)
(*                                                                         *)
(* Then the timers of an MPI job (GptlSummary), for every number of        *)
(* processes, threads and names, every script of calls and every print     *)
(* method: the inductive invariant TimersKnown says that the library of    *)
(* every rank is accounted for.  The steps of collect_data touch no timer. *)
(* The last part reads the timers of a thread as stopwatches and shows     *)
(* that the library of rank 0 implements Stopwatch.                        *)
(***************************************************************************)
EXTENDS GptlSummary, FiniteSetTheorems, WellFoundedInduction, TLAPS

(***************************************************************************)
(* Sets of numbers, recursive functions and folds of sequences.            *)
(*                                                                         *)
(* The provers cannot use an induction theorem whose parameter is an       *)
(* operator.  The theorem WFMin of WellFoundedInduction takes a set and a  *)
(* relation, and gives the least element of a set of natural numbers; here *)
(* the induction is over a set S of numbers, which a proof defines by the  *)
(* property it is about.  A fold is an application of the function that    *)
(* FoldLeft chooses, which exists because one can be built for each prefix *)
(* of the sequence.                                                        *)
(***************************************************************************)

\* A set of natural numbers has a least element.
LEMMA LeastNatural ==
  ASSUME NEW T, T \subseteq Nat, T # {}
  PROVE  \E x \in T : \A y \in T : x <= y
<1> DEFINE R == OpToRel(<, Nat)
<1>1. IsWellFoundedOn(R, Nat)
  BY NatLessThanWellFounded
<1>2. \A x, y \in Nat : <<x, y>> \in R <=> x < y
  BY DEF OpToRel
<1> HIDE DEF R
<1>3. PICK x \in T : \A y \in T : ~ (<<y, x>> \in R)
  BY <1>1, WFMin
<1>4. \A y \in T : ~ (y < x)
  BY <1>2, <1>3
<1> QED
  BY <1>3, <1>4

\* A set that holds 0 and the successor of each of its members holds them all.
LEMMA InductionOnNat ==
  ASSUME NEW S, 0 \in S, \A n \in Nat : n \in S => n + 1 \in S
  PROVE  \A n \in Nat : n \in S
<1> SUFFICES ASSUME Nat \ S # {} PROVE FALSE
  OBVIOUS
<1>1. PICK x \in Nat \ S : \A y \in Nat \ S : x <= y
  BY LeastNatural
<1>2. x - 1 \in Nat /\ x - 1 \in S
  BY <1>1
<1> QED
  BY <1>1, <1>2

\* Min and Max pick what their names say.
LEMMA MinIsIn ==
  ASSUME NEW T, T \subseteq Nat, T # {}
  PROVE  Min(T) \in T /\ \A x \in T : Min(T) <= x
<1>1. \E x \in T : \A y \in T : x <= y
  BY LeastNatural
<1> QED
  BY <1>1 DEF Min

\* Max is in a set of numbers between 0 and n, and is above the others.
LEMMA MaxIsIn ==
  ASSUME NEW n \in Nat, NEW s \in SUBSET (0 .. n), s # {}
  PROVE  Max(s) \in s /\ \A x \in s : x <= Max(s)
<1> DEFINE T == {x \in Nat : \E y \in s : x = n - y}
<1>1. \A y \in s : y \in Int /\ 0 <= y /\ y <= n /\ n - y \in T
  OBVIOUS
<1>2. PICK x \in T : \A y \in T : x <= y
  BY <1>1, LeastNatural
<1>3. PICK z \in s : x = n - z
  BY <1>2
<1>4. \A y \in s : z >= y
  BY <1>1, <1>2, <1>3
<1>5. \E q \in s : \A y \in s : q >= y
  BY <1>4
<1> QED
  BY <1>1, <1>5 DEF Max

\* The largest of a set of places that holds the last one
LEMMA MaxOfUpTo ==
  ASSUME NEW n \in Nat, NEW s \in SUBSET (1 .. n), n \in s
  PROVE  Max(s) = n
<1>1. \A y \in s : y \in Int /\ n >= y
  OBVIOUS
<1>2. \A x \in s : (\A y \in s : x >= y) => x = n
  BY <1>1
<1> QED
  BY <1>1, <1>2 DEF Max

\* f[s] is the fold of the places s of a sequence of length n: base for none,
\* else G applied to the last place and the fold of the others
Folds(f, n, base, G) ==
  f = [s \in SUBSET (1 .. n) |-> IF s = {} THEN base ELSE G[<<Max(s), f[s \ {Max(s)}]>>]]

\* The fold of one place more
LEMMA FoldStep ==
  ASSUME NEW V, NEW base \in V, NEW N \in Nat, NEW G \in [(1 .. N) \X V -> V],
         NEW m \in Nat, m + 1 <= N, NEW f \in [SUBSET (1 .. m) -> V], Folds(f, m, base, G)
  PROVE  \E fn \in [SUBSET (1 .. m + 1) -> V] : Folds(fn, m + 1, base, G)
<1> DEFINE fn == [s \in SUBSET (1 .. m + 1) |->
                   IF m + 1 \in s THEN G[<<m + 1, f[s \ {m + 1}]>>] ELSE f[s]]
<1>1. \A s \in SUBSET (1 .. m + 1) :
         /\ s \ {m + 1} \in SUBSET (1 .. m)
         /\ s \ {m + 1} \in SUBSET (1 .. m + 1)
         /\ m + 1 \notin s => s \in SUBSET (1 .. m)
         /\ m + 1 \in s => Max(s) = m + 1
  <2> SUFFICES ASSUME NEW s \in SUBSET (1 .. m + 1)
               PROVE  /\ s \ {m + 1} \in SUBSET (1 .. m)
                      /\ s \ {m + 1} \in SUBSET (1 .. m + 1)
                      /\ m + 1 \notin s => s \in SUBSET (1 .. m)
                      /\ m + 1 \in s => Max(s) = m + 1
    OBVIOUS
  <2>1. m + 1 \in Nat
    OBVIOUS
  <2>2. m + 1 \in s => Max(s) = m + 1
    BY <2>1, MaxOfUpTo
  <2>3. \A x \in s : x \in Int /\ 1 <= x /\ x <= m + 1
    OBVIOUS
  <2> QED
    BY <2>2, <2>3
<1>2. fn \in [SUBSET (1 .. m + 1) -> V]
  <2> SUFFICES ASSUME NEW s \in SUBSET (1 .. m + 1)
               PROVE (IF m + 1 \in s THEN G[<<m + 1, f[s \ {m + 1}]>>] ELSE f[s]) \in V
    OBVIOUS
  <2>1. CASE m + 1 \in s
    <3>1. f[s \ {m + 1}] \in V
      BY <1>1
    <3>2. <<m + 1, f[s \ {m + 1}]>> \in (1 .. N) \X V
      BY <3>1
    <3>3. G[<<m + 1, f[s \ {m + 1}]>>] \in V
      BY <3>2
    <3> QED
      BY <2>1, <3>3
  <2>2. CASE m + 1 \notin s
    BY <1>1, <2>2
  <2> QED
    BY <2>1, <2>2
<1>4. ASSUME NEW s \in SUBSET (1 .. m + 1)
      PROVE  fn[s] = IF s = {} THEN base ELSE G[<<Max(s), fn[s \ {Max(s)}]>>]
  <2>1. CASE m + 1 \in s
    <3>0. m + 1 \in Nat
      OBVIOUS
    <3>1. Max(s) = m + 1
      BY <2>1, <3>0, MaxOfUpTo
    <3>1a. s \ {m + 1} \in SUBSET (1 .. m + 1)
      OBVIOUS
    <3>2. fn[s \ {m + 1}] = f[s \ {m + 1}]
      BY <3>1a
    <3>3. fn[s] = G[<<m + 1, f[s \ {m + 1}]>>]
      BY <2>1
    <3> HIDE DEF fn
    <3> QED
      BY <2>1, <3>1, <3>2, <3>3
  <2>2. CASE m + 1 \notin s
    <3>1. s \in SUBSET (1 .. m)
      BY <1>1, <2>2
    <3>2. fn[s] = f[s]
      BY <2>2
    <3>3. f[s] = IF s = {} THEN base ELSE G[<<Max(s), f[s \ {Max(s)}]>>]
      BY <3>1 DEF Folds
    <3>4. ASSUME s # {} PROVE fn[s \ {Max(s)}] = f[s \ {Max(s)}]
      <4>1. s \ {Max(s)} \in SUBSET (1 .. m + 1) /\ m + 1 \notin s \ {Max(s)}
        BY <2>2
      <4> QED
        BY <4>1
    <3> HIDE DEF fn
    <3> QED
      BY <3>2, <3>3, <3>4
  <2> QED
    BY <2>1, <2>2
<1>5. Folds(fn, m + 1, base, G)
  <2>1. fn = [s \in SUBSET (1 .. m + 1) |-> fn[s]]
    OBVIOUS
  <2> HIDE DEF fn
  <2> QED
    BY <1>4, <2>1 DEF Folds
<1> QED
  BY <1>2, <1>5

\* A fold exists for every length, and its values are of the type of its steps.
LEMMA FoldExists ==
  ASSUME NEW V, NEW base \in V, NEW N \in Nat, NEW G \in [(1 .. N) \X V -> V]
  PROVE  \E f \in [SUBSET (1 .. N) -> V] : Folds(f, N, base, G)
<1> DEFINE Some(m) == \E f \in [SUBSET (1 .. m) -> V] : Folds(f, m, base, G)
           S == {m \in Nat : m <= N => Some(m)}
<1>1. Some(0)
  <2> DEFINE f == [s \in SUBSET (1 .. 0) |-> base]
  <2>1. \A s \in SUBSET (1 .. 0) : s = {}
    OBVIOUS
  <2>2. f = [s \in SUBSET (1 .. 0) |-> IF s = {} THEN base ELSE G[<<Max(s), f[s \ {Max(s)}]>>]]
    BY <2>1
  <2> HIDE DEF f
  <2>3. Folds(f, 0, base, G)
    BY <2>2 DEF Folds
  <2>4. f \in [SUBSET (1 .. 0) -> V]
    BY DEF f
  <2> QED
    BY <2>3, <2>4
<1>2. ASSUME NEW m \in Nat, m + 1 <= N, Some(m) PROVE Some(m + 1)
  BY <1>2, FoldStep
<1> HIDE DEF Some
<1>3. \A m \in Nat : m \in S => m + 1 \in S
  BY <1>2
<1>4. 0 \in S
  BY <1>1
<1> HIDE DEF S
<1>5. \A m \in Nat : m \in S
  BY <1>3, <1>4, InductionOnNat
<1>6. Some(N)
  BY <1>5 DEF S
<1> QED
  BY <1>6 DEF Some

Iterates(f, base, G, m) == f = [n \in 0 .. m |-> IF n = 0 THEN base ELSE G[f[n - 1]]]

\* A function on 0 .. L may be defined by its first value and a step.
LEMMA IterExists ==
  ASSUME NEW V, NEW base \in V, NEW G \in [V -> V], NEW L \in Nat
  PROVE  \E f \in [0 .. L -> V] : Iterates(f, base, G, L)
<1> DEFINE Is(f, m) == Iterates(f, base, G, m)
           Some(m) == \E f \in [0 .. m -> V] : Is(f, m)
           S == {m \in Nat : Some(m)}
<1>1. 0 \in S
  <2> DEFINE f == [n \in 0 .. 0 |-> base]
  <2>1. f \in [0 .. 0 -> V] /\ \A n \in 0 .. 0 : n = 0
    OBVIOUS
  <2>2. Is(f, 0)
    BY <2>1 DEF Iterates
  <2> QED
    BY <2>1, <2>2
<1>2. ASSUME NEW m \in Nat, m \in S PROVE m + 1 \in S
  <2>1. PICK f \in [0 .. m -> V] : Is(f, m)
    BY <1>2
  <2> DEFINE h == [n \in 0 .. m + 1 |-> IF n <= m THEN f[n] ELSE G[f[m]]]
  <2>2. m \in 0 .. m /\ m + 1 \in Nat
    OBVIOUS
  <2>3. \A n \in 0 .. m + 1 : (n <= m => n \in 0 .. m) /\ (~(n <= m) => n = m + 1)
    OBVIOUS
  <2>4. h \in [0 .. m + 1 -> V]
    BY <2>2, <2>3
  <2>5. ASSUME NEW n \in 0 .. m + 1 PROVE h[n] = IF n = 0 THEN base ELSE G[h[n - 1]]
    <3>1. CASE n <= m
      <4>1. n \in 0 .. m /\ h[n] = f[n] /\ (n # 0 => n - 1 \in 0 .. m + 1 /\ n - 1 <= m)
        BY <3>1
      <4>2. n # 0 => h[n - 1] = f[n - 1]
        BY <4>1
      <4>3. f[n] = IF n = 0 THEN base ELSE G[f[n - 1]]
        BY <2>1, <4>1 DEF Iterates
      <4> HIDE DEF h
      <4> QED
        BY <4>1, <4>2, <4>3
    <3>2. CASE n = m + 1
      <4>1. n # 0 /\ n - 1 = m /\ m \in 0 .. m + 1 /\ ~(n <= m)
        BY <3>2
      <4>2. h[n] = G[f[m]] /\ h[m] = f[m]
        BY <4>1
      <4> HIDE DEF h
      <4> QED
        BY <4>1, <4>2
    <3> QED
      BY <2>3, <3>1, <3>2
  <2>6. h = [n \in 0 .. m + 1 |-> h[n]]
    OBVIOUS
  <2> HIDE DEF h
  <2>7. Is(h, m + 1)
    BY <2>5, <2>6 DEF Iterates
  <2> QED
    BY <2>2, <2>4, <2>7
<1> HIDE DEF S
<1>3. \A m \in Nat : m \in S
  BY <1>1, <1>2, InductionOnNat
<1> QED
  BY <1>3 DEF S

\* Finitely many natural numbers have a bound.
LEMMA BoundedValues ==
  ASSUME NEW n \in Nat, NEW f \in [1 .. n -> Nat]
  PROVE  \E b \in Nat : \A k \in 1 .. n : f[k] <= b
<1> DEFINE S == {m \in Nat : m <= n => \E b \in Nat : \A k \in 1 .. m : f[k] <= b}
<1>1. 0 \in S
  OBVIOUS
<1>2. ASSUME NEW m \in Nat, m \in S PROVE m + 1 \in S
  <2> SUFFICES ASSUME m + 1 <= n PROVE \E b \in Nat : \A k \in 1 .. m + 1 : f[k] <= b
    OBVIOUS
  <2>1. PICK b \in Nat : \A k \in 1 .. m : f[k] <= b
    BY <1>2
  <2>2. f[m + 1] \in Nat /\ \A k \in 1 .. m : f[k] \in Nat
    OBVIOUS
  <2>3. \A k \in 1 .. m + 1 : k \in 1 .. m \/ k = m + 1
    OBVIOUS
  <2>4. \A k \in 1 .. m + 1 : f[k] <= b + f[m + 1]
    BY <2>1, <2>2, <2>3
  <2>5. b + f[m + 1] \in Nat
    BY <2>2
  <2> QED
    BY <2>4, <2>5, Zenon
<1> HIDE DEF S
<1>3. n \in S
  BY <1>1, <1>2, InductionOnNat
<1> QED
  BY <1>3 DEF S

\* The elements of a sequence are of its type.
LEMMA ElementsOfSeq ==
  ASSUME NEW S, NEW seq \in Seq(S), NEW k \in 1 .. Len(seq)
  PROVE  seq[k] \in S
OBVIOUS

(***************************************************************************)
(* The tree of timers.                                                     *)
(***************************************************************************)
Kids(timers) == [j \in 1 .. Len(timers) |-> ToSet(timers[j].children)]

\* S holds the children of all its members
ClosedUnder(kids, S) == \A j \in S : kids[j] \subseteq S

\* R[n] is what can be reached from i in n + 1 steps
Reaching(R, kids, L, i) ==
  /\ R \in [0 .. L -> SUBSET (1 .. L)]
  /\ R[0] = kids[i]
  /\ \A n \in 1 .. L : R[n] = R[n - 1] \cup UNION {kids[j] : j \in R[n - 1]}

\* As many steps as there are timers reach everything: each step but the last
\* finds something new.
LEMMA ReachesAll ==
  ASSUME NEW L \in Nat, NEW kids \in [1 .. L -> SUBSET (1 .. L)], NEW i \in 1 .. L,
         NEW R, Reaching(R, kids, L, i)
  PROVE  ClosedUnder(kids, R[L])
<1> DEFINE S == {n \in Nat : n <= L => ClosedUnder(kids, R[n]) \/ Cardinality(R[n]) >= n}
<1>1. R \in [0 .. L -> SUBSET (1 .. L)]
      /\ \A n \in 1 .. L : R[n] = R[n - 1] \cup UNION {kids[j] : j \in R[n - 1]}
  BY DEF Reaching
<1>2. IsFiniteSet(1 .. L) /\ Cardinality(1 .. L) = L
  BY FS_Interval
<1>3. ASSUME NEW n \in 0 .. L
      PROVE  IsFiniteSet(R[n]) /\ Cardinality(R[n]) \in Nat /\ Cardinality(R[n]) <= L
             /\ (Cardinality(R[n]) = L => R[n] = 1 .. L)
  <2>1. R[n] \in SUBSET (1 .. L)
    BY <1>1
  <2>2. IsFiniteSet(R[n]) /\ Cardinality(R[n]) <= L /\ (Cardinality(R[n]) = L => R[n] = 1 .. L)
    BY <1>2, <2>1, FS_Subset
  <2> QED
    BY <2>2, FS_CardinalityType
<1>4. 0 \in S
  BY <1>3
<1>5. ASSUME NEW n \in Nat, n \in S PROVE n + 1 \in S
  <2> SUFFICES ASSUME n + 1 <= L
               PROVE  ClosedUnder(kids, R[n + 1]) \/ Cardinality(R[n + 1]) >= n + 1
    OBVIOUS
  <2>1. n \in 0 .. L /\ n + 1 \in 0 .. L /\ n + 1 \in 1 .. L /\ (n + 1) - 1 = n
    OBVIOUS
  <2>2. R[n + 1] = R[n] \cup UNION {kids[j] : j \in R[n]}
    BY <1>1, <2>1
  <2>3. CASE ClosedUnder(kids, R[n])
    <3>1. R[n + 1] = R[n]
      BY <2>2, <2>3 DEF ClosedUnder
    <3> QED
      BY <2>3, <3>1
  <2>4. CASE ~ ClosedUnder(kids, R[n])
    <3>1. PICK j \in R[n] : \E x \in kids[j] : x \notin R[n]
      BY <2>4 DEF ClosedUnder
    <3>2. PICK x \in kids[j] : x \notin R[n]
      BY <3>1
    <3>3. R[n] \cup {x} \in SUBSET R[n + 1]
      BY <2>2, <3>2
    <3>4. IsFiniteSet(R[n]) /\ IsFiniteSet(R[n + 1])
      BY <1>3, <2>1
    <3>5. Cardinality(R[n] \cup {x}) = Cardinality(R[n]) + 1
      BY <3>2, <3>4, FS_AddElement
    <3>6. Cardinality(R[n] \cup {x}) <= Cardinality(R[n + 1])
      BY <3>3, <3>4, FS_Subset
    <3>7. Cardinality(R[n]) >= n
      BY <1>5, <2>4
    <3>8. Cardinality(R[n]) \in Nat /\ Cardinality(R[n + 1]) \in Nat
      BY <1>3, <2>1
    <3> QED
      BY <3>5, <3>6, <3>7, <3>8
  <2> QED
    BY <2>3, <2>4
<1> HIDE DEF S
<1>6. L \in S
  BY <1>4, <1>5, InductionOnNat
<1>7. ClosedUnder(kids, R[L]) \/ Cardinality(R[L]) >= L
  BY <1>6 DEF S
<1>8. CASE Cardinality(R[L]) >= L
  <2>1. L \in 0 .. L
    OBVIOUS
  <2>2. R[L] = 1 .. L
    BY <1>3, <1>8, <2>1
  <2> QED
    BY <2>2 DEF ClosedUnder
<1> QED
  BY <1>7, <1>8

\* Nothing else is reached: any closed set with the children of i has it all.
LEMMA ReachesNoMore ==
  ASSUME NEW L \in Nat, NEW kids, NEW i \in 1 .. L,
         NEW R, Reaching(R, kids, L, i), NEW C, kids[i] \subseteq C, ClosedUnder(kids, C)
  PROVE  R[L] \subseteq C
<1> DEFINE S == {n \in Nat : n <= L => R[n] \subseteq C}
<1>1. 0 \in S
  BY DEF Reaching
<1>2. ASSUME NEW n \in Nat, n \in S PROVE n + 1 \in S
  <2> SUFFICES ASSUME n + 1 <= L PROVE R[n + 1] \subseteq C
    OBVIOUS
  <2>1. n + 1 \in 1 .. L /\ (n + 1) - 1 = n /\ R[n] \subseteq C
    BY <1>2
  <2>2. R[n + 1] = R[n] \cup UNION {kids[j] : j \in R[n]}
    BY <2>1 DEF Reaching
  <2> QED
    BY <2>1, <2>2 DEF ClosedUnder
<1> HIDE DEF S
<1>3. L \in S
  BY <1>1, <1>2, InductionOnNat
<1> QED
  BY <1>3 DEF S

Rooted(timers) ==
  Len(timers) \in Nat /\ Kids(timers) \in [1 .. Len(timers) -> SUBSET (1 .. Len(timers))]

\* Below computes that set.
LEMMA BelowReaches ==
  ASSUME NEW timers, Rooted(timers), NEW i \in 1 .. Len(timers)
  PROVE  \E R : Reaching(R, Kids(timers), Len(timers), i) /\ Below(timers, i) = R[Len(timers)]
<1> DEFINE L == Len(timers)
           kids == Kids(timers)
           V == SUBSET (1 .. L)
           G == [T \in V |-> T \cup UNION {kids[j] : j \in T}]
           Is(f) == f = [n \in 0 .. L |->
                           IF n = 0 THEN ToSet(timers[i].children)
                           ELSE f[n - 1] \cup UNION {ToSet(timers[j].children) : j \in f[n - 1]}]
           reach == CHOOSE f : Is(f)
<1>1. Below(timers, i) = reach[L]
  BY DEF Below
<1>2. L \in Nat /\ kids \in [1 .. L -> V] /\ kids[i] = ToSet(timers[i].children) /\ kids[i] \in V
  BY DEF Rooted, Kids
<1>2a. \A j \in 1 .. L : kids[j] = ToSet(timers[j].children)
  BY DEF Kids
<1> HIDE DEF kids, L
<1>3. G \in [V -> V]
  <2> SUFFICES ASSUME NEW T \in V PROVE T \cup UNION {kids[j] : j \in T} \in V
    OBVIOUS
  <2> QED
    BY <1>2
<1>4. \A T \in V : G[T] = T \cup UNION {ToSet(timers[j].children) : j \in T}
  <2> SUFFICES ASSUME NEW T \in V
               PROVE  UNION {kids[j] : j \in T} = UNION {ToSet(timers[j].children) : j \in T}
    OBVIOUS
  <2>1. \A j \in T : kids[j] = ToSet(timers[j].children)
    BY <1>2a
  <2> QED
    BY <2>1
<1>4a. \A T \in V : G[T] = T \cup UNION {kids[j] : j \in T}
  OBVIOUS
<1> HIDE DEF G, V
<1>4b. kids[i] \in V /\ L \in Nat
  BY <1>2
<1>5. PICK f \in [0 .. L -> V] : Iterates(f, kids[i], G, L)
  BY <1>3, <1>4b, IterExists
<1>5a. \A n \in 0 .. L : f[n] = IF n = 0 THEN kids[i] ELSE G[f[n - 1]]
  BY <1>5 DEF Iterates
<1>6. Is(f)
  <2>1. ASSUME NEW n \in 0 .. L, n # 0
        PROVE  G[f[n - 1]] = f[n - 1] \cup UNION {ToSet(timers[j].children) : j \in f[n - 1]}
    <3>1. n - 1 \in 0 .. L
      BY <1>2, <2>1
    <3>2. f[n - 1] \in V
      BY <3>1
    <3> QED
      BY <1>4, <3>2
  <2>2. \A n \in 0 .. L : f[n] = IF n = 0 THEN ToSet(timers[i].children)
                     ELSE f[n - 1] \cup UNION {ToSet(timers[j].children) : j \in f[n - 1]}
    BY <1>2, <1>5a, <2>1
  <2>3. f = [n \in 0 .. L |-> f[n]]
    OBVIOUS
  <2> QED
    BY <2>2, <2>3
<1>7. Is(reach)
  <2> HIDE DEF Is
  <2> QED
    BY <1>6
<1> HIDE DEF reach
<1>8. ASSUME NEW h, Is(h)
      PROVE  /\ h[0] = kids[i]
             /\ \A n \in 1 .. L :
                  h[n] = h[n - 1] \cup UNION {ToSet(timers[j].children) : j \in h[n - 1]}
  <2>1. 0 \in 0 .. L /\ \A n \in 1 .. L : n \in 0 .. L /\ n # 0
    BY <1>2
  <2> QED
    BY <1>2, <1>8, <2>1
<1>9. \A n \in 0 .. L : reach[n] = f[n]
  <2> DEFINE S == {n \in Nat : n <= L => reach[n] = f[n]}
  <2>0. Is(f) /\ Is(reach)
    BY <1>6, <1>7
  <2> HIDE DEF Is
  <2>1. 0 \in S
    BY <1>8, <2>0
  <2>2. ASSUME NEW n \in Nat, n \in S PROVE n + 1 \in S
    <3> SUFFICES ASSUME n + 1 <= L PROVE reach[n + 1] = f[n + 1]
      OBVIOUS
    <3>1. n + 1 \in 1 .. L /\ (n + 1) - 1 = n /\ reach[n] = f[n]
      BY <1>2, <2>2
    <3>2. /\ reach[n + 1] = reach[(n + 1) - 1] \cup
                              UNION {ToSet(timers[j].children) : j \in reach[(n + 1) - 1]}
          /\ f[n + 1] = f[(n + 1) - 1] \cup
                          UNION {ToSet(timers[j].children) : j \in f[(n + 1) - 1]}
      BY <1>8, <2>0, <3>1, Zenon
    <3>3. reach[(n + 1) - 1] = f[(n + 1) - 1]
      BY <3>1
    <3> QED
      BY <3>2, <3>3, Zenon
  <2> HIDE DEF S
  <2>3. \A n \in Nat : n \in S
    BY <2>1, <2>2, InductionOnNat
  <2> QED
    BY <1>2, <2>3 DEF S
<1>10. Reaching(f, kids, L, i)
  <2>1. \A n \in 1 .. L : f[n] = f[n - 1] \cup UNION {kids[j] : j \in f[n - 1]}
    <3> SUFFICES ASSUME NEW n \in 1 .. L
                 PROVE f[n] = f[n - 1] \cup UNION {kids[j] : j \in f[n - 1]}
      OBVIOUS
    <3>1. n \in 0 .. L /\ n # 0 /\ n - 1 \in 0 .. L
      BY <1>2
    <3>2. f[n] = G[f[n - 1]] /\ f[n - 1] \in V
      BY <1>5a, <3>1
    <3> QED
      BY <1>4a, <3>2
  <2>2. f[0] = kids[i]
    BY <1>6, <1>8
  <2> QED
    BY <1>2, <2>1, <2>2 DEF Reaching, V
<1>11. reach[L] = f[L]
  BY <1>2, <1>9
<1> QED
  BY <1>1, <1>10, <1>11 DEF kids, L

\* Below is the least set that holds the children of i and of its members.
LEMMA BelowIsLeast ==
  ASSUME NEW timers, Rooted(timers), NEW i \in 1 .. Len(timers)
  PROVE  /\ Below(timers, i) \subseteq 1 .. Len(timers)
         /\ Kids(timers)[i] \subseteq Below(timers, i)
         /\ ClosedUnder(Kids(timers), Below(timers, i))
         /\ \A C : Kids(timers)[i] \subseteq C /\ ClosedUnder(Kids(timers), C)
                     => Below(timers, i) \subseteq C
<1>1. PICK R : Reaching(R, Kids(timers), Len(timers), i) /\ Below(timers, i) = R[Len(timers)]
  BY BelowReaches
<1>2. Len(timers) \in Nat /\ Kids(timers) \in [1 .. Len(timers) -> SUBSET (1 .. Len(timers))]
  BY DEF Rooted
<1> DEFINE L == Len(timers)
           kids == Kids(timers)
<1>3. L \in Nat /\ kids \in [1 .. L -> SUBSET (1 .. L)] /\ i \in 1 .. L
      /\ Reaching(R, kids, L, i) /\ Below(timers, i) = R[L]
  BY <1>1, <1>2
<1> HIDE DEF L, kids
<1>4. ClosedUnder(kids, R[L])
  BY <1>3, ReachesAll
<1>5. \A C : kids[i] \subseteq C /\ ClosedUnder(kids, C) => R[L] \subseteq C
  BY <1>3, ReachesNoMore
<1>6. R[L] \subseteq 1 .. L
  BY <1>3 DEF Reaching
<1>7. kids[i] \subseteq R[L]
  <2> DEFINE S == {n \in Nat : n <= L => kids[i] \subseteq R[n]}
  <2>1. 0 \in S
    BY <1>3 DEF Reaching
  <2>2. ASSUME NEW n \in Nat, n \in S PROVE n + 1 \in S
    <3> SUFFICES ASSUME n + 1 <= L PROVE kids[i] \subseteq R[n + 1]
      OBVIOUS
    <3>1. n + 1 \in 1 .. L /\ (n + 1) - 1 = n /\ kids[i] \subseteq R[n]
      BY <1>3, <2>2
    <3>2. R[n + 1] = R[n] \cup UNION {kids[j] : j \in R[n]}
      BY <1>3, <3>1 DEF Reaching
    <3> QED
      BY <3>1, <3>2
  <2> HIDE DEF S
  <2>3. L \in S
    BY <1>3, <2>1, <2>2, InductionOnNat
  <2> QED
    BY <2>3, <1>3 DEF S
<1> QED
  BY <1>3, <1>4, <1>5, <1>6, <1>7 DEF L, kids

\* What a timer holds
Timer == [name : Seq(Int), onflg : BOOLEAN, recurselvl : Nat, count : Nat, nrecurse : Nat,
          parent : Seq([of : Nat, calls : Nat]), norphan : Nat, children : Seq(Nat),
          last : Int, latest : Int, accum : Int, max : Int, min : Int, prev_min : Int,
          latest_is_min : BOOLEAN]

\* The tree as GPTLpr_file needs it: children are timers of the list, and no
\* timer is below itself
Tree(timers) == /\ Rooted(timers)
                /\ \A i \in 1 .. Len(timers) : i \notin Below(timers, i)

\* More links to the same children, or to none, make no loop.
LEMMA SameTree ==
  ASSUME NEW timers, NEW new, Tree(timers), Rooted(new), Len(timers) <= Len(new),
         \A i \in 1 .. Len(new) : IF i <= Len(timers) THEN Kids(new)[i] = Kids(timers)[i]
                                  ELSE Kids(new)[i] = {}
  PROVE  Tree(new)
<1> SUFFICES ASSUME NEW i \in 1 .. Len(new) PROVE i \notin Below(new, i)
  BY DEF Tree
<1>1. Len(timers) \in Nat /\ Len(new) \in Nat
  BY DEF Tree, Rooted
<1>2. CASE i \in 1 .. Len(timers)
  <2>1. /\ Below(timers, i) \subseteq 1 .. Len(timers)
        /\ Kids(timers)[i] \subseteq Below(timers, i)
        /\ ClosedUnder(Kids(timers), Below(timers, i))
    BY <1>2, BelowIsLeast DEF Tree
  <2>2. \A j \in 1 .. Len(timers) : Kids(new)[j] = Kids(timers)[j]
    BY <1>1
  <2>3. ClosedUnder(Kids(new), Below(timers, i)) /\ Kids(new)[i] \subseteq Below(timers, i)
    BY <1>2, <2>1, <2>2 DEF ClosedUnder
  <2>4. Below(new, i) \subseteq Below(timers, i)
    BY <2>3, BelowIsLeast
  <2> QED
    BY <1>2, <2>4 DEF Tree
<1>3. CASE i \notin 1 .. Len(timers)
  <2>1. Kids(new)[i] \subseteq {} /\ ClosedUnder(Kids(new), {})
    BY <1>1, <1>3 DEF ClosedUnder
  <2>2. Below(new, i) \subseteq {}
    BY <2>1, BelowIsLeast
  <2> QED
    BY <2>2
<1> QED
  BY <1>2, <1>3

\* A link to a timer that is not above its new parent closes no loop.
LEMMA NewLink ==
  ASSUME NEW timers, NEW new, Tree(timers), Rooted(new), Len(new) = Len(timers),
         NEW p \in 1 .. Len(timers), NEW c \in 1 .. Len(timers), p # c,
         p \notin Below(timers, c),
         \A j \in 1 .. Len(timers) :
            Kids(new)[j] = IF j = p THEN Kids(timers)[p] \cup {c} ELSE Kids(timers)[j]
  PROVE  Tree(new)
<1> SUFFICES ASSUME NEW i \in 1 .. Len(timers) PROVE i \notin Below(new, i)
  BY DEF Tree
<1> DEFINE D == Below(timers, c) \cup {c}
<1>0. Rooted(timers) /\ i \notin Below(timers, i)
  BY DEF Tree
<1>1. /\ Below(timers, i) \subseteq 1 .. Len(timers) /\ Kids(timers)[i] \subseteq Below(timers, i)
      /\ ClosedUnder(Kids(timers), Below(timers, i))
      /\ \A C : Kids(timers)[i] \subseteq C /\ ClosedUnder(Kids(timers), C)
                     => Below(timers, i) \subseteq C
  BY <1>0, BelowIsLeast
<1>2. /\ Below(timers, c) \subseteq 1 .. Len(timers) /\ Kids(timers)[c] \subseteq Below(timers, c)
      /\ ClosedUnder(Kids(timers), Below(timers, c))
  BY <1>0, BelowIsLeast
<1>3. \A C : Kids(new)[i] \subseteq C /\ ClosedUnder(Kids(new), C) => Below(new, i) \subseteq C
  BY BelowIsLeast
<1>4. ClosedUnder(Kids(timers), D) /\ p \notin D /\ D \subseteq 1 .. Len(timers)
  BY <1>2 DEF ClosedUnder
<1>5. CASE i \in D
  <2>1. Below(timers, i) \subseteq D
    <3>1. Kids(timers)[i] \subseteq D
      BY <1>4, <1>5 DEF ClosedUnder
    <3> HIDE DEF D
    <3> QED
      BY <1>1, <1>4, <3>1
  <2> HIDE DEF D
  <2>2. \A j \in Below(timers, i) : Kids(new)[j] = Kids(timers)[j]
    BY <1>1, <1>4, <2>1
  <2>3. ClosedUnder(Kids(new), Below(timers, i))
    BY <1>1, <2>2 DEF ClosedUnder
  <2>4. Kids(new)[i] \subseteq Below(timers, i)
    BY <1>1, <1>4, <1>5
  <2>5. Below(new, i) \subseteq Below(timers, i)
    BY <1>3, <2>3, <2>4
  <2> QED
    BY <1>0, <2>5
<1>6. CASE i \notin D
  <2> DEFINE C == Below(timers, i) \cup D
  <2>1. c \in D
    OBVIOUS
  <2> HIDE DEF D
  <2>2. ClosedUnder(Kids(new), C)
    <3> SUFFICES ASSUME NEW j \in C PROVE Kids(new)[j] \subseteq C
      BY DEF ClosedUnder
    <3>1. j \in 1 .. Len(timers)
      BY <1>1, <1>4
    <3>2. Kids(timers)[j] \subseteq C
      BY <1>1, <1>4 DEF ClosedUnder
    <3> HIDE DEF C
    <3>3. c \in C
      BY <2>1 DEF C
    <3> QED
      BY <3>1, <3>2, <3>3
  <2>3. Kids(new)[i] \subseteq C
    BY <1>1, <2>1
  <2>4. Below(new, i) \subseteq C
    BY <1>3, <2>2, <2>3
  <2> QED
    BY <1>0, <1>6, <2>4
<1> QED
  BY <1>5, <1>6

\* What construct_tree may make of a thread's timers: other children, no loop
Redrawn(timers) ==
  {new \in Seq(Timer) : /\ Len(new) = Len(timers) /\ Tree(new)
                        /\ \A i \in 1 .. Len(timers) :
                             new[i] = [timers[i] EXCEPT !.children = new[i].children]}

\* Rooted says of the timers' children that they are timers of the list.
LEMMA RootedTimers ==
  ASSUME NEW timers \in Seq(Timer)
  PROVE  /\ Rooted(timers) <=>
              \A i \in 1 .. Len(timers) : ToSet(timers[i].children) \subseteq 1 .. Len(timers)
         /\ \A i \in 1 .. Len(timers) : Kids(timers)[i] = ToSet(timers[i].children)
         /\ Len(timers) \in Nat
BY DEF Rooted, Kids

\* What Append adds to the set of a sequence.
LEMMA AppendedSet ==
  ASSUME NEW s \in Seq(Nat), NEW x \in Nat
  PROVE  Append(s, x) \in Seq(Nat) /\ ToSet(Append(s, x)) = ToSet(s) \cup {x}
<1>1. Append(s, x) \in Seq(Nat) /\ DOMAIN Append(s, x) = 1 .. Len(s) + 1
      /\ DOMAIN s = 1 .. Len(s) /\ Len(s) \in Nat
  OBVIOUS
<1>2. \A k \in 1 .. Len(s) : Append(s, x)[k] = s[k]
  OBVIOUS
<1>3. Append(s, x)[Len(s) + 1] = x
  OBVIOUS
<1>4. \A k \in 1 .. Len(s) + 1 : k \in 1 .. Len(s) \/ k = Len(s) + 1
  BY <1>1
<1>5. \A k \in 1 .. Len(s) : k \in 1 .. Len(s) + 1
  BY <1>1
<1>6. Len(s) + 1 \in 1 .. Len(s) + 1
  BY <1>1
<1> DEFINE u == Append(s, x)
<1> HIDE DEF u
<1>7. {u[k] : k \in 1 .. Len(s) + 1} = {s[k] : k \in 1 .. Len(s)} \cup {x}
  <2>1. /\ \A k \in 1 .. Len(s) : u[k] = s[k]
        /\ u[Len(s) + 1] = x
    BY <1>2, <1>3 DEF u
  <2> QED
    BY <2>1, <1>4, <1>5, <1>6, Zenon
<1> QED
  BY <1>1, <1>7 DEF ToSet, u

\* newchild of gptl.c links a child only where that closes no loop.
LEMMA NewChildRedraws ==
  ASSUME NEW timers \in Seq(Timer), NEW us \in Redrawn(timers),
         NEW p \in 1 .. Len(timers), NEW c \in 1 .. Len(timers)
  PROVE  newchild(us, p, c) \in Redrawn(timers)
<1> DEFINE new == [us EXCEPT ![p].children = Append(us[p].children, c)]
<1>1. /\ us \in Seq(Timer) /\ Len(us) = Len(timers) /\ Tree(us) /\ Len(timers) \in Nat
      /\ \A i \in 1 .. Len(timers) : us[i] = [timers[i] EXCEPT !.children = us[i].children]
  BY DEF Redrawn
<1>2. CASE \/ p = c \/ c \in ToSet(us[p].children) \/ is_descendant(us, c, p)
  BY <1>2 DEF newchild
<1>3. CASE ~(\/ p = c \/ c \in ToSet(us[p].children) \/ is_descendant(us, c, p))
  <2>1. newchild(us, p, c) = new
    BY <1>3 DEF newchild
  <2>2. \A i \in 1 .. Len(timers) : us[i] \in Timer
    BY <1>1, ElementsOfSeq
  <2>2a. us[p] \in Timer
    BY <2>2
  <2>2b. us[p].children \in Seq(Nat)
    BY <2>2a DEF Timer
  <2>3. us[p].children \in Seq(Nat) /\ c \in Nat
    BY <1>1, <2>2b
  <2>4. Append(us[p].children, c) \in Seq(Nat)
        /\ ToSet(Append(us[p].children, c)) = ToSet(us[p].children) \cup {c}
    BY <2>3, AppendedSet
  <2>5. [us[p] EXCEPT !.children = Append(us[p].children, c)] \in Timer
        /\ [us[p] EXCEPT !.children = Append(us[p].children, c)].children = Append(us[p].children, c)
    BY <2>2, <2>4 DEF Timer
  <2>6. /\ new \in Seq(Timer) /\ Len(new) = Len(timers)
        /\ \A j \in 1 .. Len(timers) :
              new[j] = IF j = p THEN [us[p] EXCEPT !.children = Append(us[p].children, c)] ELSE us[j]
    BY <1>1, <2>5
  <2> HIDE DEF new
  <2>7. \A j \in 1 .. Len(timers) :
          Kids(new)[j] = IF j = p THEN Kids(us)[p] \cup {c} ELSE Kids(us)[j]
    <3>1. /\ \A j \in 1 .. Len(timers) : Kids(us)[j] = ToSet(us[j].children)
          /\ \A j \in 1 .. Len(timers) : Kids(new)[j] = ToSet(new[j].children)
      BY <1>1, <2>6, RootedTimers
    <3>2. \A j \in 1 .. Len(timers) :
            new[j].children = IF j = p THEN Append(us[p].children, c) ELSE us[j].children
      BY <2>5, <2>6
    <3> QED
      BY <2>4, <3>1, <3>2
  <2>8. Rooted(us) /\ p \notin Below(us, c) /\ p # c
    BY <1>1, <1>3 DEF Tree, is_descendant
  <2>9. Rooted(new)
    <3>1. \A j \in 1 .. Len(timers) : Kids(us)[j] \subseteq 1 .. Len(timers)
      BY <1>1, <2>8 DEF Rooted
    <3>2. \A j \in 1 .. Len(timers) : Kids(new)[j] \subseteq 1 .. Len(timers)
      BY <2>7, <3>1
    <3> QED
      BY <2>6, <3>2, RootedTimers
  <2>10. Tree(new)
    BY <1>1, <2>6, <2>7, <2>8, <2>9, NewLink
  <2>11. \A i \in 1 .. Len(timers) : new[i] = [timers[i] EXCEPT !.children = new[i].children]
    <3> SUFFICES ASSUME NEW i \in 1 .. Len(timers)
                 PROVE  new[i] = [timers[i] EXCEPT !.children = new[i].children]
      OBVIOUS
    <3>1. us[i] = [timers[i] EXCEPT !.children = us[i].children] /\ timers[i] \in Timer
      BY <1>1, ElementsOfSeq
    <3>2. CASE i = p
      <4>1. new[p] = [us[p] EXCEPT !.children = Append(us[p].children, c)]
            /\ new[p].children = Append(us[p].children, c)
        BY <2>5, <2>6
      <4> QED
        BY <3>1, <3>2, <4>1 DEF Timer
    <3>3. CASE i # p
      <4>1. new[i] = us[i]
        BY <2>6, <3>3
      <4> QED
        BY <3>1, <4>1
    <3> QED
      BY <3>2, <3>3
  <2> QED
    BY <2>1, <2>6, <2>10, <2>11 DEF Redrawn
<1> QED
  BY <1>2, <1>3

(***************************************************************************)
(* The tree that construct_tree makes.                                     *)
(***************************************************************************)
Methods == {"first_parent", "last_parent", "most_frequent", "full_tree"}

\* The parents a timer is linked to are among its parents.
LEMMA ChosenAreParents ==
  ASSUME NEW tm \in Timer, NEW L \in Nat, NEW method \in Methods,
         \A k \in 1 .. Len(tm.parent) : tm.parent[k].of \in 1 .. L
  PROVE  Chosen(tm, method) \in Seq(1 .. L)
<1> DEFINE n == Len(tm.parent)
           calls == [k \in 1 .. n |-> tm.parent[k].calls]
           X == {tm.parent[k].calls : k \in 1 .. n}
           most == Max({0} \cup X)
<1>1. tm.parent \in Seq([of : Nat, calls : Nat]) /\ n \in Nat
  BY DEF Timer
<1>2. \A k \in 1 .. n : tm.parent[k] \in [of : Nat, calls : Nat]
  BY <1>1, ElementsOfSeq
<1>3. \A k \in 1 .. n : tm.parent[k].calls \in Nat /\ calls[k] = tm.parent[k].calls
  BY <1>2
<1>4. calls \in [1 .. n -> Nat]
  BY <1>3
<1>5. PICK b \in Nat : \A k \in 1 .. n : calls[k] <= b
  <2> HIDE DEF n, calls
  <2> QED
    BY <1>1, <1>4, BoundedValues
<1>6. {0} \cup X \in SUBSET (0 .. b) /\ {0} \cup X # {}
  <2>1. \A k \in 1 .. n : tm.parent[k].calls \in 0 .. b
    <3> SUFFICES ASSUME NEW k \in 1 .. n PROVE tm.parent[k].calls \in 0 .. b
      OBVIOUS
    <3>1. tm.parent[k].calls \in Nat /\ calls[k] = tm.parent[k].calls
      BY <1>3
    <3>2. calls[k] <= b
      BY <1>5
    <3> HIDE DEF calls
    <3> QED
      BY <3>1, <3>2
  <2>2. 0 \in 0 .. b
    OBVIOUS
  <2> QED
    BY <2>1, <2>2
<1>7. most \in {0} \cup X /\ \A x \in {0} \cup X : x <= most
  <2> DEFINE Y == {0} \cup X
  <2>1. Y \in SUBSET (0 .. b) /\ Y # {}
    BY <1>6
  <2> HIDE DEF Y
  <2>2. Max(Y) \in Y /\ \A x \in Y : x <= Max(Y)
    BY <2>1, MaxIsIn
  <2> QED
    BY <2>2 DEF Y
<1>8. ASSUME n # 0 PROVE \E k \in 1 .. n : tm.parent[k].calls = most
  <2>1. 1 \in 1 .. n
    BY <1>1, <1>8
  <2>2. tm.parent[1].calls \in X /\ tm.parent[1].calls \in Nat
    BY <1>3, <2>1
  <2>3. most = 0 => tm.parent[1].calls = most
    BY <1>7, <2>2
  <2>4. most \in X => \E k \in 1 .. n : tm.parent[k].calls = most
    OBVIOUS
  <2> HIDE DEF most, X
  <2> QED
    BY <1>7, <2>1, <2>3, <2>4
<1> HIDE DEF most
<1>9. ASSUME n # 0 PROVE Min({k \in 1 .. n : tm.parent[k].calls = most}) \in 1 .. n
  <2> DEFINE Y == {k \in 1 .. n : tm.parent[k].calls = most}
  <2>1. Y \subseteq 1 .. n /\ Y \subseteq Nat /\ Y # {}
    BY <1>1, <1>8, <1>9
  <2> HIDE DEF Y
  <2>2. Min(Y) \in 1 .. n
    BY <2>1, MinIsIn
  <2> QED
    BY <2>2 DEF Y
<1>10. CASE n = 0
  BY <1>10 DEF Chosen
<1>11. CASE n # 0
  <2>1. 1 \in 1 .. n /\ n \in 1 .. n
    BY <1>1, <1>11
  <2>2. CASE method = "first_parent"
    <3>1. Chosen(tm, method) = << tm.parent[1].of >>
      BY <1>11, <2>2 DEF Chosen
    <3> QED
      BY <2>1, <3>1
  <2>3. CASE method = "last_parent"
    <3>1. Chosen(tm, method) = << tm.parent[n].of >>
      BY <1>11, <2>3 DEF Chosen
    <3> QED
      BY <2>1, <3>1
  <2>4. CASE method = "most_frequent"
    <3> DEFINE m == Min({k \in 1 .. n : tm.parent[k].calls = most})
    <3>1. Chosen(tm, method) = << tm.parent[m].of >>
      BY <1>11, <2>4 DEF Chosen, most
    <3>2. m \in 1 .. n
      BY <1>9, <1>11
    <3> HIDE DEF m
    <3> QED
      BY <3>1, <3>2
  <2>5. CASE method = "full_tree"
    <3>1. Chosen(tm, method) = [k \in 1 .. n |-> tm.parent[k].of]
      BY <1>11, <2>5 DEF Chosen
    <3> QED
      BY <1>1, <3>1
  <2> QED
    BY <2>2, <2>3, <2>4, <2>5 DEF Methods
<1> QED
  BY <1>10, <1>11

\* Timer i is linked to the parents in ps.
Linked(ts, ps, i) == FoldLeft(LAMBDA us, p : newchild(us, p, i), ts, ps)

\* Linking a timer to some of its parents leaves a tree.
LEMMA LinkedRedraws ==
  ASSUME NEW timers \in Seq(Timer), NEW ts \in Redrawn(timers),
         NEW i \in 1 .. Len(timers), NEW ps \in Seq(1 .. Len(timers))
  PROVE  Linked(ts, ps, i) \in Redrawn(timers)
<1> DEFINE V == Redrawn(timers)
           N == Len(ps)
           G == [x \in (1 .. N) \X V |-> newchild(x[2], ps[x[1]], i)]
           Is(f) == f = [s \in SUBSET (DOMAIN ps) |->
                           IF s = {} THEN ts
                           ELSE LET x == Max(s) IN newchild(f[s \ {x}], ps[x], i)]
           iter == CHOOSE f : Is(f)
<1>1. N \in Nat /\ DOMAIN ps = 1 .. N
  OBVIOUS
<1>1a. \A k \in 1 .. N : ps[k] \in 1 .. Len(timers)
  BY ElementsOfSeq
<1>2. Linked(ts, ps, i) = iter[DOMAIN ps]
  BY DEF Linked, FoldLeft, MapThenFoldSet
<1>3. \A k \in 1 .. N, us \in V : newchild(us, ps[k], i) \in V
  BY <1>1a, NewChildRedraws
<1> HIDE DEF V, N
<1>4. G \in [(1 .. N) \X V -> V] /\ \A k \in 1 .. N, us \in V : G[<<k, us>>] = newchild(us, ps[k], i)
  BY <1>3
<1> HIDE DEF G
<1>5. PICK f \in [SUBSET (1 .. N) -> V] : Folds(f, N, ts, G)
  <2>1. ts \in V
    BY DEF V
  <2> QED
    BY <1>1, <1>4, <2>1, FoldExists
<1>6. Is(f)
  <2>1. ASSUME NEW s \in SUBSET (1 .. N)
        PROVE  f[s] = IF s = {} THEN ts ELSE newchild(f[s \ {Max(s)}], ps[Max(s)], i)
    <3>1. f[s] = IF s = {} THEN ts ELSE G[<<Max(s), f[s \ {Max(s)}]>>]
      BY <1>5 DEF Folds
    <3>2. ASSUME s # {}
          PROVE  G[<<Max(s), f[s \ {Max(s)}]>>] = newchild(f[s \ {Max(s)}], ps[Max(s)], i)
      <4>0. s \in SUBSET (0 .. N)
        BY <1>1
      <4>1. Max(s) \in s
        BY <1>1, <3>2, <4>0, MaxIsIn
      <4>2. Max(s) \in 1 .. N /\ f[s \ {Max(s)}] \in V
        BY <4>1
      <4> QED
        BY <1>4, <4>2
    <3> QED
      BY <3>1, <3>2
  <2>2. f = [s \in SUBSET (1 .. N) |-> f[s]]
    OBVIOUS
  <2> QED
    BY <2>1, <2>2, <1>1
<1>7. Is(iter)
  <2> HIDE DEF Is
  <2> QED
    BY <1>6
<1>8. iter = [s \in SUBSET (1 .. N) |->
                IF s = {} THEN ts ELSE newchild(iter[s \ {Max(s)}], ps[Max(s)], i)]
  <2> HIDE DEF iter
  <2> QED
    BY <1>1, <1>7
<1> HIDE DEF iter, Is
<1>9. ASSUME NEW s \in SUBSET (1 .. N)
      PROVE  iter[s] = IF s = {} THEN ts ELSE newchild(iter[s \ {Max(s)}], ps[Max(s)], i)
  BY <1>8
<1> DEFINE S == {k \in Nat : k <= N => iter[1 .. k] \in V}
<1>10. 0 \in S
  <2>1. 1 .. 0 = {} /\ 1 .. 0 \in SUBSET (1 .. N)
    OBVIOUS
  <2>2. iter[1 .. 0] = ts
    BY <1>9, <2>1
  <2> QED
    BY <2>2 DEF V
<1>11. ASSUME NEW k \in Nat, k \in S PROVE k + 1 \in S
  <2> SUFFICES ASSUME k + 1 <= N PROVE iter[1 .. k + 1] \in V
    OBVIOUS
  <2>1a. k + 1 \in Nat /\ k + 1 \in 1 .. k + 1 /\ k + 1 \in 1 .. N
    BY <1>1
  <2>1b. 1 .. k + 1 \in SUBSET (1 .. N)
    BY <1>1
  <2>1. /\ k + 1 \in Nat /\ 1 .. k + 1 \in SUBSET (1 .. k + 1) /\ k + 1 \in 1 .. k + 1
        /\ 1 .. k + 1 \in SUBSET (1 .. N) /\ 1 .. k + 1 # {} /\ k + 1 \in 1 .. N
    BY <2>1a, <2>1b
  <2>2. Max(1 .. k + 1) = k + 1
    BY <2>1, MaxOfUpTo
  <2>3. (1 .. k + 1) \ {k + 1} = 1 .. k
    OBVIOUS
  <2>4. iter[1 .. k + 1] = newchild(iter[1 .. k], ps[k + 1], i)
    BY <1>9, <2>1, <2>2, <2>3
  <2>5. iter[1 .. k] \in V
    BY <1>1, <1>11
  <2> QED
    BY <1>3, <2>1, <2>4, <2>5
<1> HIDE DEF S
<1>12. N \in S
  BY <1>1, <1>10, <1>11, InductionOnNat
<1>13. iter[1 .. N] \in V
  BY <1>12, <1>1 DEF S
<1> QED
  BY <1>1, <1>2, <1>13 DEF iter, V

\* GPTLpr_file leaves a tree whatever the parents are.
LEMMA TreeIsConstructed ==
  ASSUME NEW timers \in Seq(Timer), Tree(timers), NEW method \in Methods,
         \A i \in 1 .. Len(timers) : \A k \in 1 .. Len(timers[i].parent) :
            timers[i].parent[k].of \in 1 .. Len(timers)
  PROVE  construct_tree(timers, method) \in Redrawn(timers)
<1> DEFINE V == Redrawn(timers)
           N == Len(timers)
           places == [i \in DOMAIN timers |-> i]
           Link(us, i) == Linked(us, Chosen(timers[i], method), i)
           G == [x \in (1 .. N) \X V |-> Link(x[2], x[1])]
           Is(f) == f = [s \in SUBSET (DOMAIN places) |->
                           IF s = {} THEN timers
                           ELSE LET x == Max(s) IN Link(f[s \ {x}], places[x])]
           iter == CHOOSE f : Is(f)
<1>1. N \in Nat /\ DOMAIN places = 1 .. N /\ \A i \in 1 .. N : places[i] = i
  OBVIOUS
<1>1a. timers \in V
  <2>1. \A i \in 1 .. N : timers[i] \in Timer
    BY ElementsOfSeq
  <2>2. \A i \in 1 .. N : timers[i] = [timers[i] EXCEPT !.children = timers[i].children]
    BY <2>1 DEF Timer
  <2> QED
    BY <2>2 DEF Redrawn
<1>2. construct_tree(timers, method) = iter[DOMAIN places]
  BY DEF construct_tree, Linked, FoldLeft, MapThenFoldSet
<1>3. ASSUME NEW k \in 1 .. N, NEW us \in V PROVE Link(us, k) \in V
  <2>1. timers[k] \in Timer
    BY ElementsOfSeq
  <2>2. Chosen(timers[k], method) \in Seq(1 .. N)
    BY <1>1, <2>1, ChosenAreParents
  <2> QED
    BY <2>2, LinkedRedraws
<1> HIDE DEF V, N, Link
<1>4. G \in [(1 .. N) \X V -> V] /\ \A k \in 1 .. N, us \in V : G[<<k, us>>] = Link(us, k)
  BY <1>3
<1> HIDE DEF G, places
<1>5. PICK f \in [SUBSET (1 .. N) -> V] : Folds(f, N, timers, G)
  BY <1>1, <1>1a, <1>4, FoldExists
<1>6. Is(f)
  <2>1. ASSUME NEW s \in SUBSET (1 .. N)
        PROVE  f[s] = IF s = {} THEN timers ELSE Link(f[s \ {Max(s)}], places[Max(s)])
    <3>1. f[s] = IF s = {} THEN timers ELSE G[<<Max(s), f[s \ {Max(s)}]>>]
      BY <1>5 DEF Folds
    <3>2. ASSUME s # {}
          PROVE  G[<<Max(s), f[s \ {Max(s)}]>>] = Link(f[s \ {Max(s)}], places[Max(s)])
      <4>0. s \in SUBSET (0 .. N)
        BY <1>1
      <4>1. Max(s) \in s
        BY <1>1, <3>2, <4>0, MaxIsIn
      <4>2. Max(s) \in 1 .. N /\ f[s \ {Max(s)}] \in V /\ places[Max(s)] = Max(s)
        BY <1>1, <4>1
      <4> QED
        BY <1>4, <4>2
    <3> QED
      BY <3>1, <3>2
  <2>2. f = [s \in SUBSET (1 .. N) |-> f[s]]
    OBVIOUS
  <2> QED
    BY <2>1, <2>2, <1>1
<1>7. Is(iter)
  <2> HIDE DEF Is
  <2> QED
    BY <1>6
<1>8. iter = [s \in SUBSET (1 .. N) |->
                IF s = {} THEN timers ELSE Link(iter[s \ {Max(s)}], places[Max(s)])]
  <2> HIDE DEF iter
  <2> QED
    BY <1>1, <1>7
<1> HIDE DEF iter, Is
<1>9. ASSUME NEW s \in SUBSET (1 .. N)
      PROVE  iter[s] = IF s = {} THEN timers ELSE Link(iter[s \ {Max(s)}], places[Max(s)])
  BY <1>8
<1> DEFINE S == {k \in Nat : k <= N => iter[1 .. k] \in V}
<1>10. 0 \in S
  <2>1. 1 .. 0 = {} /\ 1 .. 0 \in SUBSET (1 .. N)
    OBVIOUS
  <2>2. iter[1 .. 0] = timers
    BY <1>9, <2>1
  <2> QED
    BY <1>1a, <2>2
<1>11. ASSUME NEW k \in Nat, k \in S PROVE k + 1 \in S
  <2> SUFFICES ASSUME k + 1 <= N PROVE iter[1 .. k + 1] \in V
    OBVIOUS
  <2>1a. k + 1 \in Nat /\ k + 1 \in 1 .. k + 1 /\ k + 1 \in 1 .. N
    BY <1>1
  <2>1b. 1 .. k + 1 \in SUBSET (1 .. N)
    BY <1>1
  <2>1. /\ k + 1 \in Nat /\ 1 .. k + 1 \in SUBSET (1 .. k + 1) /\ k + 1 \in 1 .. k + 1
        /\ 1 .. k + 1 \in SUBSET (1 .. N) /\ 1 .. k + 1 # {} /\ k + 1 \in 1 .. N
    BY <2>1a, <2>1b
  <2>2. Max(1 .. k + 1) = k + 1
    BY <2>1, MaxOfUpTo
  <2>3. (1 .. k + 1) \ {k + 1} = 1 .. k
    OBVIOUS
  <2>4. iter[1 .. k + 1] = Link(iter[1 .. k], k + 1)
    <3>1. iter[1 .. k + 1] = Link(iter[(1 .. k + 1) \ {k + 1}], places[k + 1])
      BY <1>9, <2>1, <2>2
    <3>2. places[k + 1] = k + 1
      BY <1>1, <2>1
    <3> QED
      BY <2>3, <3>1, <3>2
  <2>5. iter[1 .. k] \in V
    BY <1>1, <1>11
  <2> QED
    BY <1>3, <2>1, <2>4, <2>5
<1> HIDE DEF S
<1>12. N \in S
  BY <1>1, <1>10, <1>11, InductionOnNat
<1>13. iter[1 .. N] \in V
  BY <1>12, <1>1 DEF S
<1> QED
  BY <1>1, <1>2, <1>13 DEF iter, V

(***************************************************************************)
(* The calls a timer's parents account for.                                *)
(***************************************************************************)
Parents == Seq([of : Nat, calls : Nat])

\* The fold that sums the calls of a parent list, as a table of partial sums.
LEMMA CalledIs ==
  ASSUME NEW seq \in Seq([of : Nat, calls : Nat])
  PROVE  \E P \in [0 .. Len(seq) -> Nat] :
            /\ P[0] = 0 /\ \A k \in 1 .. Len(seq) : P[k] = P[k - 1] + seq[k].calls
            /\ Called(seq) = P[Len(seq)]
<1> DEFINE N == Len(seq)
           G == [p \in (1 .. N) \X Nat |-> p[2] + seq[p[1]].calls]
           Is(f) == f = [s \in SUBSET (DOMAIN seq) |->
                           IF s = {} THEN 0 ELSE LET x == Max(s) IN f[s \ {x}] + seq[x].calls]
           iter == CHOOSE f : Is(f)
<1>0. N \in Nat /\ DOMAIN seq = 1 .. N
  OBVIOUS
<1>0a. \A k \in 1 .. N : seq[k] \in [of : Nat, calls : Nat]
  <2> SUFFICES ASSUME NEW k \in 1 .. N PROVE seq[k] \in [of : Nat, calls : Nat]
    OBVIOUS
  <2> QED
    BY ElementsOfSeq
<1>0b. \A k \in 1 .. N : seq[k].calls \in Nat
  BY <1>0a
<1>1. N \in Nat /\ DOMAIN seq = 1 .. N /\ \A k \in 1 .. N : seq[k].calls \in Nat
  BY <1>0, <1>0b
<1>2. Called(seq) = iter[DOMAIN seq]
  BY DEF Called, FoldLeft, MapThenFoldSet
<1>3. G \in [(1 .. N) \X Nat -> Nat]
  BY <1>1
<1>3a. \A k \in 1 .. N, v \in Nat : G[<<k, v>>] = v + seq[k].calls
  OBVIOUS
<1> HIDE DEF N, G
<1>4. PICK f \in [SUBSET (1 .. N) -> Nat] : Folds(f, N, 0, G)
  <2>1. 0 \in Nat /\ N \in Nat
    BY <1>1
  <2> QED
    BY <2>1, <1>3, FoldExists
<1>5. Is(f)
  <2>1. ASSUME NEW s \in SUBSET (1 .. N)
        PROVE  f[s] = IF s = {} THEN 0 ELSE f[s \ {Max(s)}] + seq[Max(s)].calls
    <3>1. f[s] = IF s = {} THEN 0 ELSE G[<<Max(s), f[s \ {Max(s)}]>>]
      BY <1>4 DEF Folds
    <3>2. ASSUME s # {} PROVE G[<<Max(s), f[s \ {Max(s)}]>>] = f[s \ {Max(s)}] + seq[Max(s)].calls
      <4>0. s \in SUBSET (0 .. N) /\ N \in Nat
        BY <1>1
      <4>0a. Max(s) \in s
        BY <3>2, <4>0, MaxIsIn
      <4>1. Max(s) \in 1 .. N
        BY <4>0a
      <4>2. f[s \ {Max(s)}] \in Nat
        OBVIOUS
      <4> QED
        BY <4>1, <4>2, <1>3a
    <3> QED
      BY <3>1, <3>2
  <2>2. f = [s \in SUBSET (1 .. N) |-> f[s]]
    OBVIOUS
  <2> QED
    BY <2>1, <2>2, <1>1
<1>6. Is(iter)
  <2> HIDE DEF Is
  <2> QED
    BY <1>5
<1>7. iter = [s \in SUBSET (1 .. N) |-> iter[s]]
  BY <1>1, <1>6
<1>8. ASSUME NEW s \in SUBSET (1 .. N)
      PROVE  iter[s] = IF s = {} THEN 0 ELSE iter[s \ {Max(s)}] + seq[Max(s)].calls
  <2>1. iter = [q \in SUBSET (1 .. N) |->
                  IF q = {} THEN 0 ELSE iter[q \ {Max(q)}] + seq[Max(q)].calls]
    <3> HIDE DEF iter
    <3> QED
      BY <1>1, <1>6
  <2> HIDE DEF iter
  <2> QED
    BY <2>1
<1> HIDE DEF iter, Is
<1> DEFINE P == [k \in 0 .. N |-> iter[1 .. k]]
<1>9. P[0] = 0
  <2>1. 1 .. 0 = {} /\ 1 .. 0 \in SUBSET (1 .. N) /\ 0 \in 0 .. N
    BY <1>1
  <2> QED
    BY <2>1, <1>8
<1>10. ASSUME NEW k \in 1 .. N PROVE P[k] = P[k - 1] + seq[k].calls
  <2>1a. k \in Nat /\ k \in 1 .. k /\ k - 1 \in 0 .. N /\ k \in 0 .. N
    BY <1>1
  <2>1b. 1 .. k \in SUBSET (1 .. N)
    BY <1>1
  <2>1. k \in Nat /\ 1 .. k \in SUBSET (1 .. k) /\ k \in 1 .. k /\ 1 .. k \in SUBSET (1 .. N)
        /\ 1 .. k # {} /\ k - 1 \in 0 .. N /\ k \in 0 .. N
    BY <2>1a, <2>1b
  <2>2. Max(1 .. k) = k
    BY <2>1, MaxOfUpTo
  <2>3. (1 .. k) \ {k} = 1 .. k - 1
    BY <2>1
  <2>4. iter[1 .. k] = iter[1 .. k - 1] + seq[k].calls
    BY <1>8, <2>1, <2>2, <2>3
  <2> QED
    BY <2>1, <2>4
<1> HIDE DEF P
<1>11. \A k \in 0 .. N : P[k] \in Nat
  <2> DEFINE S == {k \in Nat : k <= N => P[k] \in Nat}
  <2>1. 0 \in S
    BY <1>9
  <2>2. ASSUME NEW k \in Nat, k \in S PROVE k + 1 \in S
    <3>1. CASE k + 1 <= N
      <4>0. N \in Nat /\ k <= N /\ P[k] \in Nat
        BY <1>1, <2>2, <3>1
      <4>1. k + 1 \in 1 .. N /\ (k + 1) - 1 = k
        BY <4>0, <3>1
      <4>2. P[k + 1] = P[k] + seq[k + 1].calls
        BY <1>10, <4>1
      <4>3. seq[k + 1].calls \in Nat
        BY <1>1, <4>1
      <4> QED
        BY <4>0, <4>2, <4>3
    <3> QED
      BY <3>1
  <2> HIDE DEF S
  <2>3. \A k \in Nat : k \in S
    BY <2>1, <2>2, InductionOnNat
  <2> QED
    BY <1>1, <2>3 DEF S
<1>12. Called(seq) = P[N]
  <2>1. N \in 0 .. N
    BY <1>1
  <2> QED
    BY <1>1, <1>2, <2>1 DEF iter, P
<1>13. P \in [0 .. N -> Nat]
  BY <1>11 DEF P
<1> QED
  BY <1>9, <1>10, <1>12, <1>13 DEF N

Sums(P, seq) == /\ P \in [0 .. Len(seq) -> Nat] /\ P[0] = 0
                /\ \A k \in 1 .. Len(seq) : P[k] = P[k - 1] + seq[k].calls

\* Any table of partial sums ends with the sum.
LEMMA CalledSums ==
  ASSUME NEW seq \in Parents, NEW P, Sums(P, seq)
  PROVE  Called(seq) = P[Len(seq)]
<1>1. PICK Q \in [0 .. Len(seq) -> Nat] :
        /\ Q[0] = 0 /\ \A k \in 1 .. Len(seq) : Q[k] = Q[k - 1] + seq[k].calls
        /\ Called(seq) = Q[Len(seq)]
  BY CalledIs DEF Parents
<1>2. Len(seq) \in Nat
  BY DEF Parents
<1> DEFINE S == {k \in Nat : k <= Len(seq) => Q[k] = P[k]}
<1>3. 0 \in S
  BY <1>1 DEF Sums
<1>4. ASSUME NEW k \in Nat, k \in S PROVE k + 1 \in S
  <2> SUFFICES ASSUME k + 1 <= Len(seq) PROVE Q[k + 1] = P[k + 1]
    OBVIOUS
  <2>1. k + 1 \in 1 .. Len(seq) /\ (k + 1) - 1 = k /\ Q[k] = P[k]
    BY <1>2, <1>4
  <2>2. Q[k + 1] = Q[k] + seq[k + 1].calls /\ P[k + 1] = P[k] + seq[k + 1].calls
    BY <1>1, <2>1 DEF Sums
  <2> QED
    BY <2>1, <2>2
<1> HIDE DEF S
<1>5. Len(seq) \in S
  BY <1>2, <1>3, <1>4, InductionOnNat
<1> QED
  BY <1>1, <1>2, <1>5 DEF S

\* The calls of a parent list are a number, none for an empty list.
LEMMA CalledType ==
  ASSUME NEW seq \in Parents
  PROVE  Called(seq) \in Nat /\ (seq = <<>> => Called(seq) = 0)
<1>1. PICK P \in [0 .. Len(seq) -> Nat] :
        /\ P[0] = 0 /\ \A k \in 1 .. Len(seq) : P[k] = P[k - 1] + seq[k].calls
        /\ Called(seq) = P[Len(seq)]
  BY CalledIs DEF Parents
<1>2. Len(seq) \in Nat /\ Len(seq) \in 0 .. Len(seq)
  BY DEF Parents
<1> QED
  BY <1>1, <1>2

\* One more parent with its first call
LEMMA CalledAppend ==
  ASSUME NEW seq \in Parents, NEW up \in Nat
  PROVE  /\ Append(seq, [of |-> up, calls |-> 1]) \in Parents
         /\ Called(Append(seq, [of |-> up, calls |-> 1])) = Called(seq) + 1
<1> DEFINE new == Append(seq, [of |-> up, calls |-> 1])
           N == Len(seq)
<1>1. PICK P \in [0 .. N -> Nat] :
        /\ P[0] = 0 /\ \A k \in 1 .. N : P[k] = P[k - 1] + seq[k].calls
        /\ Called(seq) = P[N]
  BY CalledIs DEF Parents
<1>2. N \in Nat /\ new \in Parents /\ Len(new) = N + 1
      /\ (\A k \in 1 .. N : new[k] = seq[k]) /\ new[N + 1].calls = 1
  BY DEF Parents
<1> DEFINE Q == [k \in 0 .. N + 1 |-> IF k <= N THEN P[k] ELSE P[N] + 1]
<1> HIDE DEF new, N
<1>3. Q \in [0 .. N + 1 -> Nat]
  <2>1. N \in 0 .. N /\ \A k \in 0 .. N + 1 : k <= N => k \in 0 .. N
    BY <1>2
  <2>2. P[N] \in Nat
    BY <1>1, <2>1
  <2> QED
    BY <2>1, <2>2
<1>4. Q[0] = 0 /\ Q[N + 1] = P[N] + 1
  BY <1>1, <1>2
<1>5. ASSUME NEW k \in 1 .. N + 1 PROVE Q[k] = Q[k - 1] + new[k].calls
  <2>1. CASE k <= N
    <3>1. k \in 1 .. N /\ k - 1 \in 0 .. N + 1 /\ k \in 0 .. N + 1 /\ k - 1 <= N
      BY <1>2, <2>1
    <3>2. Q[k] = P[k] /\ Q[k - 1] = P[k - 1]
      BY <2>1, <3>1
    <3> HIDE DEF Q
    <3> QED
      BY <1>1, <1>2, <3>1, <3>2
  <2>2. CASE k = N + 1
    <3>1. k - 1 = N /\ N \in 0 .. N + 1 /\ N <= N
      BY <1>2, <2>2
    <3>2. Q[k - 1] = P[N]
      BY <3>1
    <3> HIDE DEF Q
    <3> QED
      BY <1>2, <1>4, <2>2, <3>2
  <2> QED
    BY <1>2, <2>1, <2>2
<1> HIDE DEF Q
<1>6. Sums(Q, new)
  BY <1>2, <1>3, <1>4, <1>5 DEF Sums
<1>7. Called(new) = Q[N + 1]
  BY <1>2, <1>6, CalledSums
<1> QED
  BY <1>1, <1>2, <1>4, <1>7 DEF new, N

\* One more call of a parent
LEMMA CalledAgain ==
  ASSUME NEW seq \in Parents, NEW m \in 1 .. Len(seq)
  PROVE  /\ [seq EXCEPT ![m].calls = @ + 1] \in Parents
         /\ Called([seq EXCEPT ![m].calls = @ + 1]) = Called(seq) + 1
<1> DEFINE new == [seq EXCEPT ![m].calls = @ + 1]
           N == Len(seq)
<1>1. PICK P \in [0 .. N -> Nat] :
        /\ P[0] = 0 /\ \A k \in 1 .. N : P[k] = P[k - 1] + seq[k].calls
        /\ Called(seq) = P[N]
  BY CalledIs DEF Parents
<1>2. N \in Nat /\ \A k \in 1 .. N : seq[k] \in [of : Nat, calls : Nat]
  <2>1. N \in Nat
    BY DEF Parents
  <2>2. ASSUME NEW k \in 1 .. N PROVE seq[k] \in [of : Nat, calls : Nat]
    BY ElementsOfSeq DEF Parents
  <2> QED
    BY <2>1, <2>2
<1>3. new \in Parents /\ Len(new) = N
      /\ \A k \in 1 .. N : new[k].calls = IF k = m THEN seq[m].calls + 1 ELSE seq[k].calls
  <2>1. [seq[m] EXCEPT !.calls = @ + 1] \in [of : Nat, calls : Nat]
    BY <1>2
  <2>2. new = [seq EXCEPT ![m] = [seq[m] EXCEPT !.calls = @ + 1]]
    OBVIOUS
  <2>3. new \in Parents /\ Len(new) = N
    BY <2>1, <2>2 DEF Parents
  <2>4. \A k \in 1 .. N : new[k] = IF k = m THEN [seq[m] EXCEPT !.calls = @ + 1] ELSE seq[k]
    BY <2>2 DEF Parents
  <2>5. [seq[m] EXCEPT !.calls = @ + 1].calls = seq[m].calls + 1
    BY <1>2
  <2> QED
    BY <2>3, <2>4, <2>5
<1>3a. m \in 1 .. N /\ \A k \in 1 .. N : seq[k].calls \in Nat
  BY <1>2
<1> DEFINE Q == [k \in 0 .. N |-> IF k < m THEN P[k] ELSE P[k] + 1]
<1> HIDE DEF new, N
<1>4. Q \in [0 .. N -> Nat]
  OBVIOUS
<1>5. Q[0] = 0 /\ Q[N] = P[N] + 1
  BY <1>1, <1>2, <1>3a
<1>6. ASSUME NEW k \in 1 .. N PROVE Q[k] = Q[k - 1] + new[k].calls
  <2>1. k - 1 \in 0 .. N /\ k \in 0 .. N /\ k \in Nat /\ m \in Nat
    BY <1>2, <1>3a
  <2>2. /\ Q[k] = IF k < m THEN P[k] ELSE P[k] + 1
        /\ Q[k - 1] = IF k - 1 < m THEN P[k - 1] ELSE P[k - 1] + 1
        /\ P[k] \in Nat /\ P[k - 1] \in Nat
    BY <2>1
  <2>3. P[k] = P[k - 1] + seq[k].calls /\ seq[k].calls \in Nat
    BY <1>1, <1>3a
  <2>4. new[k].calls = IF k = m THEN seq[k].calls + 1 ELSE seq[k].calls
    BY <1>3
  <2> HIDE DEF Q
  <2> QED
    BY <2>1, <2>2, <2>3, <2>4
<1> HIDE DEF Q
<1>7. Sums(Q, new)
  BY <1>3, <1>4, <1>5, <1>6 DEF Sums
<1>8. Called(new) = Q[N]
  BY <1>3, <1>7, CalledSums
<1> QED
  BY <1>1, <1>3, <1>5, <1>8 DEF new, N

\* What update_parent_info makes of the parents of a timer started under "up"
Credited(parent, up) ==
  LET at == {n \in DOMAIN parent : parent[n].of = up}
  IN  IF at # {} THEN [parent EXCEPT ![Min(at)].calls = @ + 1]
      ELSE Append(parent, [of |-> up, calls |-> 1])

\* update_parent_info adds exactly one call, whether or not the parent was listed.
LEMMA CreditedOnce ==
  ASSUME NEW parent \in Parents, NEW up \in Nat, NEW L \in Nat, up \in 1 .. L,
         \A k \in 1 .. Len(parent) : parent[k].of \in 1 .. L
  PROVE  /\ Credited(parent, up) \in Parents
         /\ Called(Credited(parent, up)) = Called(parent) + 1
         /\ \A k \in 1 .. Len(Credited(parent, up)) : Credited(parent, up)[k].of \in 1 .. L
<1> DEFINE at == {n \in DOMAIN parent : parent[n].of = up}
<1>1. DOMAIN parent = 1 .. Len(parent) /\ Len(parent) \in Nat
  BY DEF Parents
<1>2. CASE at # {}
  <2> DEFINE m == Min(at)
             new == [parent EXCEPT ![m].calls = @ + 1]
  <2>1. at \subseteq Nat /\ at \subseteq 1 .. Len(parent)
    BY <1>1
  <2>2. Credited(parent, up) = new
    BY <1>2 DEF Credited
  <2>3. m \in 1 .. Len(parent)
    <3> HIDE DEF at
    <3> QED
      BY <1>2, <2>1, MinIsIn
  <2> HIDE DEF at, m
  <2>4. new \in Parents /\ Called(new) = Called(parent) + 1
    BY <2>3, CalledAgain
  <2>5. Len(new) = Len(parent) /\ \A k \in 1 .. Len(parent) : new[k].of = parent[k].of
    <3>1. \A k \in 1 .. Len(parent) : parent[k] \in [of : Nat, calls : Nat]
      <4> SUFFICES ASSUME NEW k \in 1 .. Len(parent) PROVE parent[k] \in [of : Nat, calls : Nat]
        OBVIOUS
      <4> QED
        BY ElementsOfSeq DEF Parents
    <3>2. [parent[m] EXCEPT !.calls = @ + 1].of = parent[m].of
      BY <2>3, <3>1
    <3>3. new = [parent EXCEPT ![m] = [parent[m] EXCEPT !.calls = @ + 1]]
      OBVIOUS
    <3>4. Len(new) = Len(parent)
          /\ \A k \in 1 .. Len(parent) :
               new[k] = IF k = m THEN [parent[m] EXCEPT !.calls = @ + 1] ELSE parent[k]
      BY <3>3 DEF Parents
    <3> QED
      BY <3>2, <3>4
  <2> QED
    BY <2>2, <2>4, <2>5
<1>3. CASE at = {}
  <2>1. Credited(parent, up) = Append(parent, [of |-> up, calls |-> 1])
    BY <1>3 DEF Credited
  <2>2. \A k \in 1 .. Len(parent) + 1 :
          Append(parent, [of |-> up, calls |-> 1])[k].of \in 1 .. L
    BY <1>1 DEF Parents
  <2>3. Len(Append(parent, [of |-> up, calls |-> 1])) = Len(parent) + 1
    BY DEF Parents
  <2> QED
    BY <2>1, <2>2, <2>3, CalledAppend
<1> QED
  BY <1>2, <1>3

(***************************************************************************)
(* The invariant of a thread.                                              *)
(***************************************************************************)
Thread == [timers : Seq(Timer), stackidx : Nat, callstack : [0 .. MAX_STACK - 1 -> Nat],
           prefix : Seq(Int), handle : [Names -> Nat]]

On(timers) == {i \in 2 .. Len(timers) : timers[i].onflg}

\* A timer of StackCovers; hit: its counts were reset or added from outside
TimerOK(tm, hit) ==
  /\ tm.norphan = 0 /\ Called(tm.parent) >= 1
  /\ tm.recurselvl > 0 => tm.onflg
  /\ ~hit => Called(tm.parent) = tm.count - tm.nrecurse + (IF tm.onflg THEN 1 ELSE 0)

ParentsIn(tm, L) == \A k \in 1 .. Len(tm.parent) : tm.parent[k].of \in 1 .. L

TimersOK(timers, hit) ==
  /\ timers \in Seq(Timer) /\ Len(timers) >= 1 /\ Tree(timers)
  /\ \A i \in 2 .. Len(timers) : TimerOK(timers[i], hit)
  /\ \A i \in 1 .. Len(timers) : ParentsIn(timers[i], Len(timers))

\* The stack is known as far as timers are started on it
StackKnown(th, limit) ==
  \A j \in 0 .. MAX_STACK - 1 :
     j <= th.stackidx /\ j <= limit => th.callstack[j] \in 1 .. Len(th.timers)

ThreadOK(th, limit, hit) ==
  /\ th \in Thread
  /\ TimersOK(th.timers, hit)
  /\ \A n \in Names : th.handle[n] \in {0} \cup 2 .. Len(th.timers)
  /\ Cardinality(On(th.timers)) <= th.stackidx
  /\ Cardinality(On(th.timers)) <= limit
  /\ StackKnown(th, limit)

\* Timers U are timers T with the one at i changed or added.
Changed(T, U, i) ==
  /\ U \in Seq(Timer) /\ i \in 2 .. Len(U)
  /\ Len(U) = Len(T) \/ (Len(U) = Len(T) + 1 /\ i = Len(U))
  /\ \A j \in 1 .. Len(T) : j # i => U[j] = T[j]

\* Finitely many timers run.
LEMMA OnIsFinite ==
  ASSUME NEW T \in Seq(Timer)
  PROVE  IsFiniteSet(On(T)) /\ Cardinality(On(T)) \in Nat /\ On(T) \subseteq 2 .. Len(T)
<1>1. Len(T) \in Nat /\ On(T) \in SUBSET (2 .. Len(T))
  BY DEF On
<1>2. IsFiniteSet(2 .. Len(T))
  BY <1>1, FS_Interval
<1>3. IsFiniteSet(On(T))
  BY <1>1, <1>2, FS_Subset
<1> QED
  BY <1>1, <1>3, FS_CardinalityType

\* The timer list with one timer changed or added.
LEMMA TimersChange ==
  ASSUME NEW hit, NEW T, TimersOK(T, hit), NEW U, NEW i, Changed(T, U, i),
         TimerOK(U[i], hit), ParentsIn(U[i], Len(U)),
         U[i].children = IF i <= Len(T) THEN T[i].children ELSE <<>>
  PROVE  /\ TimersOK(U, hit)
         /\ On(U) = IF U[i].onflg THEN On(T) \cup {i} ELSE On(T) \ {i}
<1>1. /\ T \in Seq(Timer) /\ Len(T) \in Nat /\ U \in Seq(Timer) /\ Len(U) \in Nat
      /\ i \in 2 .. Len(U) /\ Len(T) >= 1 /\ Len(T) <= Len(U)
  BY DEF TimersOK, Changed
<1>2. \A j \in 1 .. Len(U) : j # i => j \in 1 .. Len(T) /\ U[j] = T[j]
  BY <1>1 DEF Changed
<1>3. Tree(U)
  <2>0. /\ Tree(T) /\ Rooted(T)
        /\ \A j \in 1 .. Len(T) : ToSet(T[j].children) \subseteq 1 .. Len(T)
    BY <1>1, RootedTimers DEF TimersOK, Tree
  <2>1. \A j \in 1 .. Len(U) : U[j].children = IF j <= Len(T) THEN T[j].children ELSE <<>>
    BY <1>1, <1>2
  <2>2. ToSet(<<>>) = {}
    BY DEF ToSet
  <2>3. \A j \in 1 .. Len(U) : ToSet(U[j].children) \subseteq 1 .. Len(U)
    <3> SUFFICES ASSUME NEW j \in 1 .. Len(U) PROVE ToSet(U[j].children) \subseteq 1 .. Len(U)
      OBVIOUS
    <3>1. CASE j <= Len(T)
      <4>1. ToSet(U[j].children) \subseteq 1 .. Len(T)
        BY <1>1, <2>0, <2>1, <3>1
      <4> QED
        BY <1>1, <4>1
    <3>2. CASE ~(j <= Len(T))
      BY <2>1, <2>2, <3>2
    <3> QED
      BY <3>1, <3>2
  <2>4. Rooted(U)
    BY <1>1, <2>3, RootedTimers
  <2>5. \A j \in 1 .. Len(U) : IF j <= Len(T) THEN Kids(U)[j] = Kids(T)[j] ELSE Kids(U)[j] = {}
    <3>1. /\ \A j \in 1 .. Len(U) : Kids(U)[j] = ToSet(U[j].children)
          /\ \A j \in 1 .. Len(T) : Kids(T)[j] = ToSet(T[j].children)
      BY <1>1, RootedTimers
    <3> QED
      BY <1>1, <2>1, <2>2, <3>1
  <2> QED
    BY <1>1, <2>0, <2>4, <2>5, SameTree
<1>4. ASSUME NEW j \in 2 .. Len(U) PROVE TimerOK(U[j], hit)
  <2>1. CASE j = i
    BY <2>1
  <2>2. CASE j # i
    <3>1. j \in 2 .. Len(T) /\ U[j] = T[j]
      BY <1>1, <1>2, <2>2
    <3> QED
      BY <3>1 DEF TimersOK
  <2> QED
    BY <2>1, <2>2
<1>5. ASSUME NEW j \in 1 .. Len(U) PROVE ParentsIn(U[j], Len(U))
  <2>1. CASE j = i
    BY <2>1
  <2>2. CASE j # i
    <3>1. j \in 1 .. Len(T) /\ U[j] = T[j] /\ ParentsIn(T[j], Len(T))
      BY <1>2, <2>2 DEF TimersOK
    <3> QED
      BY <1>1, <3>1 DEF ParentsIn
  <2> QED
    BY <2>1, <2>2
<1>6. On(U) = IF U[i].onflg THEN On(T) \cup {i} ELSE On(T) \ {i}
  <2>1. \A j : j # i => (j \in 2 .. Len(U) <=> j \in 2 .. Len(T))
    BY <1>1 DEF Changed
  <2>2. \A j \in 2 .. Len(U) : j # i => U[j].onflg = T[j].onflg
    BY <1>1, <1>2
  <2> QED
    BY <1>1, <2>1, <2>2 DEF On
<1> QED
  BY <1>1, <1>3, <1>4, <1>5, <1>6 DEF TimersOK

\* A thread whose timer i is changed or added
LEMMA ThreadChange ==
  ASSUME NEW limit \in Nat, NEW hit, NEW th, ThreadOK(th, limit, hit), NEW U, NEW i,
         Changed(th.timers, U, i), TimerOK(U[i], hit), ParentsIn(U[i], Len(U)),
         U[i].children = IF i <= Len(th.timers) THEN th.timers[i].children ELSE <<>>,
         NEW s \in Nat, NEW stack \in [0 .. MAX_STACK - 1 -> Nat],
         \/ s <= th.stackidx /\ stack = th.callstack
         \/ s = th.stackidx + 1 /\ stack = [th.callstack EXCEPT ![s] = i],
         IF U[i].onflg
         THEN \/ i \in On(th.timers) /\ s = th.stackidx
              \/ s = th.stackidx + 1 /\ s <= limit
         ELSE \/ i \in On(th.timers) /\ s = th.stackidx - 1
              \/ s = th.stackidx
  PROVE  ThreadOK([th EXCEPT !.timers = U, !.stackidx = s, !.callstack = stack], limit, hit)
<1> DEFINE new == [th EXCEPT !.timers = U, !.stackidx = s, !.callstack = stack]
           T == th.timers
<1>1. th \in Thread /\ T \in Seq(Timer) /\ th.stackidx \in Nat /\ Len(T) \in Nat
      /\ U \in Seq(Timer) /\ Len(U) \in Nat /\ Len(T) <= Len(U) /\ i \in 2 .. Len(U)
      /\ TimersOK(T, hit)
  BY DEF ThreadOK, Thread, Changed, TimersOK
<1>2. new \in Thread /\ new.timers = U /\ new.stackidx = s /\ new.callstack = stack
      /\ new.handle = th.handle
  BY <1>1 DEF Thread
<1>3. TimersOK(U, hit) /\ On(U) = IF U[i].onflg THEN On(T) \cup {i} ELSE On(T) \ {i}
  BY SMTT(30), <1>1, TimersChange
<1>4. IsFiniteSet(On(T)) /\ Cardinality(On(T)) \in Nat
      /\ Cardinality(On(T)) <= th.stackidx /\ Cardinality(On(T)) <= limit
  BY <1>1, OnIsFinite DEF ThreadOK
<1>5. Cardinality(On(U)) <= s /\ Cardinality(On(U)) <= limit
  <2>1. /\ Cardinality(On(T) \cup {i}) = IF i \in On(T) THEN Cardinality(On(T))
                                         ELSE Cardinality(On(T)) + 1
        /\ Cardinality(On(T) \ {i}) = IF i \in On(T) THEN Cardinality(On(T)) - 1
                                      ELSE Cardinality(On(T))
    BY <1>4, FS_AddElement, FS_RemoveElement
  <2>2. CASE U[i].onflg
    BY <1>1, <1>3, <1>4, <2>1, <2>2
  <2>3. CASE ~ U[i].onflg
    BY <1>1, <1>3, <1>4, <2>1, <2>3
  <2> QED
    BY <2>2, <2>3
<1>6. \A n \in Names : new.handle[n] \in {0} \cup 2 .. Len(U)
  <2>1. \A n \in Names : th.handle[n] \in {0} \cup 2 .. Len(T)
    BY DEF ThreadOK
  <2> QED
    BY <1>1, <1>2, <2>1
<1>7. ASSUME NEW j \in 0 .. MAX_STACK - 1, j <= s, j <= limit
      PROVE  stack[j] \in 1 .. Len(U)
  <2>1. CASE j <= th.stackidx /\ stack[j] = th.callstack[j]
    BY <1>1, <1>7, <2>1 DEF ThreadOK, StackKnown
  <2>2. CASE j = s /\ stack[j] = i
    BY <1>1, <2>2
  <2>3. th.callstack \in [0 .. MAX_STACK - 1 -> Nat]
    BY <1>1 DEF Thread
  <2>4. (j <= th.stackidx /\ stack[j] = th.callstack[j]) \/ (j = s /\ stack[j] = i)
    <3>1. CASE s <= th.stackidx /\ stack = th.callstack
      BY <1>1, <1>7, <3>1
    <3>2. CASE s = th.stackidx + 1 /\ stack = [th.callstack EXCEPT ![s] = i]
      <4>1. j = s => stack[j] = i
        BY <2>3, <3>2
      <4>2. j # s => stack[j] = th.callstack[j]
        BY <2>3, <3>2
      <4>3. j # s => j <= th.stackidx
        BY <1>1, <1>7, <3>2
      <4> QED
        BY <4>1, <4>2, <4>3
    <3> QED
      BY <3>1, <3>2
  <2> QED
    BY <2>1, <2>2, <2>4
<1> HIDE DEF new
<1>8. StackKnown(new, limit)
  BY <1>2, <1>7 DEF StackKnown
<1>9. ThreadOK(new, limit, hit)
  BY <1>2, <1>3, <1>5, <1>6, <1>8 DEF ThreadOK
<1> QED
  BY <1>9 DEF new

(***************************************************************************)
(* What a call makes of one timer and its thread.                          *)
(***************************************************************************)
\* A timer in a thread's list is a timer.
LEMMA ThreadTimer ==
  ASSUME NEW th \in Thread, NEW i \in 1 .. Len(th.timers)
  PROVE  th.timers \in Seq(Timer) /\ th.timers[i] \in Timer
<1>1. th.timers \in Seq(Timer)
  BY DEF Thread
<1> QED
  BY <1>1, ElementsOfSeq

\* What the calls make of a timer
StartedTimer(tm, up, now) == [tm EXCEPT !.parent = Credited(tm.parent, up), !.onflg = TRUE, !.last = now]
StartedAgain(tm) == [tm EXCEPT !.recurselvl = @ + 1]
StoppedTimer(tm, now) == Timed([tm EXCEPT !.count = @ + 1, !.onflg = FALSE], now - tm.last)
StoppedAgain(tm) == [tm EXCEPT !.count = @ + 1, !.nrecurse = @ + 1, !.recurselvl = @ - 1]

With(T, i, tm) == [T EXCEPT ![i] = tm]

\* update_parent_info and update_ptr on a timer just pushed: the timer, and the
\* stack with its place.
LEMMA ParentShape ==
  ASSUME NEW th \in Thread, NEW i \in 1 .. Len(th.timers), NEW now \in Int,
         th.stackidx > 0, th.stackidx <= MAX_STACK - 1
  PROVE  LET up == th.callstack[th.stackidx - 1]
         IN  update_ptr(update_parent_info(th, i), i, now)
               = [th EXCEPT !.timers = With(th.timers, i, StartedTimer(th.timers[i], up, now)),
                            !.callstack = [th.callstack EXCEPT ![th.stackidx] = i]]
<1> DEFINE up == th.callstack[th.stackidx - 1]
           tm == th.timers[i]
           at == {n \in DOMAIN tm.parent : tm.parent[n].of = up}
           stack == [th.callstack EXCEPT ![th.stackidx] = i]
           mid == [th EXCEPT !.timers = With(th.timers, i, [tm EXCEPT !.parent = Credited(tm.parent, up)]),
                             !.callstack = stack]
<1>1. tm \in Timer /\ th.timers \in Seq(Timer) /\ i \in DOMAIN th.timers
  BY ThreadTimer DEF Thread
<1>2. th.stackidx # 0 /\ th.stackidx \in Nat
  BY DEF Thread
<1>3. update_parent_info(th, i) = mid
  <2> DEFINE on == [th EXCEPT !.callstack[th.stackidx] = i]
  <2>1. update_parent_info(th, i) =
          IF at # {} THEN [on EXCEPT !.timers[i].parent[Min(at)].calls = @ + 1]
          ELSE [on EXCEPT !.timers[i].parent = Append(@, [of |-> up, calls |-> 1])]
    BY <1>2 DEF update_parent_info
  <2>2. on = [th EXCEPT !.callstack = stack]
    OBVIOUS
  <2>3. on.timers = th.timers
    BY DEF Thread
  <2> HIDE DEF on
  <2>4. CASE at # {}
    <3>1. Credited(tm.parent, up) = [tm.parent EXCEPT ![Min(at)].calls = @ + 1]
      BY <2>4 DEF Credited
    <3> DEFINE m == Min(at)
    <3> HIDE DEF m
    <3>2. [on EXCEPT !.timers[i].parent[m].calls = @ + 1]
            = [on EXCEPT !.timers = [th.timers EXCEPT ![i] = [tm EXCEPT !.parent =
                   [tm.parent EXCEPT ![m].calls = @ + 1]]]]
      BY <2>3
    <3>3. [on EXCEPT !.timers[i].parent[m].calls = @ + 1]
            = [on EXCEPT !.timers = With(th.timers, i, [tm EXCEPT !.parent = Credited(tm.parent, up)])]
      BY <3>1, <3>2 DEF With, m
    <3>4. update_parent_info(th, i)
            = [on EXCEPT !.timers = With(th.timers, i, [tm EXCEPT !.parent = Credited(tm.parent, up)])]
      BY <2>1, <2>4, <3>3 DEF m
    <3> QED
      BY <2>2, <3>4 DEF Thread
  <2>5. CASE at = {}
    <3>1. Credited(tm.parent, up) = Append(tm.parent, [of |-> up, calls |-> 1])
      BY <2>5 DEF Credited
    <3>2. [on EXCEPT !.timers[i].parent = Append(@, [of |-> up, calls |-> 1])]
            = [on EXCEPT !.timers = With(th.timers, i, [tm EXCEPT !.parent = Credited(tm.parent, up)])]
      BY <2>3, <3>1 DEF With
    <3>4. update_parent_info(th, i)
            = [on EXCEPT !.timers = With(th.timers, i, [tm EXCEPT !.parent = Credited(tm.parent, up)])]
      BY <2>1, <2>5, <3>2
    <3> QED
      BY <2>2, <3>4 DEF Thread
  <2> QED
    BY <2>4, <2>5
<1> DEFINE pa == Credited(tm.parent, up)
           mt == [tm EXCEPT !.parent = pa]
<1>4. mid.timers = With(th.timers, i, mt) /\ mid.timers[i] = mt
  BY <1>1 DEF Thread, With
<1>5. update_ptr(mid, i, now)
        = [mid EXCEPT !.timers = With(mid.timers, i, [mid.timers[i] EXCEPT !.onflg = TRUE, !.last = now])]
  <2>1. update_ptr(mid, i, now) = [mid EXCEPT !.timers[i].onflg = TRUE, !.timers[i].last = now]
    BY DEF update_ptr
  <2> HIDE DEF mid
  <2> QED
    BY <2>1, <1>4, <1>1 DEF With
<1>6. [mt EXCEPT !.onflg = TRUE, !.last = now] = StartedTimer(tm, up, now)
  BY <1>1 DEF StartedTimer, Timer
<1>7. With(mid.timers, i, [mid.timers[i] EXCEPT !.onflg = TRUE, !.last = now])
        = With(th.timers, i, StartedTimer(tm, up, now))
  <2> HIDE DEF mid, mt
  <2> QED
    BY <1>1, <1>4, <1>6 DEF With
<1>8. update_ptr(mid, i, now) = [th EXCEPT !.timers = With(th.timers, i, StartedTimer(tm, up, now)),
                                           !.callstack = stack]
  BY <1>5, <1>7 DEF Thread
<1> QED
  BY <1>3, <1>8

\* A name is cut once: cutting it again changes nothing.
LEMMA ClipName ==
  ASSUME NEW name \in Seq(Int)
  PROVE  /\ Clip(name) \in Seq(Int) /\ Len(Clip(name)) <= MAX_CHARS
         /\ Len(name) <= MAX_CHARS => Clip(name) = name
         /\ Clip(Clip(name)) = Clip(name)
<1>1. MAX_CHARS \in Nat /\ Len(name) \in Nat
  BY GptlAssumption
<1>2. \A n \in Nat : Min({n, MAX_CHARS}) = IF n <= MAX_CHARS THEN n ELSE MAX_CHARS
  <2> SUFFICES ASSUME NEW n \in Nat
               PROVE  Min({n, MAX_CHARS}) = IF n <= MAX_CHARS THEN n ELSE MAX_CHARS
    OBVIOUS
  <2>1. {n, MAX_CHARS} \subseteq Nat /\ {n, MAX_CHARS} # {}
    BY <1>1
  <2>2. Min({n, MAX_CHARS}) \in {n, MAX_CHARS} /\ \A x \in {n, MAX_CHARS} : Min({n, MAX_CHARS}) <= x
    BY <2>1, MinIsIn
  <2> QED
    BY <1>1, <2>2
<1>3. \A q \in Seq(Int) : Clip(q) = SubSeq(q, 1, IF Len(q) <= MAX_CHARS THEN Len(q) ELSE MAX_CHARS)
  <2> SUFFICES ASSUME NEW q \in Seq(Int)
               PROVE  Clip(q) = SubSeq(q, 1, IF Len(q) <= MAX_CHARS THEN Len(q) ELSE MAX_CHARS)
    OBVIOUS
  <2>1. Len(q) \in Nat
    OBVIOUS
  <2> QED
    BY <1>2, <2>1 DEF Clip
<1>4. \A q \in Seq(Int) : Len(q) <= MAX_CHARS => Clip(q) = q
  <2> SUFFICES ASSUME NEW q \in Seq(Int), Len(q) <= MAX_CHARS PROVE Clip(q) = q
    OBVIOUS
  <2>1. Clip(q) = SubSeq(q, 1, Len(q))
    BY <1>3
  <2> QED
    BY <2>1
<1>5. Clip(name) \in Seq(Int) /\ Len(Clip(name)) <= MAX_CHARS
  <2>1. CASE Len(name) <= MAX_CHARS
    BY <1>4, <2>1
  <2>2. CASE ~(Len(name) <= MAX_CHARS)
    <3>1. Clip(name) = SubSeq(name, 1, MAX_CHARS)
      BY <1>3, <2>2
    <3>2. SubSeq(name, 1, MAX_CHARS) \in Seq(Int) /\ Len(SubSeq(name, 1, MAX_CHARS)) = MAX_CHARS
      BY <1>1, <2>2
    <3> QED
      BY <1>1, <3>1, <3>2
  <2> QED
    BY <2>1, <2>2
<1> QED
  BY <1>4, <1>5

\* The timer update_ll_hash adds has the name, and is at rest.
LEMMA NewTimerIs ==
  ASSUME NEW name \in Seq(Int)
  PROVE  /\ NewTimer(name) \in Timer
         /\ NewTimer(name).name = name /\ NewTimer(name).onflg = FALSE
         /\ NewTimer(name).recurselvl = 0 /\ NewTimer(name).count = 0
         /\ NewTimer(name).nrecurse = 0 /\ NewTimer(name).parent = <<>>
         /\ NewTimer(name).norphan = 0 /\ NewTimer(name).children = <<>>
         /\ NewTimer(name).accum = 0 /\ NewTimer(name).last = 0
<1>1. <<>> \in Seq([of : Nat, calls : Nat]) /\ <<>> \in Seq(Nat)
  OBVIOUS
<1> QED
  BY <1>1 DEF NewTimer, Timer

\* The timers among which a start finds its own, and the place of that one
Known(T, found, name) == IF found = 0 THEN Append(T, NewTimer(Clip(name))) ELSE T
PlaceOf(T, found) == IF found = 0 THEN Len(T) + 1 ELSE found

\* After the lookup, and the new timer if nothing was found, the timer is there.
LEMMA KnownTimers ==
  ASSUME NEW T \in Seq(Timer), Len(T) >= 1, NEW found \in {0} \cup 2 .. Len(T),
         NEW name \in Seq(Int)
  PROVE  /\ Known(T, found, name) \in Seq(Timer)
         /\ PlaceOf(T, found) \in 2 .. Len(Known(T, found, name))
         /\ Len(Known(T, found, name)) = IF found = 0 THEN Len(T) + 1 ELSE Len(T)
         /\ \A j \in 1 .. Len(T) : Known(T, found, name)[j] = T[j]
         /\ Known(T, found, name)[PlaceOf(T, found)]
              = IF found = 0 THEN NewTimer(Clip(name)) ELSE T[found]
<1>0. Clip(name) \in Seq(Int)
  BY ClipName
<1>1. NewTimer(Clip(name)) \in Timer /\ Len(T) \in Nat
  <2>1. Len(T) \in Nat
    OBVIOUS
  <2>2. NewTimer(Clip(name)) \in Timer
    BY <1>0, NewTimerIs
  <2> QED
    BY <2>1, <2>2
<1> DEFINE tm == NewTimer(Clip(name))
<1> HIDE DEF tm
<1>2. CASE found = 0
  BY <1>1, <1>2 DEF Known, PlaceOf, tm
<1>3. CASE found # 0
  BY <1>1, <1>3 DEF Known, PlaceOf
<1> QED
  BY <1>2, <1>3

\* What a start does to a thread.
StartedThread(th, found, name, now) ==
  LET T == th.timers
      K == Known(T, found, name)
      i == PlaceOf(T, found)
      s == th.stackidx + 1
  IN  IF found # 0 /\ T[found].onflg
      THEN [th EXCEPT !.timers = With(T, found, StartedAgain(T[found]))]
      ELSE IF s > MAX_STACK - 1 THEN [th EXCEPT !.stackidx = s]
      ELSE [th EXCEPT !.timers = With(K, i, StartedTimer(K[i], th.callstack[th.stackidx], now)),
                      !.stackidx = s, !.callstack = [th.callstack EXCEPT ![s] = i]]

\* StartFound is one of three changes: a repeated start, a start beyond the call
\* stack, which is only counted, and a start that pushes the timer.
LEMMA StartShape ==
  ASSUME NEW th \in Thread, Len(th.timers) >= 1, NEW found \in {0} \cup 2 .. Len(th.timers),
         NEW name \in Seq(Int), NEW now \in Int
  PROVE  StartFound(th, found, name, now) = StartedThread(th, found, name, now)
<1> DEFINE T == th.timers
           K == Known(T, found, name)
           i == PlaceOf(T, found)
           s == th.stackidx + 1
           known == [th EXCEPT !.timers = K]
           deep == [th EXCEPT !.timers = K, !.stackidx = s]
<1>1. T \in Seq(Timer) /\ th.stackidx \in Nat /\ Len(T) \in Nat
  BY DEF Thread
<1>2. CASE found # 0 /\ T[found].onflg
  <2>1. StartFound(th, found, name, now) = [th EXCEPT !.timers[found].recurselvl = @ + 1]
    BY <1>2 DEF StartFound
  <2> QED
    BY <1>2, <2>1 DEF With, StartedAgain, StartedThread
<1>3. CASE ~(found # 0 /\ T[found].onflg) /\ s > MAX_STACK - 1
  BY <1>3 DEF StartFound, StartedThread
<1>4. CASE ~(found # 0 /\ T[found].onflg) /\ ~(s > MAX_STACK - 1)
  <2>1. K \in Seq(Timer) /\ i \in 2 .. Len(K)
    BY <1>1, KnownTimers
  <2>2. known = IF found = 0 THEN update_ll_hash(th, Clip(name)) ELSE th
    <3>1. CASE found = 0
      BY <3>1 DEF update_ll_hash, Known
    <3>2. CASE found # 0
      BY <3>2 DEF Known, Thread
    <3> QED
      BY <3>1, <3>2
  <2>3. i = IF found = 0 THEN Len(known.timers) ELSE found
    <3>1. known.timers = K
      BY DEF Thread
    <3>2. Len(K) = IF found = 0 THEN Len(T) + 1 ELSE Len(T)
      BY <1>1, KnownTimers
    <3> HIDE DEF known, K
    <3> QED
      BY <3>1, <3>2 DEF PlaceOf
  <2>4. known.stackidx = th.stackidx /\ deep = [known EXCEPT !.stackidx = known.stackidx + 1]
    BY DEF Thread
  <2>5. StartFound(th, found, name, now) = update_ptr(update_parent_info(deep, i), i, now)
    <3> DEFINE kn == IF found = 0 THEN update_ll_hash(th, Clip(name)) ELSE th
    <3>1. StartFound(th, found, name, now)
            = update_ptr(update_parent_info([kn EXCEPT !.stackidx = @ + 1],
                           IF found = 0 THEN Len(kn.timers) ELSE found),
                         IF found = 0 THEN Len(kn.timers) ELSE found, now)
      BY <1>4 DEF StartFound
    <3>2. kn = known
      BY <2>2
    <3> HIDE DEF kn, known, deep, i
    <3> QED
      BY <2>3, <2>4, <3>1, <3>2
  <2>6. deep \in Thread /\ deep.timers = K /\ deep.stackidx = s /\ deep.callstack = th.callstack
    <3>1. s \in Nat
      BY <1>1
    <3> HIDE DEF K, s
    <3> QED
      BY <2>1, <3>1 DEF Thread
  <2>7. update_ptr(update_parent_info(deep, i), i, now)
          = [deep EXCEPT !.timers = With(deep.timers, i,
                             StartedTimer(deep.timers[i], deep.callstack[deep.stackidx - 1], now)),
                         !.callstack = [deep.callstack EXCEPT ![deep.stackidx] = i]]
    <3>1. MAX_STACK \in Nat /\ s > 0 /\ s <= MAX_STACK - 1
      BY SMTT(30), <1>1, <1>4, GptlAssumption
    <3>2. i \in 1 .. Len(deep.timers)
      BY <2>1, <2>6
    <3> HIDE DEF deep, i, s, K
    <3> QED
      BY <2>6, <3>1, <3>2, ParentShape
  <2>8. deep.stackidx - 1 = th.stackidx
    BY <1>1, <2>6
  <2>9. [deep EXCEPT !.timers = With(deep.timers, i,
                             StartedTimer(deep.timers[i], deep.callstack[deep.stackidx - 1], now)),
                     !.callstack = [deep.callstack EXCEPT ![deep.stackidx] = i]]
         = [th EXCEPT !.timers = With(K, i, StartedTimer(K[i], th.callstack[th.stackidx], now)),
                      !.stackidx = s, !.callstack = [th.callstack EXCEPT ![s] = i]]
    <3> DEFINE U == With(K, i, StartedTimer(K[i], th.callstack[th.stackidx], now))
               st == [th.callstack EXCEPT ![s] = i]
    <3>1. [deep EXCEPT !.timers = U, !.callstack = st]
            = [th EXCEPT !.timers = U, !.stackidx = s, !.callstack = st]
      <4> HIDE DEF U, st, K
      <4> QED
        BY DEF Thread
    <3> HIDE DEF deep
    <3> QED
      BY <2>6, <2>8, <3>1
  <2> QED
    BY <1>4, <2>5, <2>7, <2>9 DEF StartedThread
<1> QED
  BY <1>2, <1>3, <1>4

\* What a stop does to a thread.
StoppedThread(th, i, now) ==
  LET T == th.timers
  IN  IF i = 0 \/ ~(i # 0 /\ T[i].onflg) THEN th
      ELSE IF T[i].recurselvl > 0 THEN [th EXCEPT !.timers = With(T, i, StoppedAgain(T[i]))]
      ELSE [th EXCEPT !.timers = With(T, i, StoppedTimer(T[i], now)), !.stackidx = @ - 1]

\* StopFound is one of three changes: an error that changes nothing, the end of a
\* repeated start, and a stop that pops the timer.
LEMMA StopShape ==
  ASSUME NEW th \in Thread, NEW i \in {0} \cup 2 .. Len(th.timers), NEW now \in Int,
         i # 0 /\ th.timers[i].onflg => th.stackidx >= 1
  PROVE  StopFound(th, i, now) = StoppedThread(th, i, now)
<1> DEFINE T == th.timers
           tm == T[i]
           counted == [th EXCEPT !.timers[i].count = @ + 1]
           one == [tm EXCEPT !.count = @ + 1]
<1>1. CASE i = 0 \/ ~(i # 0 /\ T[i].onflg)
  BY <1>1 DEF StopFound, StoppedThread
<1>2. CASE ~(i = 0 \/ ~(i # 0 /\ T[i].onflg))
  <2>1. i \in 1 .. Len(T) /\ T \in Seq(Timer) /\ tm \in Timer /\ i \in DOMAIN T /\ th.stackidx \in Nat
        /\ th.stackidx >= 1
    BY <1>2, ThreadTimer DEF Thread
  <2>2. counted = [th EXCEPT !.timers = With(T, i, one)] /\ counted.timers = With(T, i, one)
        /\ counted.timers[i] = one /\ counted.stackidx = th.stackidx
    BY <2>1 DEF With, Thread
  <2>3. CASE tm.recurselvl > 0
    <3>1. StopFound(th, i, now) = [counted EXCEPT !.timers[i].nrecurse = @ + 1,
                                                  !.timers[i].recurselvl = @ - 1]
      BY <1>2, <2>3 DEF StopFound
    <3>2. [counted EXCEPT !.timers[i].nrecurse = @ + 1, !.timers[i].recurselvl = @ - 1]
            = [counted EXCEPT !.timers = [counted.timers EXCEPT ![i] =
                  [counted.timers[i] EXCEPT !.nrecurse = @ + 1, !.recurselvl = @ - 1]]]
      <4> DEFINE c == counted.timers[i]
      <4>1. c \in Timer /\ i \in DOMAIN counted.timers
        <5>1. one \in Timer
          <6>1. tm \in Timer
            BY <2>1
          <6> HIDE DEF tm
          <6>2. tm.count + 1 \in Nat
            BY <6>1 DEF Timer
          <6> QED
            BY <6>1, <6>2 DEF Timer
        <5>2. i \in DOMAIN With(T, i, one)
          BY <2>1 DEF With
        <5> HIDE DEF counted, one
        <5> QED
          BY <2>2, <5>1, <5>2
      <4> HIDE DEF counted
      <4>2. [c EXCEPT !.nrecurse = @ + 1].recurselvl = c.recurselvl
        BY <4>1 DEF Timer
      <4> QED
        BY <4>1, <4>2
    <3>3. [counted.timers EXCEPT ![i] = [counted.timers[i] EXCEPT !.nrecurse = @ + 1, !.recurselvl = @ - 1]]
            = With(T, i, StoppedAgain(tm))
      <4>1. [one EXCEPT !.nrecurse = @ + 1, !.recurselvl = @ - 1] = StoppedAgain(tm)
        BY <2>1 DEF StoppedAgain, Timer
      <4> HIDE DEF counted, one, tm
      <4> QED
        BY ZenonT(60), <2>1, <2>2, <4>1 DEF With
    <3>4. StopFound(th, i, now) = [counted EXCEPT !.timers = With(T, i, StoppedAgain(tm))]
      BY <3>1, <3>2, <3>3
    <3>5. [counted EXCEPT !.timers = With(T, i, StoppedAgain(tm))]
            = [th EXCEPT !.timers = With(T, i, StoppedAgain(tm))]
      BY DEF Thread
    <3> QED
      BY <1>2, <2>3, <3>4, <3>5 DEF StoppedThread
  <2>4. CASE ~(tm.recurselvl > 0)
    <3> DEFINE off == [counted EXCEPT !.timers[i].onflg = FALSE, !.stackidx = th.stackidx - 1]
               two == [tm EXCEPT !.count = @ + 1, !.onflg = FALSE]
    <3>1. StopFound(th, i, now) = update_stats(counted, i, now)
      BY <1>2, <2>4 DEF StopFound
    <3>2. update_stats(counted, i, now) = [off EXCEPT !.timers[i] = Timed(@, now - counted.timers[i].last)]
      <4>1. /\ ~(counted.stackidx - 1 < -1)
            /\ (IF counted.stackidx - 1 < -1 THEN -1 ELSE counted.stackidx - 1) = th.stackidx - 1
        BY <2>1, <2>2
      <4> HIDE DEF counted
      <4>2. update_stats(counted, i, now)
             = [[counted EXCEPT !.timers[i].onflg = FALSE,
                   !.stackidx = IF counted.stackidx - 1 < -1 THEN -1 ELSE counted.stackidx - 1]
                  EXCEPT !.timers[i] = Timed(@, now - counted.timers[i].last)]
        BY <4>1 DEF update_stats
      <4> QED
        BY <4>1, <4>2
    <3>3. off = [th EXCEPT !.timers = With(T, i, two), !.stackidx = th.stackidx - 1]
      <4>1. off = [counted EXCEPT !.timers = [counted.timers EXCEPT ![i] =
                       [counted.timers[i] EXCEPT !.onflg = FALSE]], !.stackidx = th.stackidx - 1]
        <5> HIDE DEF counted
        <5> QED
          BY <2>2
      <4>2. [counted.timers EXCEPT ![i] = [counted.timers[i] EXCEPT !.onflg = FALSE]]
              = With(T, i, two)
        <5>1. [one EXCEPT !.onflg = FALSE] = two
          BY <2>1 DEF Timer
        <5> DEFINE W == counted.timers
        <5>2. W = With(T, i, one) /\ W[i] = one
          BY <2>2
        <5>3. i \in DOMAIN T
          BY <2>1
        <5> HIDE DEF counted, one, two, tm, W, T
        <5>4. [W EXCEPT ![i] = two] = With(T, i, two)
          BY <5>2, <5>3 DEF With
        <5> QED
          BY <5>1, <5>2, <5>4 DEF W
      <4>3. off = [counted EXCEPT !.timers = With(T, i, two), !.stackidx = th.stackidx - 1]
        BY <4>1, <4>2
      <4> QED
        BY <4>3 DEF Thread
    <3>4. off.timers = With(T, i, two) /\ off.timers[i] = two /\ counted.timers[i].last = tm.last
      <4>1. one.last = tm.last
        BY <2>1 DEF Timer
      <4>2. off.timers = With(T, i, two)
        <5> HIDE DEF off, two
        <5> QED
          BY <3>3 DEF Thread
      <4> HIDE DEF off, two, counted, one
      <4> QED
        BY <2>1, <2>2, <4>1, <4>2 DEF With
    <3>5. [off EXCEPT !.timers[i] = Timed(@, now - counted.timers[i].last)]
            = [off EXCEPT !.timers = With(T, i, StoppedTimer(tm, now))]
      <4>1. [off.timers EXCEPT ![i] = Timed(off.timers[i], now - counted.timers[i].last)]
              = With(T, i, StoppedTimer(tm, now))
        <5>1. Timed(two, now - tm.last) = StoppedTimer(tm, now)
          BY DEF StoppedTimer
        <5> HIDE DEF off, two, counted
        <5> QED
          BY <2>1, <3>4, <5>1 DEF With
      <4> HIDE DEF off, counted
      <4> QED
        BY <4>1
    <3>6. [off EXCEPT !.timers = With(T, i, StoppedTimer(tm, now))]
            = [th EXCEPT !.timers = With(T, i, StoppedTimer(tm, now)), !.stackidx = @ - 1]
      <4> DEFINE U == With(T, i, StoppedTimer(tm, now))
                 W == With(T, i, two)
      <4>1. [[th EXCEPT !.timers = W, !.stackidx = th.stackidx - 1] EXCEPT !.timers = U]
             = [th EXCEPT !.timers = U, !.stackidx = @ - 1]
        <5> HIDE DEF U, W
        <5> QED
          BY DEF Thread
      <4> HIDE DEF off
      <4> QED
        BY <3>3, <4>1
    <3> QED
      BY <1>2, <2>4, <3>1, <3>2, <3>5, <3>6 DEF StoppedThread
  <2> QED
    BY <2>3, <2>4
<1> QED
  BY <1>1, <1>2

(***************************************************************************)
(* One timer, then one thread, stays accounted for.                        *)
(***************************************************************************)
\* A timer that does not run
Idle(tm, hit) == /\ tm.norphan = 0 /\ ~tm.onflg
                 /\ ~hit => Called(tm.parent) = tm.count - tm.nrecurse

\* What each call makes of one timer, and that it stays accounted for.
StartedFrom(new, tm, L, now, hit) ==
  /\ new \in Timer /\ TimerOK(new, hit) /\ ParentsIn(new, L)
  /\ new.onflg = TRUE /\ new.last = now /\ new.name = tm.name
  /\ new.children = tm.children /\ new.count = tm.count
  /\ new.accum = tm.accum /\ new.recurselvl = tm.recurselvl

\* A start that pushes the timer.
LEMMA StartedOK ==
  ASSUME NEW hit, NEW tm \in Timer, Idle(tm, hit),
         NEW L \in Nat, NEW up \in 1 .. L, ParentsIn(tm, L), NEW now \in Int
  PROVE  StartedFrom(StartedTimer(tm, up, now), tm, L, now, hit)
<1> DEFINE pa == Credited(tm.parent, up)
           new == StartedTimer(tm, up, now)
<1>1. tm.parent \in Parents /\ up \in Nat
  BY DEF Timer, Parents
<1>2. pa \in Parents /\ Called(pa) = Called(tm.parent) + 1
      /\ \A k \in 1 .. Len(pa) : pa[k].of \in 1 .. L
  BY <1>1, CreditedOnce DEF ParentsIn
<1>3. Called(tm.parent) \in Nat
  BY <1>1, CalledType
<1> HIDE DEF pa
<1>4. new = [tm EXCEPT !.parent = pa, !.onflg = TRUE, !.last = now]
  BY DEF StartedTimer, pa
<1>5. /\ new \in Timer /\ new.parent = pa /\ new.onflg = TRUE /\ new.last = now
      /\ new.name = tm.name /\ new.children = tm.children /\ new.count = tm.count
      /\ new.accum = tm.accum /\ new.recurselvl = tm.recurselvl
      /\ new.norphan = tm.norphan /\ new.nrecurse = tm.nrecurse
  BY <1>2, <1>4 DEF Timer, Parents
<1>6. tm.count \in Nat /\ tm.nrecurse \in Nat
  BY DEF Timer
<1> HIDE DEF new
<1>7. TimerOK(new, hit)
  BY <1>2, <1>3, <1>5, <1>6 DEF TimerOK, Idle
<1>8. ParentsIn(new, L)
  BY <1>2, <1>5 DEF ParentsIn
<1> QED
  BY <1>5, <1>7, <1>8 DEF new, StartedFrom

\* A repeated start of a running timer.
LEMMA StartedAgainOK ==
  ASSUME NEW hit, NEW tm \in Timer, TimerOK(tm, hit), tm.onflg, NEW L, ParentsIn(tm, L)
  PROVE  LET new == StartedAgain(tm)
         IN  /\ new \in Timer /\ TimerOK(new, hit) /\ ParentsIn(new, L)
             /\ new.onflg = TRUE /\ new.last = tm.last /\ new.name = tm.name
             /\ new.children = tm.children /\ new.count = tm.count
             /\ new.accum = tm.accum /\ new.recurselvl = tm.recurselvl + 1
<1> DEFINE new == StartedAgain(tm)
<1>1. tm.recurselvl + 1 \in Nat /\ tm.onflg = TRUE
  BY DEF Timer
<1>2. /\ new \in Timer /\ new.parent = tm.parent /\ new.onflg = tm.onflg /\ new.last = tm.last
      /\ new.name = tm.name /\ new.children = tm.children /\ new.count = tm.count
      /\ new.accum = tm.accum /\ new.recurselvl = tm.recurselvl + 1
      /\ new.norphan = tm.norphan /\ new.nrecurse = tm.nrecurse
  BY <1>1 DEF Timer, StartedAgain
<1> HIDE DEF new
<1>3. TimerOK(new, hit) /\ ParentsIn(new, L)
  BY <1>1, <1>2 DEF TimerOK, ParentsIn
<1> QED
  BY <1>1, <1>2, <1>3 DEF new

TimedFrom(new, tm, delta) ==
  /\ new \in Timer /\ new.accum = tm.accum + delta /\ new.latest = delta
  /\ new.name = tm.name /\ new.onflg = tm.onflg /\ new.recurselvl = tm.recurselvl
  /\ new.count = tm.count /\ new.nrecurse = tm.nrecurse /\ new.parent = tm.parent
  /\ new.norphan = tm.norphan /\ new.children = tm.children /\ new.last = tm.last

\* update_stats with a time: the time is added, the run is left alone.
LEMMA TimedIs ==
  ASSUME NEW tm \in Timer, NEW delta \in Int
  PROVE  TimedFrom(Timed(tm, delta), tm, delta)
<1> DEFINE first == tm.count = 1
           mx == IF first \/ delta > tm.max THEN delta ELSE tm.max
           pm == IF first THEN FLT_MAX ELSE IF delta < tm.min THEN tm.min ELSE tm.prev_min
           mn == IF first \/ delta < tm.min THEN delta ELSE tm.min
           lm == first \/ delta < tm.min
<1>1. FLT_MAX \in Int /\ tm.accum + delta \in Int /\ tm.max \in Int /\ tm.min \in Int
      /\ tm.prev_min \in Int
  <2>1. FLT_MAX \in Nat
    BY GptlAssumption
  <2>2. tm.accum \in Int /\ tm.max \in Int /\ tm.min \in Int /\ tm.prev_min \in Int
    BY DEF Timer
  <2> QED
    BY <2>1, <2>2
<1>2. mx \in Int /\ pm \in Int /\ mn \in Int /\ lm \in BOOLEAN
  BY <1>1
<1>3. Timed(tm, delta) = [tm EXCEPT !.accum = tm.accum + delta, !.latest = delta, !.max = mx,
                                    !.prev_min = pm, !.min = mn, !.latest_is_min = lm]
  BY DEF Timed
<1> HIDE DEF mx, pm, mn, lm
<1> QED
  BY ZenonT(60), <1>1, <1>2, <1>3 DEF Timer, TimedFrom

\* The stop that matches the first start.
LEMMA StoppedOK ==
  ASSUME NEW hit, NEW tm \in Timer, TimerOK(tm, hit), tm.onflg, ~(tm.recurselvl > 0),
         NEW now \in Int, NEW L, ParentsIn(tm, L)
  PROVE  LET new == StoppedTimer(tm, now)
         IN  /\ new \in Timer /\ TimerOK(new, hit) /\ ParentsIn(new, L)
             /\ new.onflg = FALSE /\ new.name = tm.name
             /\ new.children = tm.children /\ new.count = tm.count + 1
             /\ new.accum = tm.accum + (now - tm.last) /\ new.recurselvl = tm.recurselvl
             /\ new.latest = now - tm.last
<1> DEFINE two == [tm EXCEPT !.count = @ + 1, !.onflg = FALSE]
           new == StoppedTimer(tm, now)
<1>1. tm.count \in Nat /\ tm.nrecurse \in Nat /\ tm.recurselvl \in Nat /\ tm.last \in Int
      /\ tm.parent \in Parents /\ tm.onflg = TRUE
  BY DEF Timer, Parents
<1>2. tm.count + 1 \in Nat /\ now - tm.last \in Int
  BY <1>1
<1>3. /\ two \in Timer /\ two.name = tm.name /\ two.onflg = FALSE /\ two.recurselvl = tm.recurselvl
      /\ two.count = tm.count + 1 /\ two.nrecurse = tm.nrecurse /\ two.parent = tm.parent
      /\ two.norphan = tm.norphan /\ two.children = tm.children /\ two.last = tm.last
      /\ two.accum = tm.accum
  BY <1>2 DEF Timer
<1> HIDE DEF two
<1>4. /\ new \in Timer /\ new.accum = two.accum + (now - tm.last) /\ new.latest = now - tm.last
      /\ new.name = two.name /\ new.onflg = two.onflg /\ new.recurselvl = two.recurselvl
      /\ new.count = two.count /\ new.nrecurse = two.nrecurse /\ new.parent = two.parent
      /\ new.norphan = two.norphan /\ new.children = two.children
  <2>1. new = Timed(two, now - tm.last)
    BY DEF StoppedTimer, two
  <2>2. TimedFrom(Timed(two, now - tm.last), two, now - tm.last)
    BY <1>2, <1>3, TimedIs
  <2> QED
    BY <2>1, <2>2 DEF TimedFrom
<1> HIDE DEF new
<1>5. Called(tm.parent) \in Nat
  BY <1>1, CalledType
<1>6. TimerOK(new, hit)
  BY <1>1, <1>3, <1>4, <1>5 DEF TimerOK
<1>7. ParentsIn(new, L)
  BY <1>3, <1>4 DEF ParentsIn
<1> QED
  BY <1>3, <1>4, <1>6, <1>7 DEF new

\* The stop of a repeated start.
LEMMA StoppedAgainOK ==
  ASSUME NEW hit, NEW tm \in Timer, TimerOK(tm, hit), tm.onflg, tm.recurselvl > 0,
         NEW L, ParentsIn(tm, L)
  PROVE  LET new == StoppedAgain(tm)
         IN  /\ new \in Timer /\ TimerOK(new, hit) /\ ParentsIn(new, L)
             /\ new.onflg = TRUE /\ new.last = tm.last /\ new.name = tm.name
             /\ new.children = tm.children /\ new.count = tm.count + 1
             /\ new.accum = tm.accum /\ new.recurselvl = tm.recurselvl - 1
<1> DEFINE new == StoppedAgain(tm)
<1>1. tm.count \in Nat /\ tm.nrecurse \in Nat /\ tm.recurselvl \in Nat /\ tm.onflg = TRUE
      /\ tm.parent \in Parents
  BY DEF Timer, Parents
<1>2. tm.recurselvl - 1 \in Nat /\ tm.count + 1 \in Nat /\ tm.nrecurse + 1 \in Nat
  BY <1>1
<1>3. /\ new \in Timer /\ new.parent = tm.parent /\ new.onflg = tm.onflg /\ new.last = tm.last
      /\ new.name = tm.name /\ new.children = tm.children /\ new.count = tm.count + 1
      /\ new.accum = tm.accum /\ new.recurselvl = tm.recurselvl - 1
      /\ new.norphan = tm.norphan /\ new.nrecurse = tm.nrecurse + 1
  BY <1>2 DEF Timer, StoppedAgain
<1> HIDE DEF new
<1>4. Called(tm.parent) \in Nat
  BY <1>1, CalledType
<1>5. TimerOK(new, hit) /\ ParentsIn(new, L)
  BY <1>1, <1>3, <1>4 DEF TimerOK, ParentsIn
<1> QED
  BY <1>1, <1>3, <1>5 DEF new

\* A timer put back into the list.
LEMMA WithChanges ==
  ASSUME NEW T \in Seq(Timer), NEW i \in 2 .. Len(T), NEW tm \in Timer
  PROVE  Changed(T, With(T, i, tm), i) /\ Len(With(T, i, tm)) = Len(T) /\ With(T, i, tm)[i] = tm
BY DEF Changed, With

\* A timer put back into the list after the lookup.
LEMMA KnownChanges ==
  ASSUME NEW T \in Seq(Timer), Len(T) >= 1, NEW found \in {0} \cup 2 .. Len(T),
         NEW name \in Seq(Int), NEW tm \in Timer
  PROVE  LET U == With(Known(T, found, name), PlaceOf(T, found), tm)
         IN  /\ Changed(T, U, PlaceOf(T, found)) /\ U[PlaceOf(T, found)] = tm
             /\ Len(U) = IF found = 0 THEN Len(T) + 1 ELSE Len(T)
<1> DEFINE K == Known(T, found, name)
           i == PlaceOf(T, found)
           U == With(K, i, tm)
<1>1. /\ K \in Seq(Timer) /\ i \in 2 .. Len(K) /\ Len(T) \in Nat
      /\ Len(K) = IF found = 0 THEN Len(T) + 1 ELSE Len(T)
      /\ \A j \in 1 .. Len(T) : K[j] = T[j]
      /\ i = IF found = 0 THEN Len(T) + 1 ELSE found
  BY KnownTimers DEF PlaceOf
<1> HIDE DEF K, i
<1>2. U \in Seq(Timer) /\ Len(U) = Len(K) /\ U[i] = tm
      /\ \A j \in 1 .. Len(K) : j # i => U[j] = K[j]
  BY <1>1 DEF With
<1> HIDE DEF U
<1>3. \A j \in 1 .. Len(T) : j \in 1 .. Len(K)
  BY <1>1
<1>4. \A j \in 1 .. Len(T) : j # i => U[j] = T[j]
  BY <1>1, <1>2, <1>3
<1>5. Changed(T, U, i)
  BY <1>1, <1>2, <1>4 DEF Changed
<1> QED
  BY <1>1, <1>2, <1>5 DEF U, K, i

\* A start that pushes its timer
Pushes(th, found) == /\ ~(found # 0 /\ th.timers[found].onflg)
                     /\ th.stackidx + 1 <= MAX_STACK - 1

\* Timer kt of a list of L, started and pushed as tm
PushedOK(kt, tm, L, now, hit) ==
  /\ kt \in Timer /\ kt.onflg = FALSE /\ kt.recurselvl = 0
  /\ tm \in Timer /\ TimerOK(tm, hit) /\ ParentsIn(tm, L)
  /\ tm.onflg = TRUE /\ tm.recurselvl = 0 /\ tm.last = now /\ tm.name = kt.name
  /\ tm.children = kt.children /\ tm.count = kt.count /\ tm.accum = kt.accum

\* The timer that a start pushes
LEMMA Pushed ==
  ASSUME NEW limit \in Nat, NEW hit, NEW th, ThreadOK(th, limit, hit), th.stackidx < limit,
         NEW found \in {0} \cup 2 .. Len(th.timers), NEW name \in Seq(Int), NEW now \in Int,
         Pushes(th, found)
  PROVE  PushedOK(Known(th.timers, found, name)[PlaceOf(th.timers, found)],
                  StartedTimer(Known(th.timers, found, name)[PlaceOf(th.timers, found)],
                               th.callstack[th.stackidx], now),
                  Len(Known(th.timers, found, name)), now, hit)
<1> DEFINE T == th.timers
           K == Known(T, found, name)
           i == PlaceOf(T, found)
           s == th.stackidx + 1
           up == th.callstack[th.stackidx]
           tm == StartedTimer(K[i], up, now)
<1>1. th \in Thread /\ T \in Seq(Timer) /\ TimersOK(T, hit) /\ Len(T) \in Nat /\ Len(T) >= 1
      /\ th.stackidx \in Nat /\ th.callstack \in [0 .. MAX_STACK - 1 -> Nat] /\ MAX_STACK \in Nat
  BY GptlAssumption DEF ThreadOK, Thread, TimersOK
<1>2. ~(found # 0 /\ T[found].onflg) /\ ~(s > MAX_STACK - 1)
  BY <1>1 DEF Pushes
<1>3. /\ K \in Seq(Timer) /\ i \in 2 .. Len(K)
      /\ Len(K) = IF found = 0 THEN Len(T) + 1 ELSE Len(T)
      /\ K[i] = IF found = 0 THEN NewTimer(Clip(name)) ELSE T[found]
  BY <1>1, KnownTimers
<1>4. /\ K \in Seq(Timer) /\ i \in 2 .. Len(K) /\ Len(K) \in Nat
      /\ Len(K) = IF found = 0 THEN Len(T) + 1 ELSE Len(T)
      /\ K[i] = IF found = 0 THEN NewTimer(Clip(name)) ELSE T[found]
  BY <1>1, <1>3
<1>5. up \in 1 .. Len(K)
  <2>1. th.stackidx \in 0 .. MAX_STACK - 1 /\ th.stackidx <= th.stackidx /\ th.stackidx <= limit
    BY <1>1, <1>2
  <2>2. up \in 1 .. Len(T)
    BY <2>1 DEF ThreadOK, StackKnown
  <2>3. 1 .. Len(T) \subseteq 1 .. Len(K)
    BY <1>1, <1>4
  <2> QED
    BY <2>2, <2>3
<1>6. /\ K[i] \in Timer /\ K[i].norphan = 0 /\ ~K[i].onflg /\ K[i].recurselvl = 0
      /\ (~hit => Called(K[i].parent) = K[i].count - K[i].nrecurse)
      /\ ParentsIn(K[i], Len(K))
      /\ K[i].children = IF found = 0 THEN <<>> ELSE T[found].children
  <2>1. CASE found = 0
    <3> DEFINE nt == NewTimer(Clip(name))
    <3>1. Clip(name) \in Seq(Int)
      BY ClipName
    <3>2. /\ nt \in Timer /\ nt.onflg = FALSE /\ nt.count = 0 /\ nt.nrecurse = 0
          /\ nt.parent = <<>> /\ nt.norphan = 0 /\ nt.children = <<>> /\ nt.recurselvl = 0
      BY <3>1, NewTimerIs
    <3>3. <<>> \in Parents
      BY DEF Parents
    <3>4. Called(<<>>) = 0
      BY <3>3, CalledType
    <3>5. K[i] = nt /\ ~(i <= Len(T))
      BY <1>1, <1>4, <2>1 DEF PlaceOf
    <3>6. ParentsIn(nt, Len(K))
      BY <3>2 DEF ParentsIn
    <3> HIDE DEF nt, K, i
    <3> QED
      BY <2>1, <3>2, <3>4, <3>5, <3>6
  <2>2. CASE found # 0
    <3>1. found \in 2 .. Len(T) /\ found \in 1 .. Len(T) /\ i = found /\ K = T /\ i <= Len(T)
      BY <1>1, <2>2 DEF PlaceOf, Known
    <3>2. T[found] \in Timer /\ TimerOK(T[found], hit) /\ ParentsIn(T[found], Len(T))
      BY <1>1, <3>1, ThreadTimer DEF TimersOK
    <3>3. ~T[found].onflg
      BY <1>2, <2>2
    <3>4. T[found].count \in Nat /\ T[found].nrecurse \in Nat /\ T[found].recurselvl \in Nat
      BY <3>2 DEF Timer
    <3> HIDE DEF K, i
    <3> QED
      BY <3>1, <3>2, <3>3, <3>4 DEF TimerOK
  <2> QED
    BY <2>1, <2>2
<1>7. /\ tm \in Timer /\ TimerOK(tm, hit) /\ ParentsIn(tm, Len(K)) /\ tm.onflg = TRUE
      /\ tm.children = K[i].children /\ tm.last = now /\ tm.name = K[i].name
      /\ tm.count = K[i].count /\ tm.accum = K[i].accum /\ tm.recurselvl = 0
  <2> DEFINE kt == K[i]
             L == Len(K)
             u == up
  <2>1. /\ kt \in Timer /\ Idle(kt, hit)
        /\ ParentsIn(kt, L) /\ L \in Nat /\ u \in 1 .. L /\ kt.recurselvl = 0
    BY <1>4, <1>5, <1>6 DEF Idle
  <2> HIDE DEF kt, L, u
  <2> DEFINE q == StartedTimer(kt, u, now)
  <2>2a. StartedFrom(q, kt, L, now, hit)
    BY <2>1, StartedOK
  <2>2. /\ q \in Timer /\ TimerOK(q, hit) /\ ParentsIn(q, L)
        /\ q.onflg = TRUE /\ q.children = kt.children /\ q.last = now /\ q.name = kt.name
        /\ q.count = kt.count /\ q.accum = kt.accum /\ q.recurselvl = kt.recurselvl
    BY <2>2a DEF StartedFrom
  <2> HIDE DEF q
  <2>3. /\ q \in Timer /\ TimerOK(q, hit) /\ ParentsIn(q, L)
        /\ q.onflg = TRUE /\ q.children = kt.children /\ q.last = now /\ q.name = kt.name
        /\ q.count = kt.count /\ q.accum = kt.accum /\ q.recurselvl = 0
    BY <2>1, <2>2
  <2> QED
    BY <2>3 DEF kt, L, u, q
<1>8. K[i].onflg = FALSE
  BY <1>6 DEF Timer
<1> HIDE DEF tm, K, i
<1>9. /\ K[i].onflg = FALSE /\ K[i].recurselvl = 0
  BY <1>6, <1>8
<1> QED
  BY <1>4, <1>6, <1>7, <1>9 DEF tm, K, i, PushedOK

\* A start below the depth limit leaves the thread accounted for.
LEMMA StartFoundOK ==
  ASSUME NEW limit \in Nat, NEW hit, NEW th, ThreadOK(th, limit, hit), th.stackidx < limit,
         NEW found \in {0} \cup 2 .. Len(th.timers), NEW name \in Seq(Int), NEW now \in Int
  PROVE  LET new == StartFound(th, found, name, now)
         IN  /\ ThreadOK(new, limit, hit)
             /\ new.handle = th.handle /\ new.prefix = th.prefix
             /\ Len(th.timers) <= Len(new.timers)
<1> DEFINE T == th.timers
           K == Known(T, found, name)
           i == PlaceOf(T, found)
           s == th.stackidx + 1
           new == StartFound(th, found, name, now)
<1>1. th \in Thread /\ T \in Seq(Timer) /\ TimersOK(T, hit) /\ Len(T) \in Nat /\ Len(T) >= 1
      /\ th.stackidx \in Nat /\ th.callstack \in [0 .. MAX_STACK - 1 -> Nat] /\ MAX_STACK \in Nat
  BY GptlAssumption DEF ThreadOK, Thread, TimersOK
<1>2a. new = StartedThread(th, found, name, now)
  BY <1>1, StartShape
<1>2. new = IF found # 0 /\ T[found].onflg
               THEN [th EXCEPT !.timers = With(T, found, StartedAgain(T[found]))]
               ELSE IF s > MAX_STACK - 1 THEN [th EXCEPT !.stackidx = s]
               ELSE [th EXCEPT !.timers = With(K, i, StartedTimer(K[i], th.callstack[th.stackidx], now)),
                               !.stackidx = s, !.callstack = [th.callstack EXCEPT ![s] = i]]
  BY <1>2a DEF StartedThread
<1>3. CASE found # 0 /\ T[found].onflg
  <2> DEFINE tm == StartedAgain(T[found])
             U == With(T, found, tm)
  <2>1. found \in 2 .. Len(T) /\ T[found] \in Timer /\ TimerOK(T[found], hit)
        /\ ParentsIn(T[found], Len(T)) /\ found \in 1 .. Len(T)
    BY <1>1, <1>3, ThreadTimer DEF TimersOK
  <2>2. /\ tm \in Timer /\ TimerOK(tm, hit) /\ ParentsIn(tm, Len(T))
        /\ tm.onflg = TRUE /\ tm.children = T[found].children
    BY <1>3, <2>1, StartedAgainOK
  <2>3. Changed(T, U, found) /\ Len(U) = Len(T) /\ U[found] = tm
    BY <1>1, <2>1, <2>2, WithChanges
  <2>4. found \in On(T)
    BY <1>3, <2>1 DEF On
  <2> HIDE DEF U, tm
  <2>5. ThreadOK([th EXCEPT !.timers = U, !.stackidx = th.stackidx, !.callstack = th.callstack],
                 limit, hit)
    <3> DEFINE s0 == th.stackidx
               c0 == th.callstack
    <3>1. /\ U[found].children = IF found <= Len(T) THEN T[found].children ELSE <<>>
          /\ TimerOK(U[found], hit) /\ ParentsIn(U[found], Len(U)) /\ U[found].onflg
      BY <1>1, <2>1, <2>2, <2>3
    <3>2. s0 <= th.stackidx /\ c0 = th.callstack /\ s0 \in Nat /\ c0 \in [0 .. MAX_STACK - 1 -> Nat]
      BY <1>1
    <3>3. s0 = th.stackidx
      OBVIOUS
    <3> HIDE DEF s0, c0
    <3>4. ThreadOK([th EXCEPT !.timers = U, !.stackidx = s0, !.callstack = c0], limit, hit)
      BY <2>3, <2>4, <3>1, <3>2, <3>3, ThreadChange
    <3> QED
      BY <3>4 DEF s0, c0
  <2>6. new = [th EXCEPT !.timers = U, !.stackidx = th.stackidx, !.callstack = th.callstack]
    BY <1>1, <1>2, <1>3 DEF U, tm, Thread
  <2>7. new.handle = th.handle /\ new.prefix = th.prefix /\ new.timers = U
    BY <1>1, <2>6 DEF Thread
  <2> QED
    BY <1>1, <2>3, <2>5, <2>6, <2>7
<1>4. CASE ~(found # 0 /\ T[found].onflg) /\ s > MAX_STACK - 1
  <2>1. new = [th EXCEPT !.stackidx = s]
    BY <1>2, <1>4
  <2>2. new \in Thread /\ new.timers = T /\ new.stackidx = s /\ new.handle = th.handle
        /\ new.callstack = th.callstack /\ new.prefix = th.prefix
    <3>1. s \in Nat
      BY <1>1
    <3> HIDE DEF new, s
    <3> QED
      BY <1>1, <2>1, <3>1 DEF Thread
  <2>3. Cardinality(On(T)) \in Nat
    BY <1>1, OnIsFinite
  <2> HIDE DEF new
  <2>4. StackKnown(new, limit)
    BY <1>1, <1>4, <2>2 DEF StackKnown, ThreadOK
  <2> QED
    BY <1>1, <2>2, <2>3, <2>4 DEF ThreadOK, new
<1>5. CASE ~(found # 0 /\ T[found].onflg) /\ ~(s > MAX_STACK - 1)
  <2> DEFINE up == th.callstack[th.stackidx]
             tm == StartedTimer(K[i], up, now)
             U == With(K, i, tm)
             stack == [th.callstack EXCEPT ![s] = i]
  <2>0. Pushes(th, found)
    BY <1>1, <1>5 DEF Pushes
  <2>1a. /\ K \in Seq(Timer) /\ i \in 2 .. Len(K)
         /\ Len(K) = IF found = 0 THEN Len(T) + 1 ELSE Len(T)
    BY <1>1, KnownTimers
  <2>1b. PushedOK(K[i], tm, Len(K), now, hit)
    BY <2>0, Pushed
  <2>1. /\ K \in Seq(Timer) /\ i \in 2 .. Len(K) /\ Len(K) \in Nat
        /\ Len(K) = IF found = 0 THEN Len(T) + 1 ELSE Len(T)
        /\ K[i].children = IF i <= Len(T) THEN T[i].children ELSE <<>>
        /\ tm \in Timer /\ TimerOK(tm, hit) /\ ParentsIn(tm, Len(K)) /\ tm.onflg = TRUE
        /\ tm.children = K[i].children
    <3>1. /\ i = IF found = 0 THEN Len(T) + 1 ELSE found
          /\ K[i] = IF found = 0 THEN NewTimer(Clip(name)) ELSE T[found]
      BY <1>1, KnownTimers DEF PlaceOf
    <3>2. Clip(name) \in Seq(Int)
      BY ClipName
    <3>3. NewTimer(Clip(name)).children = <<>>
      BY <3>2, NewTimerIs
    <3> HIDE DEF K, i, tm
    <3>4. K[i].children = IF i <= Len(T) THEN T[i].children ELSE <<>>
      BY <1>1, <3>1, <3>3
    <3> QED
      BY <1>1, <2>1a, <2>1b, <3>4 DEF PushedOK
  <2>5. Changed(T, U, i) /\ U[i] = tm /\ Len(U) = Len(K)
    <3> HIDE DEF tm
    <3> QED
      BY <1>1, <2>1, KnownChanges
  <2> HIDE DEF tm, U, K
  <2>6a. i \in Nat /\ s \in Nat /\ s <= limit
    BY <1>1, <2>1
  <2>6. i \in Nat /\ s \in Nat /\ stack \in [0 .. MAX_STACK - 1 -> Nat] /\ s <= limit
        /\ s = th.stackidx + 1
    <3> HIDE DEF i
    <3> QED
      BY <1>1, <2>6a
  <2>7. /\ U[i].children = IF i <= Len(T) THEN T[i].children ELSE <<>>
        /\ TimerOK(U[i], hit) /\ ParentsIn(U[i], Len(U)) /\ U[i].onflg
    BY <2>1, <2>5
  <2>8. ThreadOK([th EXCEPT !.timers = U, !.stackidx = s, !.callstack = stack], limit, hit)
    <3> DEFINE ss == s
               cc == stack
               ii == i
    <3>1. /\ ss \in Nat /\ cc \in [0 .. MAX_STACK - 1 -> Nat]
          /\ ss = th.stackidx + 1 /\ ss <= limit /\ cc = [th.callstack EXCEPT ![ss] = ii]
      BY <2>6
    <3>2. /\ Changed(th.timers, U, ii)
          /\ U[ii].children = IF ii <= Len(th.timers) THEN th.timers[ii].children ELSE <<>>
          /\ TimerOK(U[ii], hit) /\ ParentsIn(U[ii], Len(U)) /\ U[ii].onflg
      BY <2>5, <2>7
    <3> HIDE DEF ss, cc, ii
    <3>3. ThreadOK([th EXCEPT !.timers = U, !.stackidx = ss, !.callstack = cc], limit, hit)
      BY <3>1, <3>2, ThreadChange
    <3> QED
      BY <3>3 DEF ss, cc
  <2>9. new = [th EXCEPT !.timers = U, !.stackidx = s, !.callstack = stack]
    BY <1>2, <1>5 DEF U, tm, K
  <2>10. new.handle = th.handle /\ new.prefix = th.prefix /\ new.timers = U
    <3> HIDE DEF new, stack, s
    <3> QED
      BY <1>1, <2>9 DEF Thread
  <2>11. Len(T) <= Len(U)
    BY <1>1, <2>1, <2>5
  <2> QED
    BY <2>8, <2>9, <2>10, <2>11
<1> QED
  BY <1>3, <1>4, <1>5

\* A stop leaves the thread accounted for, whatever timer it was asked for.
LEMMA StopFoundOK ==
  ASSUME NEW limit \in Nat, NEW hit, NEW th, ThreadOK(th, limit, hit),
         NEW i \in {0} \cup 2 .. Len(th.timers), NEW now \in Int
  PROVE  LET new == StopFound(th, i, now)
         IN  /\ ThreadOK(new, limit, hit)
             /\ new.handle = th.handle /\ new.prefix = th.prefix
             /\ Len(new.timers) = Len(th.timers)
<1> DEFINE T == th.timers
           new == StopFound(th, i, now)
<1>1. th \in Thread /\ T \in Seq(Timer) /\ TimersOK(T, hit) /\ Len(T) \in Nat /\ Len(T) >= 1
      /\ th.stackidx \in Nat /\ th.callstack \in [0 .. MAX_STACK - 1 -> Nat]
  BY DEF ThreadOK, Thread, TimersOK
<1>2. ASSUME i # 0, T[i].onflg PROVE i \in On(T) /\ th.stackidx >= 1
  <2>1. i \in On(T)
    BY <1>2 DEF On
  <2>2. On(T) # {} /\ IsFiniteSet(On(T)) /\ Cardinality(On(T)) \in Nat
    BY <1>1, <2>1, OnIsFinite
  <2>3. Cardinality(On(T)) # 0
    BY <2>2, FS_EmptySet
  <2> QED
    BY <1>1, <2>1, <2>2, <2>3 DEF ThreadOK
<1>3a. new = StoppedThread(th, i, now)
  BY <1>1, <1>2, StopShape
<1>3. new = IF i = 0 \/ ~(i # 0 /\ T[i].onflg) THEN th
               ELSE IF T[i].recurselvl > 0 THEN [th EXCEPT !.timers = With(T, i, StoppedAgain(T[i]))]
               ELSE [th EXCEPT !.timers = With(T, i, StoppedTimer(T[i], now)), !.stackidx = @ - 1]
  BY <1>3a DEF StoppedThread
<1>4. CASE i = 0 \/ ~(i # 0 /\ T[i].onflg)
  <2>1. new = th
    BY <1>3, <1>4
  <2> QED
    BY <2>1, <1>1
<1>5. CASE ~(i = 0 \/ ~(i # 0 /\ T[i].onflg))
  <2>1. i \in 2 .. Len(T) /\ T[i] \in Timer /\ TimerOK(T[i], hit)
        /\ ParentsIn(T[i], Len(T)) /\ i \in 1 .. Len(T) /\ T[i].onflg
    BY <1>1, <1>5, ThreadTimer DEF TimersOK
  <2>2. i \in On(T) /\ th.stackidx >= 1
    BY <1>2, <1>5
  <2> DEFINE again == T[i].recurselvl > 0
             tm == IF again THEN StoppedAgain(T[i]) ELSE StoppedTimer(T[i], now)
             U == With(T, i, tm)
             s == IF again THEN th.stackidx ELSE th.stackidx - 1
             c0 == th.callstack
  <2>3. /\ tm \in Timer /\ TimerOK(tm, hit) /\ ParentsIn(tm, Len(T))
        /\ tm.children = T[i].children
        /\ IF again THEN tm.onflg = TRUE ELSE tm.onflg = FALSE
    <3>1. CASE again
      <4>1. LET q == StoppedAgain(T[i])
            IN /\ q \in Timer /\ TimerOK(q, hit) /\ ParentsIn(q, Len(T))
               /\ q.onflg = TRUE /\ q.children = T[i].children
        BY <2>1, <3>1, StoppedAgainOK
      <4>2. tm = StoppedAgain(T[i])
        BY <3>1
      <4> HIDE DEF tm, again
      <4> QED
        BY <3>1, <4>1, <4>2
    <3>2. CASE ~again
      <4>1. LET q == StoppedTimer(T[i], now)
            IN /\ q \in Timer /\ TimerOK(q, hit) /\ ParentsIn(q, Len(T))
               /\ q.onflg = FALSE /\ q.children = T[i].children
        BY <2>1, <3>2, StoppedOK
      <4>2. tm = StoppedTimer(T[i], now)
        BY <3>2
      <4> HIDE DEF tm, again
      <4> QED
        BY <3>2, <4>1, <4>2
    <3> HIDE DEF tm, again
    <3> QED
      BY <3>1, <3>2
  <2> HIDE DEF tm
  <2>4. Changed(T, U, i) /\ Len(U) = Len(T) /\ U[i] = tm
    BY <1>1, <2>1, <2>3, WithChanges
  <2> HIDE DEF U
  <2>5. /\ U[i].children = IF i <= Len(T) THEN T[i].children ELSE <<>>
        /\ TimerOK(U[i], hit) /\ ParentsIn(U[i], Len(U))
        /\ IF again THEN U[i].onflg = TRUE ELSE U[i].onflg = FALSE
    BY <1>1, <2>1, <2>3, <2>4
  <2>6. /\ s \in Nat /\ c0 \in [0 .. MAX_STACK - 1 -> Nat] /\ s <= th.stackidx /\ c0 = th.callstack
        /\ IF again THEN s = th.stackidx ELSE s = th.stackidx - 1
    BY <1>1, <2>2
  <2> HIDE DEF s, c0, again
  <2>7. ThreadOK([th EXCEPT !.timers = U, !.stackidx = s, !.callstack = c0], limit, hit)
    BY <2>2, <2>4, <2>5, <2>6, ThreadChange
  <2>8. new = [th EXCEPT !.timers = U, !.stackidx = s, !.callstack = c0]
    <3>1. new = IF again THEN [th EXCEPT !.timers = With(T, i, StoppedAgain(T[i]))]
                ELSE [th EXCEPT !.timers = With(T, i, StoppedTimer(T[i], now)), !.stackidx = @ - 1]
      BY <1>3, <1>5 DEF again
    <3>2. new = [th EXCEPT !.timers = U, !.stackidx = s]
      <4>1. CASE again
        <5>1. U = With(T, i, StoppedAgain(T[i])) /\ s = th.stackidx
          BY <4>1 DEF U, tm, s
        <5>2. new = [th EXCEPT !.timers = U]
          BY <3>1, <4>1, <5>1
        <5> HIDE DEF new
        <5> QED
          BY <1>1, <5>1, <5>2 DEF Thread
      <4>2. CASE ~again
        BY <3>1, <4>2 DEF U, tm, s
      <4> QED
        BY <4>1, <4>2
    <3> HIDE DEF new
    <3> QED
      BY <1>1, <3>2 DEF c0, Thread
  <2>9. new.handle = th.handle /\ new.prefix = th.prefix /\ new.timers = U
    <3> HIDE DEF new
    <3> QED
      BY <1>1, <2>8 DEF Thread
  <2> QED
    BY <2>4, <2>7, <2>8, <2>9
<1> QED
  BY <1>4, <1>5

(***************************************************************************)
(* The library.                                                            *)
(***************************************************************************)
Lib == [disabled : BOOLEAN, depthlimit : Nat, prefix_nt : Seq(Int),
        nthreads : {-1, maxthreads}, th : [Threads -> Thread]]

LibOK(lib, hit) == /\ lib \in Lib
                   /\ \A t \in Threads : ThreadOK(lib.th[t], lib.depthlimit, hit)

\* A lookup finds no timer or one behind the first place.
LEMMA LookUp ==
  ASSUME NEW th \in Thread, NEW name
  PROVE  /\ getentry(th, name) \in {0} \cup 2 .. Len(th.timers)
         /\ getentryf(th, name) \in {0} \cup 2 .. Len(th.timers)
<1> DEFINE A == {i \in 2 .. Len(th.timers) :
                   Hash(th.timers[i].name) = Hash(Clip(name)) /\ th.timers[i].name = name}
           B == {i \in 2 .. Len(th.timers) :
                   /\ Hash(th.timers[i].name) = Hash(Clip(name))
                   /\ IsPrefix(Clip(name), th.timers[i].name)}
<1>1. getentry(th, name) = IF A = {} THEN 0 ELSE Min(A)
  BY DEF getentry, FirstIn
<1>2. getentryf(th, name) = IF B = {} THEN 0 ELSE Min(B)
  BY DEF getentryf, FirstIn
<1>3. A \subseteq 2 .. Len(th.timers) /\ B \subseteq 2 .. Len(th.timers)
  OBVIOUS
<1>4. th.timers \in Seq(Timer) /\ Len(th.timers) \in Nat
  BY DEF Thread
<1> HIDE DEF A, B
<1>5. A \subseteq Nat /\ B \subseteq Nat
  BY <1>3, <1>4
<1>6. /\ A # {} => Min(A) \in A
      /\ B # {} => Min(B) \in B
  BY <1>5, MinIsIn
<1> QED
  BY <1>1, <1>2, <1>3, <1>6

\* The library with a thread changed, by a call that asks for its number and
\* by one that does not
AtThread(lib, t, new) == [get_thread_num(lib) EXCEPT !.th[t] = new]
SetThread(lib, t, new) == [lib EXCEPT !.th[t] = new]

OneThread(after, lib, t, new, hit) ==
  /\ LibOK(after, hit) /\ after.depthlimit = lib.depthlimit
  /\ after.disabled = lib.disabled /\ after.prefix_nt = lib.prefix_nt
  /\ after.th = [lib.th EXCEPT ![t] = new]

\* The library with one thread changed.
LEMMA ThreadOfLib ==
  ASSUME NEW lib, NEW hit, LibOK(lib, hit), NEW t \in Threads, NEW new,
         ThreadOK(new, lib.depthlimit, hit)
  PROVE  /\ OneThread(AtThread(lib, t, new), lib, t, new, hit)
         /\ OneThread(SetThread(lib, t, new), lib, t, new, hit)
<1> SUFFICES ASSUME NEW after \in {AtThread(lib, t, new), SetThread(lib, t, new)}
             PROVE  OneThread(after, lib, t, new, hit)
  OBVIOUS
<1> DEFINE ths == [lib.th EXCEPT ![t] = new]
<1>1. lib \in Lib /\ \A u \in Threads : ThreadOK(lib.th[u], lib.depthlimit, hit)
  BY DEF LibOK
<1>2. new \in Thread
  BY DEF ThreadOK
<1>3. ths \in [Threads -> Thread] /\ \A u \in Threads : ThreadOK(ths[u], lib.depthlimit, hit)
  BY <1>1, <1>2 DEF Lib
<1>4. after = [lib EXCEPT !.nthreads = maxthreads, !.th = ths] \/ after = [lib EXCEPT !.th = ths]
  BY <1>1 DEF get_thread_num, Lib, AtThread, SetThread
<1> HIDE DEF ths
<1>5. /\ after \in Lib /\ after.th = ths /\ after.depthlimit = lib.depthlimit
      /\ after.disabled = lib.disabled /\ after.prefix_nt = lib.prefix_nt
  BY <1>1, <1>3, <1>4 DEF Lib
<1>6. LibOK(after, hit)
  BY <1>3, <1>5 DEF LibOK
<1> QED
  BY <1>5, <1>6 DEF ths, OneThread

\* A start or a stop that is only counted
LEMMA CountedOK ==
  ASSUME NEW limit \in Nat, NEW hit, NEW th, ThreadOK(th, limit, hit), NEW s \in Nat,
         \/ th.stackidx >= limit /\ s = th.stackidx + 1
         \/ th.stackidx > limit /\ s = th.stackidx - 1
  PROVE  ThreadOK([th EXCEPT !.stackidx = s], limit, hit)
<1> DEFINE new == [th EXCEPT !.stackidx = s]
<1>1. th \in Thread /\ th.timers \in Seq(Timer) /\ th.stackidx \in Nat
  BY DEF ThreadOK, Thread
<1>2. new \in Thread /\ new.timers = th.timers /\ new.stackidx = s /\ new.handle = th.handle
      /\ new.callstack = th.callstack
  BY <1>1 DEF Thread
<1>3. Cardinality(On(th.timers)) \in Nat
  BY <1>1, OnIsFinite
<1> HIDE DEF new
<1>4. StackKnown(new, limit)
  BY <1>1, <1>2 DEF StackKnown, ThreadOK
<1>5. ThreadOK(new, limit, hit)
  BY <1>1, <1>2, <1>3, <1>4 DEF ThreadOK
<1> QED
  BY <1>5 DEF new

\* Starts beyond the depth limit, and their stops, are only counted.
LEMMA CountedLibOK ==
  ASSUME NEW lib, NEW hit, LibOK(lib, hit), NEW t \in Threads
  PROVE  /\ TooDeep(lib, t) =>
              /\ LibOK(AtThread(lib, t, [lib.th[t] EXCEPT !.stackidx = @ + 1]), hit)
              /\ AtThread(lib, t, [lib.th[t] EXCEPT !.stackidx = @ + 1]).depthlimit = lib.depthlimit
         /\ WasTooDeep(lib, t) =>
              /\ LibOK(AtThread(lib, t, [lib.th[t] EXCEPT !.stackidx = @ - 1]), hit)
              /\ AtThread(lib, t, [lib.th[t] EXCEPT !.stackidx = @ - 1]).depthlimit = lib.depthlimit
<1> DEFINE th == lib.th[t]
<1>1. lib \in Lib /\ ThreadOK(th, lib.depthlimit, hit) /\ lib.depthlimit \in Nat
      /\ th.stackidx \in Nat
  BY DEF LibOK, Lib, ThreadOK, Thread
<1>2. ASSUME TooDeep(lib, t)
      PROVE  /\ LibOK(AtThread(lib, t, [th EXCEPT !.stackidx = @ + 1]), hit)
             /\ AtThread(lib, t, [th EXCEPT !.stackidx = @ + 1]).depthlimit = lib.depthlimit
  <2> DEFINE s == th.stackidx + 1
             new == [th EXCEPT !.stackidx = s]
  <2>1. s \in Nat /\ s = th.stackidx + 1 /\ th.stackidx >= lib.depthlimit
    BY <1>1, <1>2 DEF TooDeep
  <2> HIDE DEF s, th
  <2>2. ThreadOK(new, lib.depthlimit, hit)
    BY <1>1, <2>1, CountedOK
  <2> HIDE DEF new
  <2>3. OneThread(AtThread(lib, t, new), lib, t, new, hit)
    BY <2>2, ThreadOfLib
  <2> QED
    BY <2>3 DEF new, s, OneThread
<1>3. ASSUME WasTooDeep(lib, t)
      PROVE  /\ LibOK(AtThread(lib, t, [th EXCEPT !.stackidx = @ - 1]), hit)
             /\ AtThread(lib, t, [th EXCEPT !.stackidx = @ - 1]).depthlimit = lib.depthlimit
  <2> DEFINE s == th.stackidx - 1
             new == [th EXCEPT !.stackidx = s]
  <2>1. s \in Nat /\ s = th.stackidx - 1 /\ th.stackidx > lib.depthlimit
    BY <1>1, <1>3 DEF WasTooDeep
  <2> HIDE DEF s, th
  <2>2. ThreadOK(new, lib.depthlimit, hit)
    BY <1>1, <2>1, CountedOK
  <2> HIDE DEF new
  <2>3. OneThread(AtThread(lib, t, new), lib, t, new, hit)
    BY <2>2, ThreadOfLib
  <2> QED
    BY <2>3 DEF new, s, OneThread
<1> QED
  BY <1>2, <1>3

\* A handle may hold the place of any timer.
LEMMA HandleOK ==
  ASSUME NEW limit, NEW hit, NEW th, ThreadOK(th, limit, hit), NEW name \in Names,
         NEW i \in {0} \cup 2 .. Len(th.timers)
  PROVE  ThreadOK([th EXCEPT !.handle[name] = i], limit, hit)
<1> DEFINE new == [th EXCEPT !.handle[name] = i]
           hs == [th.handle EXCEPT ![name] = i]
<1>1. th \in Thread /\ i \in Nat /\ \A n \in Names : th.handle[n] \in {0} \cup 2 .. Len(th.timers)
  BY DEF ThreadOK, Thread
<1>2. hs \in [Names -> Nat] /\ \A n \in Names : hs[n] \in {0} \cup 2 .. Len(th.timers)
  BY <1>1 DEF Thread
<1> HIDE DEF hs
<1>3. new = [th EXCEPT !.handle = hs]
  BY DEF hs
<1>4. new \in Thread /\ new.timers = th.timers /\ new.stackidx = th.stackidx /\ new.handle = hs
      /\ new.callstack = th.callstack
  BY <1>1, <1>2, <1>3 DEF Thread
<1> HIDE DEF new
<1>5. ThreadOK(new, limit, hit)
  BY <1>2, <1>4 DEF ThreadOK, StackKnown
<1> QED
  BY <1>5 DEF new

(***************************************************************************)
(* The calls, with the place that the lookup found.                        *)
(***************************************************************************)
StartedLib(lib, t, found, full, now) ==
  IF lib.disabled THEN lib
  ELSE IF TooDeep(lib, t) THEN AtThread(lib, t, [lib.th[t] EXCEPT !.stackidx = @ + 1])
  ELSE AtThread(lib, t, StartFound(lib.th[t], found, full, now))

StoppedLib(lib, t, i, now) ==
  IF lib.disabled THEN lib
  ELSE IF WasTooDeep(lib, t) THEN AtThread(lib, t, [lib.th[t] EXCEPT !.stackidx = @ - 1])
  ELSE AtThread(lib, t, StopFound(lib.th[t], i, now))

\* GPTLstart, GPTLstartf, GPTLstop and GPTLstopf, by what their lookup found.
LEMMA PlainCalls ==
  ASSUME NEW lib \in Lib, NEW t \in Threads, NEW name, NEW now
  PROVE  LET full == FullName(lib, t, name)
             th == lib.th[t]
         IN  /\ GPTLstart(lib, t, name, now) = StartedLib(lib, t, getentry(th, full), full, now)
             /\ GPTLstartf(lib, t, name, now) = StartedLib(lib, t, getentryf(th, full), full, now)
             /\ GPTLstop(lib, t, name, now) = StoppedLib(lib, t, getentry(th, full), now)
             /\ GPTLstopf(lib, t, name, now) = StoppedLib(lib, t, getentryf(th, full), now)
<1>1. get_thread_num(lib).th = lib.th /\ t \in DOMAIN lib.th
  BY DEF get_thread_num, Lib
<1> QED
  BY <1>1 DEF GPTLstart, GPTLstartf, GPTLstop, GPTLstopf, StartedLib, StoppedLib, AtThread

\* A start leaves the library accounted for.
LEMMA StartedLibOK ==
  ASSUME NEW lib, NEW hit, LibOK(lib, hit), NEW t \in Threads,
         NEW found \in {0} \cup 2 .. Len(lib.th[t].timers), NEW full \in Seq(Int), NEW now \in Int
  PROVE  LibOK(StartedLib(lib, t, found, full, now), hit)
         /\ StartedLib(lib, t, found, full, now).depthlimit = lib.depthlimit
<1> DEFINE th == lib.th[t]
<1>1. lib \in Lib /\ ThreadOK(th, lib.depthlimit, hit) /\ lib.depthlimit \in Nat /\ th \in Thread
      /\ th.stackidx \in Nat
  BY DEF LibOK, Lib, ThreadOK, Thread
<1>2. CASE lib.disabled
  BY <1>2 DEF StartedLib
<1>3. CASE ~lib.disabled /\ TooDeep(lib, t)
  <2>1. StartedLib(lib, t, found, full, now) = AtThread(lib, t, [th EXCEPT !.stackidx = @ + 1])
    BY <1>3 DEF StartedLib
  <2> QED
    BY <1>3, <2>1, CountedLibOK
<1>4. CASE ~lib.disabled /\ ~TooDeep(lib, t)
  <2> DEFINE new == StartFound(th, found, full, now)
  <2>1. th.stackidx < lib.depthlimit
    BY <1>1, <1>4 DEF TooDeep
  <2>2. ThreadOK(new, lib.depthlimit, hit)
    <3> HIDE DEF th
    <3>1. found \in {0} \cup 2 .. Len(th.timers)
      BY DEF th
    <3> QED
      BY <1>1, <2>1, <3>1, StartFoundOK
  <2>3. StartedLib(lib, t, found, full, now) = AtThread(lib, t, new)
    BY <1>4 DEF StartedLib
  <2> HIDE DEF new, th
  <2>4. OneThread(AtThread(lib, t, new), lib, t, new, hit)
    BY <2>2, ThreadOfLib
  <2> QED
    BY <2>3, <2>4 DEF OneThread
<1> QED
  BY <1>2, <1>3, <1>4

\* A stop leaves the library accounted for.
LEMMA StoppedLibOK ==
  ASSUME NEW lib, NEW hit, LibOK(lib, hit), NEW t \in Threads,
         NEW i \in {0} \cup 2 .. Len(lib.th[t].timers), NEW now \in Int
  PROVE  LibOK(StoppedLib(lib, t, i, now), hit)
         /\ StoppedLib(lib, t, i, now).depthlimit = lib.depthlimit
<1> DEFINE th == lib.th[t]
<1>1. lib \in Lib /\ ThreadOK(th, lib.depthlimit, hit) /\ lib.depthlimit \in Nat /\ th \in Thread
      /\ th.stackidx \in Nat
  BY DEF LibOK, Lib, ThreadOK, Thread
<1>2. CASE lib.disabled
  BY <1>2 DEF StoppedLib
<1>3. CASE ~lib.disabled /\ WasTooDeep(lib, t)
  <2>1. StoppedLib(lib, t, i, now) = AtThread(lib, t, [th EXCEPT !.stackidx = @ - 1])
    BY <1>3 DEF StoppedLib
  <2> QED
    BY <1>3, <2>1, CountedLibOK
<1>4. CASE ~lib.disabled /\ ~WasTooDeep(lib, t)
  <2> DEFINE new == StopFound(th, i, now)
  <2>2. ThreadOK(new, lib.depthlimit, hit)
    <3> HIDE DEF th
    <3>1. i \in {0} \cup 2 .. Len(th.timers)
      BY DEF th
    <3> QED
      BY <1>1, <3>1, StopFoundOK
  <2>3. StoppedLib(lib, t, i, now) = AtThread(lib, t, new)
    BY <1>4 DEF StoppedLib
  <2> HIDE DEF new, th
  <2>4. OneThread(AtThread(lib, t, new), lib, t, new, hit)
    BY <2>2, ThreadOfLib
  <2> QED
    BY <2>3, <2>4 DEF OneThread
<1> QED
  BY <1>2, <1>3, <1>4

\* The looked up name is a name.
LEMMA FullNameIs ==
  ASSUME NEW lib \in Lib, NEW t \in Threads, NEW name \in Seq(Int)
  PROVE  FullName(lib, t, name) \in Seq(Int)
<1>1. lib.prefix_nt \in Seq(Int) /\ lib.th[t].prefix \in Seq(Int)
  BY DEF Lib, Thread
<1>2. lib.prefix_nt \o lib.th[t].prefix \o name \in Seq(Int)
  BY <1>1
<1>3. add_prefix(lib, t, name) \in Seq(Int)
  BY <1>2, ClipName DEF add_prefix
<1> QED
  BY <1>3 DEF FullName

\* The library after a call
StaysOK(new, lib, hit) == LibOK(new, hit) /\ new.depthlimit = lib.depthlimit

\* The calls without a handle
LEMMA PlainCallsOK ==
  ASSUME NEW lib, NEW hit, LibOK(lib, hit), NEW t \in Threads, NEW name \in Seq(Int), NEW now \in Int
  PROVE  /\ StaysOK(GPTLstart(lib, t, name, now), lib, hit)
         /\ StaysOK(GPTLstartf(lib, t, name, now), lib, hit)
         /\ StaysOK(GPTLstop(lib, t, name, now), lib, hit)
         /\ StaysOK(GPTLstopf(lib, t, name, now), lib, hit)
<1> DEFINE full == FullName(lib, t, name)
           th == lib.th[t]
<1>1. lib \in Lib /\ th \in Thread
  BY DEF LibOK, Lib
<1>2. full \in Seq(Int)
  BY <1>1, FullNameIs
<1>3. /\ getentry(th, full) \in {0} \cup 2 .. Len(th.timers)
      /\ getentryf(th, full) \in {0} \cup 2 .. Len(th.timers)
  BY <1>1, LookUp
<1>4. /\ GPTLstart(lib, t, name, now) = StartedLib(lib, t, getentry(th, full), full, now)
      /\ GPTLstartf(lib, t, name, now) = StartedLib(lib, t, getentryf(th, full), full, now)
      /\ GPTLstop(lib, t, name, now) = StoppedLib(lib, t, getentry(th, full), now)
      /\ GPTLstopf(lib, t, name, now) = StoppedLib(lib, t, getentryf(th, full), now)
  BY <1>1, PlainCalls
<1> DEFINE e == getentry(th, full)
           ef == getentryf(th, full)
<1>5. e \in {0} \cup 2 .. Len(lib.th[t].timers) /\ ef \in {0} \cup 2 .. Len(lib.th[t].timers)
  BY <1>3
<1> HIDE DEF e, ef, full
<1>6. /\ LibOK(StartedLib(lib, t, e, full, now), hit)
      /\ StartedLib(lib, t, e, full, now).depthlimit = lib.depthlimit
      /\ LibOK(StartedLib(lib, t, ef, full, now), hit)
      /\ StartedLib(lib, t, ef, full, now).depthlimit = lib.depthlimit
  BY <1>2, <1>5, StartedLibOK
<1>7. /\ LibOK(StoppedLib(lib, t, e, now), hit)
      /\ StoppedLib(lib, t, e, now).depthlimit = lib.depthlimit
      /\ LibOK(StoppedLib(lib, t, ef, now), hit)
      /\ StoppedLib(lib, t, ef, now).depthlimit = lib.depthlimit
  BY <1>5, StoppedLibOK
<1> QED
  BY <1>4, <1>6, <1>7 DEF e, ef, StaysOK

(***************************************************************************)
(* The calls with a handle: the handle stands for the lookup, and a prefix *)
(* drops it.                                                               *)
(***************************************************************************)
Handled(th, name, byName) == IF th.handle[name] # 0 THEN th.handle[name] ELSE byName

HandleDropped(lib, t, name) == SetThread(lib, t, [lib.th[t] EXCEPT !.handle[name] = 0])

StartPlace(th, new, found) ==
  IF found # 0 THEN found
  ELSE IF Len(new.timers) > Len(th.timers) THEN Len(new.timers) ELSE 0

StartKept(th, new, name, i) ==
  IF new.stackidx > MAX_STACK - 1 THEN new ELSE KeepHandle(th, new, name, i)

StartedHandle(lib, t, found, name, now) ==
  IF lib.disabled THEN lib
  ELSE IF TooDeep(lib, t) THEN AtThread(lib, t, [lib.th[t] EXCEPT !.stackidx = @ + 1])
  ELSE LET new == StartFound(lib.th[t], found, name, now)
       IN  AtThread(lib, t, StartKept(lib.th[t], new, name, StartPlace(lib.th[t], new, found)))

StopKept(th, new, name, i) ==
  IF new.stackidx < th.stackidx /\ th.handle[name] = 0
  THEN [new EXCEPT !.handle[name] = i] ELSE new

StoppedHandle(lib, t, i, name, now) ==
  IF lib.disabled THEN lib
  ELSE IF WasTooDeep(lib, t) THEN AtThread(lib, t, [lib.th[t] EXCEPT !.stackidx = @ - 1])
  ELSE LET new == StopFound(lib.th[t], i, now)
       IN  AtThread(lib, t, StopKept(lib.th[t], new, name, i))

\* The calls with a handle, by what the handle or the lookup gives; a prefix drops
\* the handle and makes the call without it.
LEMMA HandleCalls ==
  ASSUME NEW lib \in Lib, NEW t \in Threads, NEW name, NEW now
  PROVE  LET th == lib.th[t]
             dropped == HandleDropped(lib, t, name)
         IN  /\ GPTLstart_handle(lib, t, name, now) =
                  IF ~lib.disabled /\ ~TooDeep(lib, t) /\ Prefixed(lib, t)
                  THEN GPTLstart(dropped, t, name, now)
                  ELSE StartedHandle(lib, t, Handled(th, name, getentry(th, name)), name, now)
             /\ GPTLstartf_handle(lib, t, name, now) =
                  IF ~lib.disabled /\ ~TooDeep(lib, t) /\ Prefixed(lib, t)
                  THEN GPTLstartf(dropped, t, name, now)
                  ELSE StartedHandle(lib, t, Handled(th, name, getentryf(th, name)), name, now)
             /\ GPTLstop_handle(lib, t, name, now) =
                  IF ~lib.disabled /\ Prefixed(lib, t) THEN GPTLstop(dropped, t, name, now)
                  ELSE StoppedHandle(lib, t, Handled(th, name, getentry(th, name)), name, now)
             /\ GPTLstopf_handle(lib, t, name, now) =
                  IF ~lib.disabled /\ Prefixed(lib, t) THEN GPTLstopf(dropped, t, name, now)
                  ELSE StoppedHandle(lib, t, Handled(th, name, getentryf(th, name)), name, now)
<1>1. get_thread_num(lib).th = lib.th /\ t \in DOMAIN lib.th
  BY DEF get_thread_num, Lib
<1>2. HandleDropped(lib, t, name) = [lib EXCEPT !.th[t].handle[name] = 0]
  BY <1>1 DEF HandleDropped, SetThread
<1>3. GPTLstart_handle(lib, t, name, now) =
        IF ~lib.disabled /\ ~TooDeep(lib, t) /\ Prefixed(lib, t)
        THEN GPTLstart(HandleDropped(lib, t, name), t, name, now)
        ELSE StartedHandle(lib, t, Handled(lib.th[t], name, getentry(lib.th[t], name)), name, now)
  BY <1>1, <1>2 DEF GPTLstart_handle, StartHandle, StartedHandle, StartKept, StartPlace, Handled, AtThread
<1>4. GPTLstartf_handle(lib, t, name, now) =
        IF ~lib.disabled /\ ~TooDeep(lib, t) /\ Prefixed(lib, t)
        THEN GPTLstartf(HandleDropped(lib, t, name), t, name, now)
        ELSE StartedHandle(lib, t, Handled(lib.th[t], name, getentryf(lib.th[t], name)), name, now)
  BY <1>1, <1>2 DEF GPTLstartf_handle, StartHandle, StartedHandle, StartKept, StartPlace, Handled, AtThread
<1>5. GPTLstop_handle(lib, t, name, now) =
        IF ~lib.disabled /\ Prefixed(lib, t) THEN GPTLstop(HandleDropped(lib, t, name), t, name, now)
        ELSE StoppedHandle(lib, t, Handled(lib.th[t], name, getentry(lib.th[t], name)), name, now)
  BY <1>1, <1>2 DEF GPTLstop_handle, StopHandle, StoppedHandle, StopKept, Handled, AtThread
<1>6. GPTLstopf_handle(lib, t, name, now) =
        IF ~lib.disabled /\ Prefixed(lib, t) THEN GPTLstopf(HandleDropped(lib, t, name), t, name, now)
        ELSE StoppedHandle(lib, t, Handled(lib.th[t], name, getentryf(lib.th[t], name)), name, now)
  BY <1>1, <1>2 DEF GPTLstopf_handle, StopHandle, StoppedHandle, StopKept, Handled, AtThread
<1> QED
  BY <1>3, <1>4, <1>5, <1>6

\* Dropping a handle leaves the library accounted for.
LEMMA DroppedOK ==
  ASSUME NEW lib, NEW hit, LibOK(lib, hit), NEW t \in Threads, NEW name \in Names
  PROVE  LibOK(HandleDropped(lib, t, name), hit)
         /\ HandleDropped(lib, t, name).depthlimit = lib.depthlimit
<1> DEFINE new == [lib.th[t] EXCEPT !.handle[name] = 0]
<1>1. ThreadOK(lib.th[t], lib.depthlimit, hit)
  BY DEF LibOK
<1>2. ThreadOK(new, lib.depthlimit, hit)
  BY <1>1, HandleOK
<1> HIDE DEF new
<1>3. OneThread(SetThread(lib, t, new), lib, t, new, hit)
  BY <1>2, ThreadOfLib
<1> QED
  BY <1>3 DEF OneThread, HandleDropped, new

\* A start with a handle leaves the library accounted for.
LEMMA StartedHandleOK ==
  ASSUME NEW lib, NEW hit, LibOK(lib, hit), NEW t \in Threads,
         NEW found \in {0} \cup 2 .. Len(lib.th[t].timers), NEW name \in Names, name \in Seq(Int),
         NEW now \in Int
  PROVE  LibOK(StartedHandle(lib, t, found, name, now), hit)
         /\ StartedHandle(lib, t, found, name, now).depthlimit = lib.depthlimit
<1> DEFINE th == lib.th[t]
<1>1. lib \in Lib /\ ThreadOK(th, lib.depthlimit, hit) /\ lib.depthlimit \in Nat /\ th \in Thread
      /\ th.stackidx \in Nat /\ Len(th.timers) \in Nat /\ Len(th.timers) >= 1
  BY DEF LibOK, Lib, ThreadOK, Thread, TimersOK
<1>2. CASE lib.disabled
  BY <1>2 DEF StartedHandle
<1>3. CASE ~lib.disabled /\ TooDeep(lib, t)
  <2>1. StartedHandle(lib, t, found, name, now) = AtThread(lib, t, [th EXCEPT !.stackidx = @ + 1])
    BY <1>3 DEF StartedHandle
  <2> QED
    BY <1>3, <2>1, CountedLibOK
<1>4. CASE ~lib.disabled /\ ~TooDeep(lib, t)
  <2> DEFINE new == StartFound(th, found, name, now)
             i == StartPlace(th, new, found)
             kept == StartKept(th, new, name, i)
  <2>1. th.stackidx < lib.depthlimit /\ found \in {0} \cup 2 .. Len(th.timers)
    BY <1>1, <1>4 DEF TooDeep
  <2>2. StartedHandle(lib, t, found, name, now) = AtThread(lib, t, kept)
    BY <1>4 DEF StartedHandle
  <2> HIDE DEF th
  <2>3. ThreadOK(new, lib.depthlimit, hit) /\ Len(th.timers) <= Len(new.timers)
    BY <1>1, <2>1, StartFoundOK
  <2> HIDE DEF new
  <2>4. new.timers \in Seq(Timer) /\ Len(new.timers) \in Nat
    BY <2>3 DEF ThreadOK, Thread
  <2>5. i \in {0} \cup 2 .. Len(new.timers)
    BY <1>1, <2>1, <2>3, <2>4 DEF StartPlace
  <2> HIDE DEF i
  <2>6. ThreadOK([new EXCEPT !.handle[name] = i], lib.depthlimit, hit)
    BY <2>3, <2>5, HandleOK
  <2>7. ThreadOK(kept, lib.depthlimit, hit)
    BY <2>3, <2>6 DEF StartKept, KeepHandle
  <2> HIDE DEF kept
  <2>8. OneThread(AtThread(lib, t, kept), lib, t, kept, hit)
    BY <2>7, ThreadOfLib
  <2> QED
    BY <2>2, <2>8 DEF OneThread
<1> QED
  BY <1>2, <1>3, <1>4

\* A stop with a handle leaves the library accounted for.
LEMMA StoppedHandleOK ==
  ASSUME NEW lib, NEW hit, LibOK(lib, hit), NEW t \in Threads,
         NEW i \in {0} \cup 2 .. Len(lib.th[t].timers), NEW name \in Names, NEW now \in Int
  PROVE  LibOK(StoppedHandle(lib, t, i, name, now), hit)
         /\ StoppedHandle(lib, t, i, name, now).depthlimit = lib.depthlimit
<1> DEFINE th == lib.th[t]
<1>1. lib \in Lib /\ ThreadOK(th, lib.depthlimit, hit) /\ lib.depthlimit \in Nat
  BY DEF LibOK, Lib
<1>2. CASE lib.disabled
  BY <1>2 DEF StoppedHandle
<1>3. CASE ~lib.disabled /\ WasTooDeep(lib, t)
  <2>1. StoppedHandle(lib, t, i, name, now) = AtThread(lib, t, [th EXCEPT !.stackidx = @ - 1])
    BY <1>3 DEF StoppedHandle
  <2> QED
    BY <1>3, <2>1, CountedLibOK
<1>4. CASE ~lib.disabled /\ ~WasTooDeep(lib, t)
  <2> DEFINE new == StopFound(th, i, now)
             kept == StopKept(th, new, name, i)
  <2>1. i \in {0} \cup 2 .. Len(th.timers)
    OBVIOUS
  <2>2. StoppedHandle(lib, t, i, name, now) = AtThread(lib, t, kept)
    BY <1>4 DEF StoppedHandle
  <2> HIDE DEF th
  <2>3. ThreadOK(new, lib.depthlimit, hit) /\ Len(th.timers) = Len(new.timers)
    BY <1>1, <2>1, StopFoundOK
  <2> HIDE DEF new
  <2>4. i \in {0} \cup 2 .. Len(new.timers)
    BY <2>1, <2>3
  <2>5. ThreadOK([new EXCEPT !.handle[name] = i], lib.depthlimit, hit)
    BY <2>3, <2>4, HandleOK
  <2>6. ThreadOK(kept, lib.depthlimit, hit)
    BY <2>3, <2>5 DEF StopKept
  <2> HIDE DEF kept
  <2>7. OneThread(AtThread(lib, t, kept), lib, t, kept, hit)
    BY <2>6, ThreadOfLib
  <2> QED
    BY <2>2, <2>7 DEF OneThread
<1> QED
  BY <1>2, <1>3, <1>4

\* The calls with a handle
LEMMA HandleCallsOK ==
  ASSUME NEW lib, NEW hit, LibOK(lib, hit), NEW t \in Threads, NEW name \in Names, name \in Seq(Int),
         NEW now \in Int
  PROVE  /\ StaysOK(GPTLstart_handle(lib, t, name, now), lib, hit)
         /\ StaysOK(GPTLstartf_handle(lib, t, name, now), lib, hit)
         /\ StaysOK(GPTLstop_handle(lib, t, name, now), lib, hit)
         /\ StaysOK(GPTLstopf_handle(lib, t, name, now), lib, hit)
<1> DEFINE th == lib.th[t]
           e == Handled(th, name, getentry(th, name))
           ef == Handled(th, name, getentryf(th, name))
           dropped == HandleDropped(lib, t, name)
<1>1. lib \in Lib /\ ThreadOK(th, lib.depthlimit, hit) /\ th \in Thread
  BY DEF LibOK, Lib
<1>2. th.handle[name] \in {0} \cup 2 .. Len(th.timers)
  BY <1>1 DEF ThreadOK
<1>3. e \in {0} \cup 2 .. Len(lib.th[t].timers) /\ ef \in {0} \cup 2 .. Len(lib.th[t].timers)
  BY <1>1, <1>2, LookUp DEF Handled
<1>4. LibOK(dropped, hit) /\ dropped.depthlimit = lib.depthlimit
  BY DroppedOK
<1>5. /\ GPTLstart_handle(lib, t, name, now)
           \in {GPTLstart(dropped, t, name, now), StartedHandle(lib, t, e, name, now)}
      /\ GPTLstartf_handle(lib, t, name, now)
           \in {GPTLstartf(dropped, t, name, now), StartedHandle(lib, t, ef, name, now)}
      /\ GPTLstop_handle(lib, t, name, now)
           \in {GPTLstop(dropped, t, name, now), StoppedHandle(lib, t, e, name, now)}
      /\ GPTLstopf_handle(lib, t, name, now)
           \in {GPTLstopf(dropped, t, name, now), StoppedHandle(lib, t, ef, name, now)}
  BY <1>1, HandleCalls
<1> HIDE DEF e, ef, dropped
<1>6. /\ StaysOK(GPTLstart(dropped, t, name, now), dropped, hit)
      /\ StaysOK(GPTLstartf(dropped, t, name, now), dropped, hit)
      /\ StaysOK(GPTLstop(dropped, t, name, now), dropped, hit)
      /\ StaysOK(GPTLstopf(dropped, t, name, now), dropped, hit)
  BY <1>4, PlainCallsOK
<1>7. StaysOK(StartedHandle(lib, t, e, name, now), lib, hit)
      /\ StaysOK(StartedHandle(lib, t, ef, name, now), lib, hit)
  BY <1>3, StartedHandleOK DEF StaysOK
<1>8. StaysOK(StoppedHandle(lib, t, e, name, now), lib, hit)
      /\ StaysOK(StoppedHandle(lib, t, ef, name, now), lib, hit)
  BY <1>3, StoppedHandleOK DEF StaysOK
<1>9. ASSUME NEW new, StaysOK(new, dropped, hit) PROVE StaysOK(new, lib, hit)
  BY <1>4, <1>9 DEF StaysOK
<1> QED
  BY <1>5, <1>6, <1>7, <1>8, <1>9

(***************************************************************************)
(* GPTLstartstop_vals: the calls added to a timer change its numbers only. *)
(***************************************************************************)
SameRun(tm, new) ==
  /\ new \in Timer
  /\ new.name = tm.name /\ new.onflg = tm.onflg /\ new.recurselvl = tm.recurselvl
  /\ new.nrecurse = tm.nrecurse /\ new.parent = tm.parent /\ new.norphan = tm.norphan
  /\ new.children = tm.children

\* A timer with other numbers runs and is linked as before.
LEMMA NumbersAre ==
  ASSUME NEW tm \in Timer, NEW new,
         new = [tm EXCEPT !.count = new.count, !.accum = new.accum, !.latest = new.latest,
                          !.max = new.max, !.min = new.min, !.prev_min = new.prev_min,
                          !.latest_is_min = new.latest_is_min],
         new.count \in Nat, new.accum \in Int, new.latest \in Int, new.max \in Int,
         new.min \in Int, new.prev_min \in Int, new.latest_is_min \in BOOLEAN
  PROVE  SameRun(tm, new) /\ new.last = tm.last
<1>1. new \in Timer
  BY DEF Timer
<1>2. /\ new.name = tm.name /\ new.onflg = tm.onflg /\ new.recurselvl = tm.recurselvl
      /\ new.nrecurse = tm.nrecurse /\ new.parent = tm.parent /\ new.norphan = tm.norphan
      /\ new.children = tm.children /\ new.last = tm.last
  BY DEF Timer
<1> QED
  BY <1>1, <1>2 DEF SameRun

\* Added adds the time.
LEMMA AddedIs ==
  ASSUME NEW tm \in Timer, NEW dt \in Nat, NEW n \in {0, 1}
  PROVE  /\ SameRun(tm, Added(tm, dt, n))
         /\ Added(tm, dt, n).accum = tm.accum + dt
         /\ Added(tm, dt, n).count = tm.count /\ Added(tm, dt, n).last = tm.last
<1> DEFINE latest == IF n > 0 /\ tm.count > n THEN dt ELSE tm.latest + dt
           only   == tm.count <= 1 \/ n = tm.count
           less   == n > 0 /\ latest < tm.min
           undo   == n = 0 /\ tm.latest_is_min
           mx == IF latest > tm.max THEN latest ELSE tm.max
           pm == IF ~only /\ less THEN tm.min ELSE tm.prev_min
           mn == IF only \/ less THEN latest
                 ELSE IF undo THEN (IF tm.prev_min > latest THEN latest ELSE tm.prev_min)
                 ELSE tm.min
           lm == IF only \/ less THEN TRUE
                 ELSE IF undo THEN tm.prev_min > latest
                 ELSE IF n > 0 THEN FALSE ELSE tm.latest_is_min
           accum == tm.accum + dt
           count == tm.count
<1>1. /\ tm.latest \in Int /\ tm.max \in Int /\ tm.min \in Int /\ tm.prev_min \in Int
      /\ tm.latest_is_min \in BOOLEAN /\ accum \in Int /\ count \in Nat
  BY DEF Timer
<1>2. latest \in Int
  BY <1>1
<1>3. Added(tm, dt, n) = [tm EXCEPT !.accum = accum, !.latest = latest, !.max = mx,
                          !.prev_min = pm, !.min = mn, !.latest_is_min = lm]
  BY DEF Added
<1> HIDE DEF latest
<1>4. mx \in Int /\ pm \in Int /\ mn \in Int
  BY <1>1, <1>2
<1>5. lm \in BOOLEAN
  <2>1. (tm.prev_min > latest) \in BOOLEAN
    BY <1>1, <1>2
  <2> QED
    BY <1>1, <2>1
<1> HIDE DEF mx, pm, mn, lm, accum, count
<1> DEFINE new == Added(tm, dt, n)
<1>6. /\ new.count = count /\ new.accum = accum /\ new.latest = latest /\ new.max = mx
      /\ new.min = mn /\ new.prev_min = pm /\ new.latest_is_min = lm
  BY <1>3 DEF Timer, count
<1>7. new = [tm EXCEPT !.count = new.count, !.accum = new.accum, !.latest = new.latest,
                       !.max = new.max, !.min = new.min, !.prev_min = new.prev_min,
                       !.latest_is_min = new.latest_is_min]
  BY <1>3, <1>6 DEF Timer, count
<1> HIDE DEF new
<1>8. SameRun(tm, new) /\ new.last = tm.last
  BY <1>1, <1>2, <1>4, <1>5, <1>6, <1>7, NumbersAre
<1> QED
  BY <1>6, <1>8 DEF accum, count, new

\* Blank takes the time of the start and stop just made out again.
LEMMA BlankIs ==
  ASSUME NEW tm \in Timer, NEW dt \in Nat, NEW n \in {0, 1}
  PROVE  SameRun(tm, Blank(tm, dt, n)) /\ Blank(tm, dt, n).accum = tm.accum - tm.latest
         /\ Blank(tm, dt, n).count = n /\ Blank(tm, dt, n).last = tm.last
<1> DEFINE accum == tm.accum - tm.latest
<1>1. accum \in Int /\ n \in Nat /\ dt \in Int /\ 0 \in Int /\ TRUE \in BOOLEAN
  BY DEF Timer
<1>2. FLT_MAX \in Int
  BY GptlAssumption
<1> DEFINE new == Blank(tm, dt, n)
<1>3. /\ new.count = n /\ new.accum = accum /\ new.latest = 0 /\ new.max = dt
      /\ new.min = dt /\ new.prev_min = FLT_MAX /\ new.latest_is_min \in BOOLEAN
  BY DEF Blank, Timer
<1>4. /\ new.name = tm.name /\ new.onflg = tm.onflg /\ new.recurselvl = tm.recurselvl
      /\ new.nrecurse = tm.nrecurse /\ new.parent = tm.parent /\ new.norphan = tm.norphan
      /\ new.children = tm.children /\ new.last = tm.last
  BY DEF Blank, Timer
<1>5. new \in Timer
  BY <1>1, <1>2 DEF Blank, Timer
<1> QED
  BY <1>3, <1>4, <1>5 DEF SameRun

\* The counts were reset or added from outside
Disturbed(hit) == hit = TRUE

\* A thread with other numbers in one of its timers
LEMMA NumbersChange ==
  ASSUME NEW limit \in Nat, NEW th, NEW hit, Disturbed(hit), ThreadOK(th, limit, hit), NEW i \in 2 .. Len(th.timers),
         NEW tm, SameRun(th.timers[i], tm)
  PROVE  ThreadOK([th EXCEPT !.timers = With(th.timers, i, tm)], limit, hit)
<1> DEFINE T == th.timers
           U == With(T, i, tm)
           s == th.stackidx
           stack == th.callstack
<1>0. th \in Thread /\ TimersOK(T, hit) /\ tm \in Timer
  BY DEF ThreadOK, SameRun
<1>1. th \in Thread /\ T \in Seq(Timer) /\ s \in Nat /\ stack \in [0 .. MAX_STACK - 1 -> Nat]
      /\ tm \in Timer /\ TimersOK(T, hit) /\ Len(T) \in Nat
  BY <1>0 DEF Thread
<1>2. i \in 2 .. Len(T) /\ SameRun(T[i], tm) /\ i \in 1 .. Len(T)
  BY <1>1
<1>3. Changed(T, U, i) /\ Len(U) = Len(T) /\ U[i] = tm
  BY <1>1, <1>2, WithChanges
<1>4. TimerOK(T[i], hit) /\ ParentsIn(T[i], Len(T))
  BY <1>1, <1>2 DEF TimersOK
<1>5. TimerOK(tm, hit) /\ ParentsIn(tm, Len(U))
  BY <1>2, <1>3, <1>4 DEF TimerOK, ParentsIn, SameRun, Disturbed
<1>6. tm.children = (IF i <= Len(T) THEN T[i].children ELSE <<>>)
  BY <1>1, <1>2 DEF SameRun
<1>7. tm.onflg => i \in On(T)
  BY <1>2 DEF SameRun, On
<1>7a. /\ U[i].children = (IF i <= Len(T) THEN T[i].children ELSE <<>>)
       /\ IF U[i].onflg THEN i \in On(T) /\ s = th.stackidx ELSE s = th.stackidx
       /\ TimerOK(U[i], hit) /\ ParentsIn(U[i], Len(U))
       /\ s <= th.stackidx /\ stack = th.callstack
  BY <1>1, <1>3, <1>5, <1>6, <1>7
<1> HIDE DEF U, s, stack
<1>8. ThreadOK([th EXCEPT !.timers = U, !.stackidx = s, !.callstack = stack], limit, hit)
  BY <1>1, <1>3, <1>7a, ThreadChange
<1>9. [th EXCEPT !.timers = U, !.stackidx = s, !.callstack = stack] = [th EXCEPT !.timers = U]
  BY <1>1 DEF Thread, s, stack
<1> QED
  BY <1>8, <1>9 DEF U

AddedLib(lib, t, found, made, place, now, dt, n) ==
  LET T == lib.th[t].timers
      U == made.th[t].timers
  IN  IF lib.disabled THEN lib
      ELSE IF found # 0
      THEN AtThread(lib, t, [lib.th[t] EXCEPT !.timers = With(T, found, AddedCall(T[found], now, dt, n))])
      ELSE IF place = 0 THEN made
      ELSE SetThread(made, t, [made.th[t] EXCEPT !.timers =
                                 With(U, place, Added(Blank(U[place], dt, n), dt, n))])

\* GPTLstartstop_vals and GPTLstartstop_valsf, by what their lookups found before
\* and after the start and stop they make.
LEMMA AddCalls ==
  ASSUME NEW lib \in Lib, NEW t \in Threads, NEW name, NEW now, NEW dt, NEW n,
         NEW made, NEW madef,
         made = GPTLstop(GPTLstart(lib, t, name, now), t, name, now), made \in Lib,
         madef = GPTLstopf(GPTLstartf(lib, t, name, now), t, name, now), madef \in Lib
  PROVE  LET full == FullName(lib, t, name)
         IN  /\ GPTLstartstop_vals(lib, t, name, now, dt, n) =
                  AddedLib(lib, t, getentry(lib.th[t], full), made, getentry(made.th[t], full),
                           now, dt, n)
             /\ GPTLstartstop_valsf(lib, t, name, now, dt, n) =
                  AddedLib(lib, t, getentryf(lib.th[t], full), madef, getentryf(madef.th[t], full),
                           now, dt, n)
<1> DEFINE full == FullName(lib, t, name)
           e == getentry(lib.th[t], full)
           p == getentry(made.th[t], full)
           ef == getentryf(lib.th[t], full)
           pf == getentryf(madef.th[t], full)
<1>1. /\ get_thread_num(lib).th = lib.th /\ t \in DOMAIN lib.th
      /\ t \in DOMAIN made.th /\ t \in DOMAIN madef.th
  BY DEF get_thread_num, Lib
<1>2. GPTLstartstop_vals(lib, t, name, now, dt, n) = AddedLib(lib, t, e, made, p, now, dt, n)
  <2>1. CASE lib.disabled
    BY <2>1 DEF GPTLstartstop_vals, StartstopVals, AddedLib
  <2>2. CASE ~lib.disabled /\ e # 0
    BY <1>1, <2>2 DEF GPTLstartstop_vals, StartstopVals, AddedLib, AtThread, With
  <2>3. CASE ~lib.disabled /\ e = 0 /\ p = 0
    BY <1>1, <2>3 DEF GPTLstartstop_vals, StartstopVals, AddedLib
  <2>4. CASE ~lib.disabled /\ e = 0 /\ p # 0
    BY <1>1, <2>4 DEF GPTLstartstop_vals, StartstopVals, AddedLib, SetThread, With
  <2> QED
    BY <2>1, <2>2, <2>3, <2>4
<1>3. GPTLstartstop_valsf(lib, t, name, now, dt, n) = AddedLib(lib, t, ef, madef, pf, now, dt, n)
  <2>1. CASE lib.disabled
    BY <2>1 DEF GPTLstartstop_valsf, StartstopVals, AddedLib
  <2>2. CASE ~lib.disabled /\ ef # 0
    BY <1>1, <2>2 DEF GPTLstartstop_valsf, StartstopVals, AddedLib, AtThread, With
  <2>3. CASE ~lib.disabled /\ ef = 0 /\ pf = 0
    BY <1>1, <2>3 DEF GPTLstartstop_valsf, StartstopVals, AddedLib
  <2>4. CASE ~lib.disabled /\ ef = 0 /\ pf # 0
    BY <1>1, <2>4 DEF GPTLstartstop_valsf, StartstopVals, AddedLib, SetThread, With
  <2> QED
    BY <2>1, <2>2, <2>3, <2>4
<1> QED
  BY <1>2, <1>3

\* One call more, and its time
LEMMA AddedToIs ==
  ASSUME NEW tm \in Timer, NEW now \in Int, NEW dt \in Nat, NEW n \in {0, 1}
  PROVE  SameRun(tm, AddedCall(tm, now, dt, n)) /\ AddedCall(tm, now, dt, n).accum = tm.accum + dt
         /\ AddedCall(tm, now, dt, n).count = tm.count + n
         /\ AddedCall(tm, now, dt, n).last = IF n > 0 THEN now ELSE tm.last
<1> DEFINE one == IF n > 0 THEN [tm EXCEPT !.count = @ + n, !.last = now] ELSE tm
           c == tm.count + n
<1>1. c \in Nat /\ tm.count \in Nat /\ n \in Nat
  BY DEF Timer
<1>2. one.last = (IF n > 0 THEN now ELSE tm.last) /\ one.count = c /\ one.accum = tm.accum
  <2>1. CASE n > 0
    <3>1. one = [tm EXCEPT !.count = c, !.last = now]
      BY <2>1
    <3> HIDE DEF one, c
    <3> QED
      BY <2>1, <3>1 DEF Timer
  <2>2. CASE ~(n > 0)
    <3>1. c = tm.count /\ one = tm
      BY <1>1, <2>2
    <3> QED
      BY <2>2, <3>1
  <2> QED
    BY <2>1, <2>2
<1>3. SameRun(tm, one)
  <2>1. CASE n > 0
    <3>1. one = [tm EXCEPT !.count = c, !.last = now]
      BY <2>1
    <3> HIDE DEF one, c
    <3>2. one \in Timer
      BY <1>1, <3>1 DEF Timer
    <3> QED
      BY <3>1, <3>2 DEF SameRun, Timer
  <2>2. CASE ~(n > 0)
    BY <2>2 DEF SameRun
  <2> QED
    BY <2>1, <2>2
<1>4. AddedCall(tm, now, dt, n) = Added(one, dt, n)
  BY DEF AddedCall
<1> HIDE DEF one, c
<1>5. /\ SameRun(one, Added(one, dt, n)) /\ Added(one, dt, n).accum = one.accum + dt
      /\ Added(one, dt, n).count = one.count /\ Added(one, dt, n).last = one.last
  <2>1. one \in Timer
    BY <1>3 DEF SameRun
  <2> QED
    BY <2>1, AddedIs
<1>6. SameRun(tm, Added(one, dt, n))
  BY <1>3, <1>5 DEF SameRun
<1> QED
  BY <1>2, <1>4, <1>5, <1>6 DEF c

\* The first call of a timer, and its time
LEMMA AddedFirst ==
  ASSUME NEW tm \in Timer, NEW dt \in Nat, NEW n \in {0, 1}
  PROVE  SameRun(tm, Added(Blank(tm, dt, n), dt, n))
         /\ Added(Blank(tm, dt, n), dt, n).accum = tm.accum - tm.latest + dt
         /\ Added(Blank(tm, dt, n), dt, n).count = n
         /\ Added(Blank(tm, dt, n), dt, n).last = tm.last
<1> DEFINE one == Blank(tm, dt, n)
<1>1. SameRun(tm, one) /\ one.accum = tm.accum - tm.latest /\ one.count = n /\ one.last = tm.last
  BY BlankIs
<1> HIDE DEF one
<1>2. /\ SameRun(one, Added(one, dt, n)) /\ Added(one, dt, n).accum = one.accum + dt
      /\ Added(one, dt, n).count = one.count /\ Added(one, dt, n).last = one.last
  <2>1. one \in Timer
    BY <1>1 DEF SameRun
  <2> QED
    BY <2>1, AddedIs
<1>3. SameRun(tm, Added(one, dt, n))
  BY <1>1, <1>2 DEF SameRun
<1> QED
  BY <1>1, <1>2, <1>3 DEF one

\* A call measured elsewhere leaves the library accounted for, counts aside.
LEMMA AddedLibOK ==
  ASSUME NEW lib, NEW hit, Disturbed(hit), LibOK(lib, hit), NEW t \in Threads,
         NEW found \in {0} \cup 2 .. Len(lib.th[t].timers), NEW made, StaysOK(made, lib, hit),
         NEW place \in {0} \cup 2 .. Len(made.th[t].timers), NEW now \in Int, NEW dt \in Nat,
         NEW n \in {0, 1}
  PROVE  StaysOK(AddedLib(lib, t, found, made, place, now, dt, n), lib, hit)
<1> DEFINE th == lib.th[t]
           T == th.timers
           uh == made.th[t]
           U == uh.timers
<1>1. /\ ThreadOK(th, lib.depthlimit, hit) /\ lib.depthlimit \in Nat /\ T \in Seq(Timer)
      /\ LibOK(made, hit) /\ made.depthlimit = lib.depthlimit
      /\ ThreadOK(uh, lib.depthlimit, hit) /\ U \in Seq(Timer)
  BY DEF LibOK, Lib, StaysOK, ThreadOK, Thread
<1>2. CASE lib.disabled
  BY <1>2 DEF AddedLib, StaysOK
<1>3. CASE ~lib.disabled /\ found # 0
  <2> DEFINE tm == AddedCall(T[found], now, dt, n)
             new == [th EXCEPT !.timers = With(T, found, tm)]
  <2>1. AddedLib(lib, t, found, made, place, now, dt, n) = AtThread(lib, t, new)
    BY <1>3 DEF AddedLib
  <2>2. found \in 2 .. Len(T) /\ T[found] \in Timer
    BY <1>1, <1>3
  <2>3. SameRun(T[found], tm)
    BY <2>2, AddedToIs
  <2> HIDE DEF tm, th
  <2>4. ThreadOK(new, lib.depthlimit, hit)
    BY <1>1, <2>2, <2>3, NumbersChange
  <2> HIDE DEF new
  <2>5. OneThread(AtThread(lib, t, new), lib, t, new, hit)
    BY <2>4, ThreadOfLib
  <2> QED
    BY <2>1, <2>5 DEF OneThread, StaysOK
<1>4. CASE ~lib.disabled /\ found = 0 /\ place = 0
  <2>1. AddedLib(lib, t, found, made, place, now, dt, n) = made
    BY <1>4 DEF AddedLib
  <2> QED
    BY <2>1
<1>5. CASE ~lib.disabled /\ found = 0 /\ place # 0
  <2> DEFINE tm == Added(Blank(U[place], dt, n), dt, n)
             new == [uh EXCEPT !.timers = With(U, place, tm)]
  <2>1. AddedLib(lib, t, found, made, place, now, dt, n) = SetThread(made, t, new)
    BY <1>5 DEF AddedLib
  <2>2. place \in 2 .. Len(U) /\ U[place] \in Timer
    BY <1>1, <1>5
  <2>3. SameRun(U[place], tm)
    BY <2>2, AddedFirst
  <2> HIDE DEF tm, uh
  <2>4. ThreadOK(new, lib.depthlimit, hit)
    BY <1>1, <2>2, <2>3, NumbersChange
  <2> HIDE DEF new
  <2>5. OneThread(SetThread(made, t, new), made, t, new, hit)
    BY <1>1, <2>4, ThreadOfLib
  <2> QED
    BY <1>1, <2>1, <2>5 DEF OneThread, StaysOK
<1> QED
  BY <1>2, <1>3, <1>4, <1>5

\* The calls that add a time
LEMMA AddCallsOK ==
  ASSUME NEW lib, NEW hit, Disturbed(hit), LibOK(lib, hit), NEW t \in Threads, NEW name \in Seq(Int),
         NEW now \in Int, NEW dt \in Nat, NEW n \in {0, 1}
  PROVE  /\ StaysOK(GPTLstartstop_vals(lib, t, name, now, dt, n), lib, hit)
         /\ StaysOK(GPTLstartstop_valsf(lib, t, name, now, dt, n), lib, hit)
<1> DEFINE begun == GPTLstart(lib, t, name, now)
           begunf == GPTLstartf(lib, t, name, now)
           made == GPTLstop(begun, t, name, now)
           madef == GPTLstopf(begunf, t, name, now)
           full == FullName(lib, t, name)
<1>1. StaysOK(begun, lib, hit) /\ StaysOK(begunf, lib, hit)
  BY PlainCallsOK
<1>2. LibOK(begun, hit) /\ begun.depthlimit = lib.depthlimit
      /\ LibOK(begunf, hit) /\ begunf.depthlimit = lib.depthlimit
  BY <1>1 DEF StaysOK
<1>3. StaysOK(made, begun, hit) /\ StaysOK(madef, begunf, hit)
  <2> HIDE DEF begun, begunf
  <2> QED
    BY <1>2, PlainCallsOK
<1> HIDE DEF begun, begunf
<1> DEFINE e == getentry(lib.th[t], full)
           p == getentry(made.th[t], full)
           ef == getentryf(lib.th[t], full)
           pf == getentryf(madef.th[t], full)
<1>4. /\ StaysOK(made, lib, hit) /\ StaysOK(madef, lib, hit) /\ made \in Lib /\ madef \in Lib
      /\ lib \in Lib
  BY <1>2, <1>3 DEF StaysOK, LibOK
<1>5. /\ GPTLstartstop_vals(lib, t, name, now, dt, n) = AddedLib(lib, t, e, made, p, now, dt, n)
      /\ GPTLstartstop_valsf(lib, t, name, now, dt, n) = AddedLib(lib, t, ef, madef, pf, now, dt, n)
  BY <1>4, AddCalls DEF begun, begunf
<1>6. lib.th[t] \in Thread /\ made.th[t] \in Thread /\ madef.th[t] \in Thread
  BY <1>4 DEF Lib
<1> HIDE DEF made, madef
<1>7. e \in {0} \cup 2 .. Len(lib.th[t].timers) /\ ef \in {0} \cup 2 .. Len(lib.th[t].timers)
      /\ p \in {0} \cup 2 .. Len(made.th[t].timers) /\ pf \in {0} \cup 2 .. Len(madef.th[t].timers)
  BY <1>6, LookUp
<1> HIDE DEF e, ef, p, pf
<1>8. StaysOK(AddedLib(lib, t, e, made, p, now, dt, n), lib, hit)
      /\ StaysOK(AddedLib(lib, t, ef, madef, pf, now, dt, n), lib, hit)
  BY <1>4, <1>7, AddedLibOK
<1> QED
  BY <1>5, <1>8

(***************************************************************************)
(* The calls that change no timer, or all of them.                         *)
(***************************************************************************)

\* What holds of undisturbed counts holds when they were disturbed.
LEMMA Weaker ==
  ASSUME NEW lib, NEW h1, LibOK(lib, h1), NEW h2, h1 = TRUE => h2 = TRUE, h1 \in BOOLEAN, h2 \in BOOLEAN
  PROVE  LibOK(lib, h2)
<1>1. ASSUME NEW tm, TimerOK(tm, h1) PROVE TimerOK(tm, h2)
  BY <1>1 DEF TimerOK
<1>2. ASSUME NEW T, TimersOK(T, h1) PROVE TimersOK(T, h2)
  BY <1>1, <1>2 DEF TimersOK
<1>3. ASSUME NEW th, NEW limit, ThreadOK(th, limit, h1) PROVE ThreadOK(th, limit, h2)
  BY <1>2, <1>3 DEF ThreadOK
<1> QED
  BY <1>3 DEF LibOK

\* GPTLprefix_set and GPTLprefix_unset change no timer.
LEMMA PrefixOK ==
  ASSUME NEW lib, NEW hit, LibOK(lib, hit), NEW t \in Threads, NEW serial,
         NEW prefix \in Seq(Int)
  PROVE  /\ StaysOK(GPTLprefix_set(lib, t, serial, prefix), lib, hit)
         /\ StaysOK(GPTLprefix_unset(lib, t, serial), lib, hit)
<1> SUFFICES ASSUME NEW clip \in {Clip(prefix), <<>>},
                    NEW new, new = IF lib.disabled THEN lib
                                   ELSE IF serial THEN [lib EXCEPT !.prefix_nt = clip]
                                   ELSE [get_thread_num(lib) EXCEPT !.th[t].prefix = clip]
             PROVE  StaysOK(new, lib, hit)
  BY DEF GPTLprefix_set, GPTLprefix_unset
<1>1. clip \in Seq(Int)
  <2>1. Clip(prefix) \in Seq(Int)
    BY ClipName
  <2>2. <<>> \in Seq(Int)
    OBVIOUS
  <2> QED
    BY <2>1, <2>2
<1>2. lib \in Lib /\ ThreadOK(lib.th[t], lib.depthlimit, hit) /\ lib.depthlimit \in Nat
  BY DEF LibOK, Lib
<1>3. CASE lib.disabled
  BY <1>3 DEF StaysOK
<1>4. CASE ~lib.disabled /\ serial
  <2>1. new = [lib EXCEPT !.prefix_nt = clip]
    BY <1>4
  <2>2. new \in Lib /\ new.th = lib.th /\ new.depthlimit = lib.depthlimit
    BY <1>1, <1>2, <2>1 DEF Lib
  <2> QED
    BY <2>2 DEF StaysOK, LibOK
<1>5. CASE ~lib.disabled /\ ~serial
  <2> DEFINE th == lib.th[t]
             uh == [th EXCEPT !.prefix = clip]
  <2>1. new = AtThread(lib, t, uh)
    BY <1>2, <1>5 DEF AtThread, get_thread_num, Lib
  <2>2. th \in Thread
    BY <1>2 DEF ThreadOK
  <2>3. uh \in Thread /\ uh.timers = th.timers /\ uh.stackidx = th.stackidx
        /\ uh.callstack = th.callstack /\ uh.handle = th.handle
    BY <1>1, <2>2 DEF Thread
  <2> HIDE DEF uh
  <2>4. ThreadOK(uh, lib.depthlimit, hit)
    BY <1>2, <2>3 DEF ThreadOK, StackKnown
  <2>5. OneThread(AtThread(lib, t, uh), lib, t, uh, hit)
    BY <2>4, ThreadOfLib
  <2> QED
    BY <2>1, <2>5 DEF OneThread, StaysOK
<1> QED
  BY <1>3, <1>4, <1>5

\* GPTLenable and GPTLdisable change no timer.
LEMMA SwitchOK ==
  ASSUME NEW lib, NEW hit, LibOK(lib, hit)
  PROVE  StaysOK(GPTLenable(lib), lib, hit) /\ StaysOK(GPTLdisable(lib), lib, hit)
<1> SUFFICES ASSUME NEW new \in {GPTLenable(lib), GPTLdisable(lib)} PROVE StaysOK(new, lib, hit)
  OBVIOUS
<1>1. lib \in Lib
  BY DEF LibOK
<1>2. new \in Lib /\ new.th = lib.th /\ new.depthlimit = lib.depthlimit
  BY <1>1 DEF Lib, GPTLenable, GPTLdisable
<1> QED
  BY <1>2 DEF StaysOK, LibOK

\* A thread all of whose timers may have changed, but not their parents
LEMMA ThreadRebuilt ==
  ASSUME NEW limit \in Nat, NEW h1, NEW th, ThreadOK(th, limit, h1), NEW hit, NEW U \in Seq(Timer),
         Len(U) = Len(th.timers), Tree(U), On(U) \subseteq On(th.timers),
         \A i \in 1 .. Len(U) : U[i].parent = th.timers[i].parent,
         \A i \in 2 .. Len(U) : TimerOK(U[i], hit)
  PROVE  ThreadOK([th EXCEPT !.timers = U], limit, hit)
<1> DEFINE T == th.timers
           new == [th EXCEPT !.timers = U]
<1>1. th \in Thread /\ T \in Seq(Timer) /\ TimersOK(T, h1) /\ Len(T) \in Nat /\ th.stackidx \in Nat
  BY DEF ThreadOK, Thread
<1>2. new \in Thread /\ new.timers = U /\ new.stackidx = th.stackidx
      /\ new.callstack = th.callstack /\ new.handle = th.handle
  BY <1>1 DEF Thread
<1>3. TimersOK(U, hit)
  <2>1. \A i \in 1 .. Len(T) : ParentsIn(T[i], Len(T))
    BY <1>1 DEF TimersOK
  <2>2. \A i \in 1 .. Len(U) : ParentsIn(U[i], Len(U))
    BY <2>1 DEF ParentsIn
  <2>3. Len(U) >= 1
    BY <1>1 DEF TimersOK
  <2> QED
    BY <2>2, <2>3 DEF TimersOK
<1>4. Cardinality(On(U)) <= Cardinality(On(T)) /\ Cardinality(On(U)) \in Nat
      /\ Cardinality(On(T)) \in Nat
  BY <1>1, OnIsFinite, FS_Subset
<1>5. Cardinality(On(T)) <= th.stackidx /\ Cardinality(On(T)) <= limit
  BY DEF ThreadOK
<1> HIDE DEF new
<1>6. StackKnown(new, limit)
  BY <1>2 DEF ThreadOK, StackKnown
<1>7. \A n \in Names : new.handle[n] \in {0} \cup 2 .. Len(U)
  BY <1>2 DEF ThreadOK
<1>8. ThreadOK(new, limit, hit)
  BY <1>1, <1>2, <1>3, <1>4, <1>5, <1>6, <1>7 DEF ThreadOK
<1> QED
  BY <1>8 DEF new

\* The library with all threads changed
LEMMA LibRebuilt ==
  ASSUME NEW lib, NEW h1, LibOK(lib, h1), NEW hit, NEW ths, DOMAIN ths = Threads,
         ths = [t \in DOMAIN ths |-> ths[t]],
         \A t \in Threads : ThreadOK(ths[t], lib.depthlimit, hit)
  PROVE  StaysOK([lib EXCEPT !.th = ths], lib, hit)
<1> DEFINE new == [lib EXCEPT !.th = ths]
<1>1. lib \in Lib /\ ths \in [Threads -> Thread]
  BY DEF LibOK, ThreadOK
<1>2. new \in Lib /\ new.th = ths /\ new.depthlimit = lib.depthlimit
  BY <1>1 DEF Lib
<1> HIDE DEF new
<1>3. StaysOK(new, lib, hit)
  BY <1>2 DEF StaysOK, LibOK
<1> QED
  BY <1>3 DEF new

\* GPTLreset, when no timer recurses
LEMMA ResetTimerIs ==
  ASSUME NEW tm \in Timer
  PROVE  /\ ResetTimer(tm) \in Timer /\ ResetTimer(tm).onflg = FALSE
         /\ ResetTimer(tm).recurselvl = tm.recurselvl /\ ResetTimer(tm).parent = tm.parent
         /\ ResetTimer(tm).norphan = tm.norphan /\ ResetTimer(tm).children = tm.children
         /\ ResetTimer(tm).name = tm.name /\ ResetTimer(tm).count = 0 /\ ResetTimer(tm).accum = 0
<1>1. 0 \in Nat /\ 0 \in Int /\ FALSE \in BOOLEAN
  OBVIOUS
<1> QED
  BY <1>1 DEF ResetTimer, Timer

\* A thread reset while no timer recurses
LEMMA ResetThreadOK ==
  ASSUME NEW limit \in Nat, NEW h1, NEW th, ThreadOK(th, limit, h1), NEW hit, Disturbed(hit),
         \A i \in DOMAIN th.timers : ~(th.timers[i].recurselvl > 0)
  PROVE  ThreadOK(ResetThread(th), limit, hit)
<1> DEFINE T == th.timers
           U == [i \in DOMAIN T |-> ResetTimer(T[i])]
<1>1. T \in Seq(Timer) /\ TimersOK(T, h1) /\ Len(T) \in Nat /\ DOMAIN T = 1 .. Len(T)
  BY DEF ThreadOK, Thread
<1>2. \A i \in 1 .. Len(T) : T[i] \in Timer
  BY <1>1
<1>2a. \A i \in 1 .. Len(T) :
         /\ ResetTimer(T[i]) \in Timer /\ ResetTimer(T[i]).onflg = FALSE
         /\ ResetTimer(T[i]).recurselvl = T[i].recurselvl /\ ResetTimer(T[i]).parent = T[i].parent
         /\ ResetTimer(T[i]).norphan = T[i].norphan /\ ResetTimer(T[i]).children = T[i].children
  BY <1>2, ResetTimerIs
<1>3. U \in Seq(Timer) /\ Len(U) = Len(T) /\ \A i \in 1 .. Len(T) : U[i] = ResetTimer(T[i])
  <2>1. \A i \in 1 .. Len(T) : ResetTimer(T[i]) \in Timer
    BY <1>2a
  <2>2. U = [i \in 1 .. Len(T) |-> ResetTimer(T[i])]
    BY <1>1
  <2> HIDE DEF U
  <2> QED
    BY <1>1, <2>1, <2>2
<1> HIDE DEF U
<1>4. \A i \in 1 .. Len(T) :
        /\ U[i].onflg = FALSE /\ U[i].recurselvl = T[i].recurselvl
        /\ U[i].parent = T[i].parent /\ U[i].norphan = T[i].norphan /\ U[i].children = T[i].children
  BY <1>2a, <1>3
<1>5. On(U) \subseteq On(T)
  BY <1>1, <1>3, <1>4 DEF On
<1>6. Tree(U)
  <2>1. Tree(T) /\ Rooted(T)
    BY <1>1 DEF TimersOK, Tree
  <2>2. /\ \A i \in 1 .. Len(T) : Kids(T)[i] = ToSet(T[i].children)
        /\ \A i \in 1 .. Len(T) : Kids(U)[i] = ToSet(U[i].children)
        /\ \A i \in 1 .. Len(T) : ToSet(T[i].children) \subseteq 1 .. Len(T)
    BY <1>1, <1>3, <2>1, RootedTimers
  <2>3. Rooted(U)
    BY <1>1, <1>3, <1>4, <2>2, RootedTimers
  <2>4. \A i \in 1 .. Len(U) : IF i <= Len(T) THEN Kids(U)[i] = Kids(T)[i] ELSE Kids(U)[i] = {}
    BY <1>1, <1>3, <1>4, <2>2
  <2> QED
    BY <1>1, <1>3, <2>1, <2>3, <2>4, SameTree
<1>7. ASSUME NEW i \in 2 .. Len(U) PROVE TimerOK(U[i], hit)
  <2>1. i \in 1 .. Len(T) /\ i \in 2 .. Len(T) /\ i \in DOMAIN T
    BY <1>1, <1>3
  <2>2. T[i].norphan = 0 /\ Called(T[i].parent) >= 1 /\ ~(T[i].recurselvl > 0)
    BY <1>1, <2>1 DEF TimersOK, TimerOK
  <2> QED
    BY <1>4, <2>1, <2>2 DEF TimerOK, Disturbed
<1>8. ThreadOK([th EXCEPT !.timers = U], limit, hit)
  BY <1>1, <1>3, <1>4, <1>5, <1>6, <1>7, ThreadRebuilt
<1> QED
  BY <1>8 DEF U, ResetThread

\* GPTLreset leaves the library accounted for, counts aside.
LEMMA ResetOK ==
  ASSUME NEW lib, NEW hit, Disturbed(hit), LibOK(lib, hit),
         \A t \in Threads : \A i \in DOMAIN lib.th[t].timers : ~(lib.th[t].timers[i].recurselvl > 0)
  PROVE  StaysOK(GPTLreset(lib), lib, hit)
<1> DEFINE ths == [t \in Threads |-> IF t >= lib.nthreads THEN lib.th[t]
                                    ELSE ResetThread(lib.th[t])]
<1>1. GPTLreset(lib) = [lib EXCEPT !.th = ths]
  BY DEF GPTLreset
<1>2. lib.depthlimit \in Nat
  BY DEF LibOK, Lib
<1>3. ASSUME NEW t \in Threads PROVE ThreadOK(ths[t], lib.depthlimit, hit)
  <2>1. ThreadOK(lib.th[t], lib.depthlimit, hit)
    BY DEF LibOK
  <2>2. ThreadOK(ResetThread(lib.th[t]), lib.depthlimit, hit)
    BY <1>2, <2>1, ResetThreadOK
  <2> QED
    BY <2>1, <2>2
<1>4. DOMAIN ths = Threads /\ ths = [t \in DOMAIN ths |-> ths[t]]
  OBVIOUS
<1> HIDE DEF ths
<1> QED
  BY <1>1, <1>3, <1>4, LibRebuilt

\* GPTLpr_file
LEMMA PrintedThreadOK ==
  ASSUME NEW limit \in Nat, NEW hit, NEW th, ThreadOK(th, limit, hit), NEW method \in Methods
  PROVE  ThreadOK(PrintedThread(th, method), limit, hit)
<1> DEFINE T == th.timers
           U == construct_tree(T, method)
<1>1. T \in Seq(Timer) /\ TimersOK(T, hit) /\ Len(T) \in Nat /\ Tree(T)
  BY DEF ThreadOK, Thread, TimersOK
<1>2. \A i \in 1 .. Len(T) : \A k \in 1 .. Len(T[i].parent) : T[i].parent[k].of \in 1 .. Len(T)
  BY <1>1 DEF TimersOK, ParentsIn
<1>3. U \in Redrawn(T)
  <2> HIDE DEF T
  <2> QED
    BY <1>1, <1>2, TreeIsConstructed
<1> HIDE DEF U
<1>4. /\ U \in Seq(Timer) /\ Len(U) = Len(T) /\ Tree(U)
      /\ \A i \in 1 .. Len(T) : U[i] = [T[i] EXCEPT !.children = U[i].children]
  BY <1>3 DEF Redrawn
<1>5. ASSUME NEW i \in 1 .. Len(T)
      PROVE  /\ U[i].onflg = T[i].onflg /\ U[i].parent = T[i].parent
             /\ U[i].norphan = T[i].norphan /\ U[i].recurselvl = T[i].recurselvl
             /\ U[i].count = T[i].count /\ U[i].nrecurse = T[i].nrecurse
  <2>1. T[i] \in Timer /\ U[i] = [T[i] EXCEPT !.children = U[i].children]
    BY <1>1, <1>4
  <2> QED
    BY <2>1 DEF Timer
<1>6. On(U) \subseteq On(T)
  BY <1>1, <1>4, <1>5 DEF On
<1>7. ASSUME NEW i \in 2 .. Len(U) PROVE TimerOK(U[i], hit)
  <2>1. i \in 1 .. Len(T) /\ i \in 2 .. Len(T)
    BY <1>1, <1>4
  <2>2. TimerOK(T[i], hit)
    BY <1>1, <2>1 DEF TimersOK
  <2> QED
    BY <1>5, <2>1, <2>2 DEF TimerOK
<1>8. \A i \in 1 .. Len(U) : U[i].parent = T[i].parent
  BY <1>4, <1>5
<1>9. ThreadOK([th EXCEPT !.timers = U], limit, hit)
  BY <1>1, <1>4, <1>6, <1>7, <1>8, ThreadRebuilt
<1> QED
  BY <1>9 DEF U, PrintedThread

\* GPTLpr_file changes the tree only.
LEMMA PrintOK ==
  ASSUME NEW lib, NEW hit, LibOK(lib, hit), NEW method \in Methods
  PROVE  StaysOK(GPTLpr_file(lib, method), lib, hit)
<1> DEFINE ths == [t \in Threads |-> IF t >= lib.nthreads THEN lib.th[t]
                                    ELSE PrintedThread(lib.th[t], method)]
<1>1. GPTLpr_file(lib, method) = [lib EXCEPT !.th = ths]
  BY DEF GPTLpr_file
<1>2. lib.depthlimit \in Nat
  BY DEF LibOK, Lib
<1>3. ASSUME NEW t \in Threads PROVE ThreadOK(ths[t], lib.depthlimit, hit)
  <2>1. ThreadOK(lib.th[t], lib.depthlimit, hit)
    BY DEF LibOK
  <2>2. ThreadOK(PrintedThread(lib.th[t], method), lib.depthlimit, hit)
    BY <1>2, <2>1, PrintedThreadOK
  <2> QED
    BY <2>1, <2>2
<1>4. DOMAIN ths = Threads /\ ths = [t \in DOMAIN ths |-> ths[t]]
  OBVIOUS
<1> HIDE DEF ths
<1> QED
  BY <1>1, <1>3, <1>4, LibRebuilt

\* GPTLinitialize
LEMMA NewThreadOK ==
  ASSUME NEW limit \in Nat, NEW hit
  PROVE  ThreadOK(NewThread, limit, hit)
<1> DEFINE tm == [NewTimer(<<>>) EXCEPT !.onflg = TRUE]
           T == << tm >>
<1>1. MAX_STACK \in Nat /\ MAX_STACK >= 2
  BY GptlAssumption
<1>2. <<>> \in Seq(Int) /\ <<>> \in Seq(Nat) /\ <<>> \in Parents
  BY DEF Parents
<1>3. tm \in Timer /\ tm.children = <<>> /\ tm.parent = <<>>
  <2>1. NewTimer(<<>>) \in Timer /\ NewTimer(<<>>).children = <<>> /\ NewTimer(<<>>).parent = <<>>
    BY <1>2, NewTimerIs
  <2> QED
    BY <2>1 DEF Timer
<1> HIDE DEF tm
<1>4. T \in Seq(Timer) /\ Len(T) = 1 /\ T[1] = tm
  BY <1>3
<1>5. /\ NewThread \in Thread /\ NewThread.timers = T /\ NewThread.stackidx = 0
      /\ NewThread.callstack[0] = 1
      /\ \A n \in Names : NewThread.handle[n] = 0
  <2> DEFINE stack == [i \in 0 .. MAX_STACK - 1 |-> IF i = 0 THEN 1 ELSE 0]
             handles == [n \in Names |-> 0]
  <2>1. stack \in [0 .. MAX_STACK - 1 -> Nat] /\ stack[0] = 1
    BY <1>1
  <2>2. handles \in [Names -> Nat] /\ \A n \in Names : handles[n] = 0
    OBVIOUS
  <2>3. NewThread = [timers |-> T, stackidx |-> 0, callstack |-> stack, prefix |-> <<>>,
                     handle |-> handles]
    BY DEF NewThread, tm
  <2> HIDE DEF stack, handles, T
  <2> QED
    BY <1>2, <1>4, <2>1, <2>2, <2>3 DEF Thread
<1> HIDE DEF T
<1>6. On(T) = {} /\ Cardinality(On(T)) = 0
  BY <1>4, FS_EmptySet DEF On
<1>7. Tree(T)
  <2>1. ToSet(<<>>) = {}
    BY DEF ToSet
  <2>2. Rooted(T) /\ Kids(T)[1] = {}
    <3>1. ToSet(T[1].children) = {}
      BY <1>3, <1>4, <2>1
    <3>2. \A i \in 1 .. Len(T) : ToSet(T[i].children) \subseteq 1 .. Len(T)
      BY <1>4, <3>1
    <3> QED
      BY <1>4, <3>1, <3>2, RootedTimers
  <2>3. \A C : Kids(T)[1] \subseteq C /\ ClosedUnder(Kids(T), C) => Below(T, 1) \subseteq C
    BY <1>4, <2>2, BelowIsLeast
  <2>4. ClosedUnder(Kids(T), {})
    BY DEF ClosedUnder
  <2> QED
    BY <1>4, <2>2, <2>3, <2>4 DEF Tree
<1>8. ParentsIn(T[1], 1)
  BY <1>3, <1>4 DEF ParentsIn
<1>9. TimersOK(T, hit)
  BY <1>4, <1>7, <1>8 DEF TimersOK
<1>10. StackKnown(NewThread, limit)
  <2>1. NewThread.callstack[0] \in 1 .. Len(T)
    BY <1>4, <1>5
  <2>2. \A j \in 0 .. MAX_STACK - 1 : j <= 0 => j = 0
    BY <1>1
  <2>3. \A j \in 0 .. MAX_STACK - 1 : j <= 0 => NewThread.callstack[j] \in 1 .. Len(T)
    BY <2>1, <2>2, Zenon
  <2> QED
    BY <1>5, <2>3 DEF StackKnown
<1> QED
  BY <1>5, <1>6, <1>9, <1>10 DEF ThreadOK

\* What GPTLinitialize leaves
LEMMA InitializeOK ==
  ASSUME NEW limit \in Nat, NEW hit
  PROVE  LibOK(GPTLinitialize(limit), hit)
<1>1. ThreadOK(NewThread, limit, hit) /\ NewThread \in Thread
  BY NewThreadOK DEF ThreadOK
<1>2. <<>> \in Seq(Int)
  OBVIOUS
<1>3. GPTLinitialize(limit) \in Lib /\ GPTLinitialize(limit).depthlimit = limit
      /\ \A t \in Threads : GPTLinitialize(limit).th[t] = NewThread
  BY <1>1, <1>2 DEF GPTLinitialize, Lib
<1> QED
  BY <1>1, <1>3 DEF LibOK

-----------------------------------------------------------------------------
(***************************************************************************)
(* The job.                                                                *)
(***************************************************************************)
TimersKnown ==
  /\ nproc \in Nat \ {0}
  /\ g \in [Ranks -> Lib]
  /\ clock \in [Ranks -> Nat]
  /\ touched \in [Ranks -> BOOLEAN]
  /\ script \in [Ranks -> Seq(CallRecords)]
  /\ \A r \in Ranks : LibOK(g[r], touched[r])

\* Every rank starts with an initialized library.
LEMMA InitTimers == Init => TimersKnown
<1> SUFFICES ASSUME Init PROVE TimersKnown
  OBVIOUS
<1>1. PICK s \in Scenarios, limit \in DepthLimits :
        /\ nproc = s.nproc /\ script = s.calls
        /\ g = [r \in Ranks |-> GPTLinitialize(limit)]
        /\ clock = [r \in Ranks |-> 0] /\ touched = [r \in Ranks |-> FALSE]
  BY DEF Init
<1>2. nproc \in Nat \ {0} /\ script \in [Ranks -> Seq(CallRecords)] /\ limit \in Nat
  BY <1>1, SummaryAssumption DEF Ranks
<1>3. clock \in [Ranks -> Nat] /\ touched \in [Ranks -> BOOLEAN]
  BY <1>1
<1>4. \A r \in Ranks : LibOK(g[r], touched[r])
  BY <1>1, <1>2, InitializeOK
<1>5. g \in [Ranks -> Lib]
  BY <1>1, <1>4 DEF LibOK
<1> QED
  BY <1>2, <1>3, <1>4, <1>5 DEF TimersKnown

\* What callers pass.
LEMMA OfferedIs ==
  ASSUME TimersKnown, NEW r \in Ranks, NEW c \in Offered(r)
  PROVE  /\ c \in CallRecords /\ c.t \in Threads /\ c.name \in Names /\ c.name \in Seq(Int)
         /\ c.dt \in Nat /\ c.calls \in {0, 1} /\ c.prefix \in Seq(Int)
<1>1. script[r] \in Seq(CallRecords)
  BY DEF TimersKnown
<1>2. CASE script[r] # <<>>
  <2>1. c = Head(script[r])
    BY <1>2 DEF Offered
  <2>2. c \in CallRecords
    BY <1>1, <1>2, <2>1
  <2> QED
    BY <2>2, SummaryAssumption DEF CallRecords
<1>3. CASE script[r] = <<>>
  <2>1. c \in FreeCalls
    BY <1>3 DEF Offered
  <2> QED
    BY <2>1, SummaryAssumption DEF CallRecords
<1> QED
  BY <1>2, <1>3

\* A call that leaves the library of its rank accounted for.
LEMMA MadeOK ==
  ASSUME TimersKnown, NEW r \in Ranks, NEW c \in CallRecords, NEW new, Made(r, c, new),
         LibOK(new, touched'[r])
  PROVE  TimersKnown'
<1>1. /\ g' = [g EXCEPT ![r] = new] /\ clock' = [clock EXCEPT ![r] = @ + 1]
      /\ touched' = [touched EXCEPT ![r] = @ \/ c.op \in {"reset", "add"}]
      /\ script' = [script EXCEPT ![r] = IF @ = <<>> THEN @ ELSE Tail(@)]
      /\ nproc' = nproc
  BY DEF Made
<1>2. /\ nproc \in Nat \ {0} /\ g \in [Ranks -> Lib] /\ clock \in [Ranks -> Nat]
      /\ touched \in [Ranks -> BOOLEAN] /\ script \in [Ranks -> Seq(CallRecords)]
      /\ \A q \in Ranks : LibOK(g[q], touched[q])
  BY DEF TimersKnown
<1>3. Ranks' = Ranks /\ nproc' \in Nat \ {0}
  BY <1>1, <1>2 DEF Ranks
<1>4. clock' \in [Ranks -> Nat] /\ touched' \in [Ranks -> BOOLEAN]
  BY <1>1, <1>2
<1>5. script' \in [Ranks -> Seq(CallRecords)]
  <2>1. (IF script[r] = <<>> THEN script[r] ELSE Tail(script[r])) \in Seq(CallRecords)
    BY <1>2
  <2> QED
    BY <1>1, <1>2, <2>1
<1>6. new \in Lib
  BY DEF LibOK
<1>7. g' \in [Ranks -> Lib]
  BY <1>1, <1>2, <1>6
<1>8. ASSUME NEW q \in Ranks PROVE LibOK(g'[q], touched'[q])
  <2>1. CASE q = r
    BY <1>1, <1>2, <2>1
  <2>2. CASE q # r
    <3>1. g'[q] = g[q] /\ touched'[q] = touched[q]
      BY <1>1, <1>2, <2>2
    <3> QED
      BY <1>2, <3>1
  <2> QED
    BY <2>1, <2>2
<1> QED
  BY <1>3, <1>4, <1>5, <1>7, <1>8 DEF TimersKnown

\* What a rank is in when it makes the call c
LEMMA CallIs ==
  ASSUME TimersKnown, NEW r \in Ranks, NEW c \in CallRecords, NEW new, Made(r, c, new)
  PROVE  /\ LibOK(g[r], touched'[r]) /\ clock[r] \in Int
         /\ c.op \in {"reset", "add"} => Disturbed(touched'[r])
<1>1. touched' = [touched EXCEPT ![r] = @ \/ c.op \in {"reset", "add"}]
  BY DEF Made
<1>2. /\ touched \in [Ranks -> BOOLEAN] /\ clock \in [Ranks -> Nat] /\ LibOK(g[r], touched[r])
  BY DEF TimersKnown
<1>3. /\ touched'[r] \in BOOLEAN /\ touched[r] \in BOOLEAN
      /\ touched[r] = TRUE => touched'[r] = TRUE
      /\ c.op \in {"reset", "add"} => touched'[r] = TRUE
  BY <1>1, <1>2
<1>4. LibOK(g[r], touched'[r])
  BY <1>2, <1>3, Weaker
<1> QED
  BY <1>2, <1>3, <1>4 DEF Disturbed

\* GPTLstart and its variants
LEMMA StartTimerOK ==
  ASSUME TimersKnown, NEW r \in Ranks, StartTimer(r) PROVE TimersKnown'
<1>1. PICK c \in Calls(r, "start") :
        Made(r, c, CASE ~c.f /\ ~c.h -> GPTLstart(g[r], c.t, c.name, clock[r])
                     [] c.f /\ ~c.h  -> GPTLstartf(g[r], c.t, c.name, clock[r])
                     [] ~c.f /\ c.h  -> GPTLstart_handle(g[r], c.t, c.name, clock[r])
                     [] c.f /\ c.h   -> GPTLstartf_handle(g[r], c.t, c.name, clock[r]))
  BY DEF StartTimer
<1> DEFINE new == CASE ~c.f /\ ~c.h -> GPTLstart(g[r], c.t, c.name, clock[r])
                     [] c.f /\ ~c.h  -> GPTLstartf(g[r], c.t, c.name, clock[r])
                     [] ~c.f /\ c.h  -> GPTLstart_handle(g[r], c.t, c.name, clock[r])
                     [] c.f /\ c.h   -> GPTLstartf_handle(g[r], c.t, c.name, clock[r])
           hit == touched'[r]
<1>2. c \in CallRecords /\ c.t \in Threads /\ c.name \in Names /\ c.name \in Seq(Int)
      /\ c.f \in BOOLEAN /\ c.h \in BOOLEAN
  <2>1. c \in Offered(r)
    BY DEF Calls
  <2>2. c \in CallRecords /\ c.t \in Threads /\ c.name \in Names /\ c.name \in Seq(Int)
    BY <2>1, OfferedIs
  <2> QED
    BY <2>2 DEF CallRecords
<1>3. new \in {GPTLstart(g[r], c.t, c.name, clock[r]), GPTLstartf(g[r], c.t, c.name, clock[r]),
               GPTLstart_handle(g[r], c.t, c.name, clock[r]),
               GPTLstartf_handle(g[r], c.t, c.name, clock[r])}
  BY <1>2
<1>4. Made(r, c, new)
  BY <1>1
<1> HIDE DEF new
<1>5. LibOK(g[r], hit) /\ clock[r] \in Int
  BY <1>2, <1>4, CallIs
<1> HIDE DEF hit
<1>6. /\ StaysOK(GPTLstart(g[r], c.t, c.name, clock[r]), g[r], hit)
      /\ StaysOK(GPTLstartf(g[r], c.t, c.name, clock[r]), g[r], hit)
  BY <1>2, <1>5, PlainCallsOK
<1>7. /\ StaysOK(GPTLstart_handle(g[r], c.t, c.name, clock[r]), g[r], hit)
      /\ StaysOK(GPTLstartf_handle(g[r], c.t, c.name, clock[r]), g[r], hit)
  BY <1>2, <1>5, HandleCallsOK
<1>8. LibOK(new, hit)
  BY <1>3, <1>6, <1>7 DEF StaysOK
<1> QED
  BY <1>2, <1>4, <1>8, MadeOK DEF hit

\* GPTLstop and its variants
LEMMA StopTimerOK ==
  ASSUME TimersKnown, NEW r \in Ranks, StopTimer(r) PROVE TimersKnown'
<1>1. PICK c \in Calls(r, "stop") :
        Made(r, c, CASE ~c.f /\ ~c.h -> GPTLstop(g[r], c.t, c.name, clock[r])
                     [] c.f /\ ~c.h  -> GPTLstopf(g[r], c.t, c.name, clock[r])
                     [] ~c.f /\ c.h  -> GPTLstop_handle(g[r], c.t, c.name, clock[r])
                     [] c.f /\ c.h   -> GPTLstopf_handle(g[r], c.t, c.name, clock[r]))
  BY DEF StopTimer
<1> DEFINE new == CASE ~c.f /\ ~c.h -> GPTLstop(g[r], c.t, c.name, clock[r])
                     [] c.f /\ ~c.h  -> GPTLstopf(g[r], c.t, c.name, clock[r])
                     [] ~c.f /\ c.h  -> GPTLstop_handle(g[r], c.t, c.name, clock[r])
                     [] c.f /\ c.h   -> GPTLstopf_handle(g[r], c.t, c.name, clock[r])
           hit == touched'[r]
<1>2. c \in CallRecords /\ c.t \in Threads /\ c.name \in Names /\ c.name \in Seq(Int)
      /\ c.f \in BOOLEAN /\ c.h \in BOOLEAN
  <2>1. c \in Offered(r)
    BY DEF Calls
  <2>2. c \in CallRecords /\ c.t \in Threads /\ c.name \in Names /\ c.name \in Seq(Int)
    BY <2>1, OfferedIs
  <2> QED
    BY <2>2 DEF CallRecords
<1>3. new \in {GPTLstop(g[r], c.t, c.name, clock[r]), GPTLstopf(g[r], c.t, c.name, clock[r]),
               GPTLstop_handle(g[r], c.t, c.name, clock[r]),
               GPTLstopf_handle(g[r], c.t, c.name, clock[r])}
  BY <1>2
<1>4. Made(r, c, new)
  BY <1>1
<1> HIDE DEF new
<1>5. LibOK(g[r], hit) /\ clock[r] \in Int
  BY <1>2, <1>4, CallIs
<1> HIDE DEF hit
<1>6. /\ StaysOK(GPTLstop(g[r], c.t, c.name, clock[r]), g[r], hit)
      /\ StaysOK(GPTLstopf(g[r], c.t, c.name, clock[r]), g[r], hit)
  BY <1>2, <1>5, PlainCallsOK
<1>7. /\ StaysOK(GPTLstop_handle(g[r], c.t, c.name, clock[r]), g[r], hit)
      /\ StaysOK(GPTLstopf_handle(g[r], c.t, c.name, clock[r]), g[r], hit)
  BY <1>2, <1>5, HandleCallsOK
<1>8. LibOK(new, hit)
  BY <1>3, <1>6, <1>7 DEF StaysOK
<1> QED
  BY <1>2, <1>4, <1>8, MadeOK DEF hit

\* GPTLstartstop_vals and its variant
LEMMA AddValsOK ==
  ASSUME TimersKnown, NEW r \in Ranks, AddVals(r) PROVE TimersKnown'
<1>1. PICK c \in Calls(r, "add") :
        Made(r, c, IF c.f THEN GPTLstartstop_valsf(g[r], c.t, c.name, clock[r], c.dt, c.calls)
                   ELSE GPTLstartstop_vals(g[r], c.t, c.name, clock[r], c.dt, c.calls))
  BY DEF AddVals
<1> DEFINE new == IF c.f THEN GPTLstartstop_valsf(g[r], c.t, c.name, clock[r], c.dt, c.calls)
                  ELSE GPTLstartstop_vals(g[r], c.t, c.name, clock[r], c.dt, c.calls)
           hit == touched'[r]
<1>2. c \in Offered(r) /\ c.op = "add"
  BY DEF Calls
<1>3. c \in CallRecords /\ c.t \in Threads /\ c.name \in Seq(Int) /\ c.dt \in Nat /\ c.calls \in {0, 1}
  BY <1>2, OfferedIs
<1>4. Made(r, c, new)
  BY <1>1
<1>5. new \in {GPTLstartstop_valsf(g[r], c.t, c.name, clock[r], c.dt, c.calls),
               GPTLstartstop_vals(g[r], c.t, c.name, clock[r], c.dt, c.calls)}
  OBVIOUS
<1> HIDE DEF new
<1>6. LibOK(g[r], hit) /\ clock[r] \in Int /\ Disturbed(hit)
  BY <1>2, <1>3, <1>4, CallIs
<1> HIDE DEF hit
<1>7. /\ StaysOK(GPTLstartstop_vals(g[r], c.t, c.name, clock[r], c.dt, c.calls), g[r], hit)
      /\ StaysOK(GPTLstartstop_valsf(g[r], c.t, c.name, clock[r], c.dt, c.calls), g[r], hit)
  BY <1>3, <1>6, AddCallsOK
<1>8. LibOK(new, hit)
  BY <1>5, <1>7 DEF StaysOK
<1> QED
  BY <1>3, <1>4, <1>8, MadeOK DEF hit

\* GPTLprefix_set and GPTLprefix_unset
LEMMA PrefixStepOK ==
  ASSUME TimersKnown, NEW r \in Ranks, Prefix(r) PROVE TimersKnown'
<1>1. PICK c \in Calls(r, "prefix") :
        Made(r, c, IF c.prefix = <<>> THEN GPTLprefix_unset(g[r], c.t, c.serial)
                   ELSE GPTLprefix_set(g[r], c.t, c.serial, c.prefix))
  BY DEF Prefix
<1> DEFINE new == IF c.prefix = <<>> THEN GPTLprefix_unset(g[r], c.t, c.serial)
                  ELSE GPTLprefix_set(g[r], c.t, c.serial, c.prefix)
           hit == touched'[r]
<1>2. c \in CallRecords /\ c.t \in Threads /\ c.prefix \in Seq(Int)
  BY OfferedIs DEF Calls
<1>3. Made(r, c, new)
  BY <1>1
<1>4. new \in {GPTLprefix_unset(g[r], c.t, c.serial), GPTLprefix_set(g[r], c.t, c.serial, c.prefix)}
  OBVIOUS
<1> HIDE DEF new
<1>5. LibOK(g[r], hit)
  BY <1>2, <1>3, CallIs
<1> HIDE DEF hit
<1>6. /\ StaysOK(GPTLprefix_set(g[r], c.t, c.serial, c.prefix), g[r], hit)
      /\ StaysOK(GPTLprefix_unset(g[r], c.t, c.serial), g[r], hit)
  BY <1>2, <1>5, PrefixOK
<1>7. LibOK(new, hit)
  BY <1>4, <1>6 DEF StaysOK
<1> QED
  BY <1>2, <1>3, <1>7, MadeOK DEF hit

\* GPTLenable and GPTLdisable
LEMMA SwitchStepOK ==
  ASSUME TimersKnown, NEW r \in Ranks, Switch(r) PROVE TimersKnown'
<1>1. PICK c \in Calls(r, "enable") \cup Calls(r, "disable") :
        Made(r, c, IF c.op = "enable" THEN GPTLenable(g[r]) ELSE GPTLdisable(g[r]))
  BY DEF Switch
<1> DEFINE new == IF c.op = "enable" THEN GPTLenable(g[r]) ELSE GPTLdisable(g[r])
           hit == touched'[r]
<1>2. c \in CallRecords
  BY OfferedIs DEF Calls
<1>3. Made(r, c, new)
  BY <1>1
<1>4. new \in {GPTLenable(g[r]), GPTLdisable(g[r])}
  OBVIOUS
<1> HIDE DEF new
<1>5. LibOK(g[r], hit)
  BY <1>2, <1>3, CallIs
<1> HIDE DEF hit
<1>6. StaysOK(GPTLenable(g[r]), g[r], hit) /\ StaysOK(GPTLdisable(g[r]), g[r], hit)
  BY <1>5, SwitchOK
<1>7. LibOK(new, hit)
  BY <1>4, <1>6 DEF StaysOK
<1> QED
  BY <1>2, <1>3, <1>7, MadeOK DEF hit

\* GPTLreset
LEMMA ResetStepOK ==
  ASSUME TimersKnown, NEW r \in Ranks, Reset(r) PROVE TimersKnown'
<1> DEFINE hit == touched'[r]
<1>1. PICK c \in Calls(r, "reset") : Made(r, c, GPTLreset(g[r]))
  BY DEF Reset
<1>2. c \in CallRecords /\ c.op = "reset" /\ ~Recursing(r)
  BY OfferedIs DEF Calls, Legal
<1>3. LibOK(g[r], hit) /\ Disturbed(hit)
  BY <1>1, <1>2, CallIs
<1> HIDE DEF hit
<1>4. \A t \in Threads : \A i \in DOMAIN g[r].th[t].timers : ~(g[r].th[t].timers[i].recurselvl > 0)
  BY <1>2 DEF Recursing
<1>5. StaysOK(GPTLreset(g[r]), g[r], hit)
  BY <1>3, <1>4, ResetOK
<1> QED
  BY <1>1, <1>2, <1>5, MadeOK DEF hit, StaysOK

\* GPTLpr_file
LEMMA PrintStepOK ==
  ASSUME TimersKnown, NEW r \in Ranks, PrintTimers(r) PROVE TimersKnown'
<1> DEFINE hit == touched'[r]
<1>1. PICK c \in Calls(r, "pr") : Made(r, c, GPTLpr_file(g[r], Method))
  BY DEF PrintTimers
<1>2. c \in CallRecords /\ Method \in Methods
  BY OfferedIs, SummaryAssumption DEF Calls, Methods
<1>3. LibOK(g[r], hit)
  BY <1>1, <1>2, CallIs
<1> HIDE DEF hit
<1>4. StaysOK(GPTLpr_file(g[r], Method), g[r], hit)
  BY <1>2, <1>3, PrintOK
<1> QED
  BY <1>1, <1>2, <1>4, MadeOK DEF hit, StaysOK

\* Entering and leaving a parallel region
LEMMA RegionOK ==
  ASSUME TimersKnown, NEW r \in Ranks, Region(r) PROVE TimersKnown'
<1>1. PICK c \in Calls(r, "fork") \cup Calls(r, "join") : Made(r, c, g[r])
  BY DEF Region
<1>2. c \in CallRecords
  BY OfferedIs DEF Calls
<1>3. LibOK(g[r], touched'[r])
  BY <1>1, <1>2, CallIs
<1> QED
  BY <1>1, <1>2, <1>3, MadeOK

\* A step that leaves the timers alone
LEMMA TimersLeftAlone ==
  ASSUME TimersKnown, UNCHANGED <<nproc, g, clock, touched, script>> PROVE TimersKnown'
BY DEF TimersKnown, Ranks

\* Every step keeps the invariant; those of collect_data touch no timer.
LEMMA StepTimers == TimersKnown /\ [Next]_vars => TimersKnown'
<1> SUFFICES ASSUME TimersKnown, [Next]_vars PROVE TimersKnown'
  OBVIOUS
<1>1. ASSUME NEW r \in Ranks, TimerCall(r) PROVE TimersKnown'
  BY <1>1, StartTimerOK, StopTimerOK, AddValsOK, PrefixStepOK, SwitchStepOK, ResetStepOK,
     PrintStepOK, RegionOK DEF TimerCall
<1>2. ASSUME NEW r \in Ranks, Collect(r) PROVE TimersKnown'
  <2>1. UNCHANGED <<nproc, g, clock, touched, script>>
    BY <1>2 DEF Collect, BeginSummary, AskCount, TakeCount, MergeSlave, Attend, SendCount,
                AwaitSignal, SendNames, SendStats, Finish, timerVars
  <2> QED
    BY <2>1, TimersLeftAlone
<1>3. ASSUME NEW r \in Ranks, SendReturns(r) PROVE TimersKnown'
  BY <1>3, TimersLeftAlone DEF SendReturns, timerVars
<1>4. ASSUME Deliver PROVE TimersKnown'
  BY <1>4, TimersLeftAlone DEF Deliver, timerVars
<1>5. ASSUME Done \/ UNCHANGED vars PROVE TimersKnown'
  BY <1>5, TimersLeftAlone DEF Done, vars, timerVars
<1> QED
  BY <1>1, <1>2, <1>3, <1>4, <1>5 DEF Next

\* The inductive invariant: on every rank and thread the timers, parents, handles
\* and the stack of gptl.c stay accounted for, whatever calls the program makes.
THEOREM TimersStayKnown == Spec => []TimersKnown
BY InitTimers, StepTimers, PTL DEF Spec

\* A thread never has more timers running than its stack index says and than the
\* depth limit allows, no timer is an orphan, and the calls its parents were credited
\* with (update_parent_info) are the calls it was started for.
THEOREM StacksCover == Spec => []StackCovers
<1>1. TimersKnown => StackCovers
  <2> SUFFICES ASSUME TimersKnown, NEW p \in AllThreads
               PROVE  LET th == g[p[1]].th[p[2]]
                          on == {i \in 2 .. Len(th.timers) : th.timers[i].onflg}
                      IN  /\ th.stackidx >= Cardinality(on)
                          /\ \A i \in 2 .. Len(th.timers) :
                               LET tm == th.timers[i]
                                   called == Called(tm.parent)
                               IN  /\ tm.norphan = 0
                                   /\ called >= 1
                                   /\ tm.recurselvl > 0 => tm.onflg
                                   /\ ~touched[p[1]] =>
                                        called = tm.count - tm.nrecurse + (IF tm.onflg THEN 1 ELSE 0)
    BY DEF StackCovers
  <2> DEFINE th == g[p[1]].th[p[2]]
  <2>1. p[1] \in Ranks /\ p[2] \in Threads
    BY DEF AllThreads
  <2>2. LibOK(g[p[1]], touched[p[1]])
    BY <2>1 DEF TimersKnown
  <2>3. ThreadOK(th, g[p[1]].depthlimit, touched[p[1]])
    BY <2>1, <2>2 DEF LibOK
  <2> HIDE DEF th
  <2>4. th.stackidx >= Cardinality(On(th.timers))
    <3>1. th.stackidx \in Nat /\ th.timers \in Seq(Timer)
      BY <2>3 DEF ThreadOK, Thread
    <3>2. Cardinality(On(th.timers)) \in Nat
      BY <3>1, OnIsFinite
    <3> QED
      BY <2>3, <3>1, <3>2 DEF ThreadOK
  <2>5. \A i \in 2 .. Len(th.timers) : TimerOK(th.timers[i], touched[p[1]])
    BY <2>3 DEF ThreadOK, TimersOK
  <2> QED
    BY <2>4, <2>5 DEF th, On, TimerOK
<1> QED
  BY <1>1, TimersStayKnown, PTL

\* newchild of gptl.c never closes a loop: GPTLpr_file can walk down from any timer
\* and never meets it again.
THEOREM TreesHaveNoLoops == Spec => []TreeHasNoLoops
<1>1. TimersKnown => TreeHasNoLoops
  <2> SUFFICES ASSUME TimersKnown, NEW p \in AllThreads,
                      NEW i \in DOMAIN g[p[1]].th[p[2]].timers
               PROVE  i \notin Below(g[p[1]].th[p[2]].timers, i)
    BY DEF TreeHasNoLoops, is_descendant
  <2> DEFINE T == g[p[1]].th[p[2]].timers
  <2>1. LibOK(g[p[1]], touched[p[1]]) /\ p[2] \in Threads
    BY DEF AllThreads, TimersKnown
  <2>2. TimersOK(T, touched[p[1]])
    BY <2>1 DEF LibOK, ThreadOK
  <2>3. T \in Seq(Timer) /\ Tree(T)
    BY <2>2 DEF TimersOK
  <2>4. i \in 1 .. Len(T)
    BY <2>3
  <2> QED
    BY <2>3, <2>4 DEF Tree
<1> QED
  BY <1>1, TimersStayKnown, PTL

(***************************************************************************)
(* The stopwatches that a thread's timers stand for.                       *)
(***************************************************************************)
At(T, k) == {i \in 2 .. Len(T) : T[i].name = k}
PlaceIn(T, k) == IF At(T, k) = {} THEN 0 ELSE Min(At(T, k))

Still == [runs |-> 0, since |-> 0, total |-> 0, calls |-> 0]

WatchOf(tm) == [runs  |-> IF tm.onflg THEN 1 + tm.recurselvl ELSE 0,
                since |-> IF tm.onflg THEN tm.last ELSE 0,
                total |-> tm.accum, calls |-> tm.count]

Read(T, k) == IF PlaceIn(T, k) = 0 THEN Still ELSE WatchOf(T[PlaceIn(T, k)])
Row(T) == [k \in Keys |-> Read(T, k)]

\* Each timer of a thread has a name of its own, one of those in Keys.
Named(T) == /\ \A i \in 2 .. Len(T) : T[i].name \in Keys
            /\ \A i, j \in 2 .. Len(T) : T[i].name = T[j].name => i = j

\* The place of a name is the one timer that has it.
LEMMA PlaceIs ==
  ASSUME NEW T \in Seq(Timer), Named(T), NEW k
  PROVE  /\ PlaceIn(T, k) \in {0} \cup 2 .. Len(T)
         /\ PlaceIn(T, k) # 0 => T[PlaceIn(T, k)].name = k
         /\ \A i \in 2 .. Len(T) : T[i].name = k => PlaceIn(T, k) = i
         /\ PlaceIn(T, k) = 0 => \A i \in 2 .. Len(T) : T[i].name # k
<1>1. Len(T) \in Nat /\ At(T, k) \subseteq 2 .. Len(T) /\ 2 .. Len(T) \subseteq Nat
  BY DEF At
<1>2. At(T, k) # {} => Min(At(T, k)) \in At(T, k)
  BY <1>1, MinIsIn
<1>3. \A i \in 2 .. Len(T) : T[i].name = k => i \in At(T, k)
  BY DEF At
<1>4. \A i \in At(T, k) : i \in 2 .. Len(T) /\ T[i].name = k
  BY DEF At
<1>5. PlaceIn(T, k) # 0 => PlaceIn(T, k) \in At(T, k)
  BY <1>2 DEF PlaceIn
<1>6. PlaceIn(T, k) = 0 => At(T, k) = {}
  <2>1. \A i \in 2 .. Len(T) : i # 0
    BY <1>1
  <2> QED
    BY <1>1, <1>2, <2>1 DEF PlaceIn
<1>7. ASSUME NEW i \in 2 .. Len(T), T[i].name = k PROVE PlaceIn(T, k) = i
  <2>1. i \in At(T, k)
    BY <1>3, <1>7
  <2>2. PlaceIn(T, k) \in 2 .. Len(T) /\ T[PlaceIn(T, k)].name = k
    BY <1>4, <1>5, <1>6, <2>1
  <2> QED
    BY <1>7, <2>2 DEF Named
<1> QED
  BY <1>3, <1>4, <1>5, <1>6, <1>7

\* Timer i is the one of the name k, or the next one if there is none.
Its(T, k, i) == i = IF PlaceIn(T, k) = 0 THEN Len(T) + 1 ELSE PlaceIn(T, k)

\* A timer of the name k changed or added changes what is read of k only.
LEMMA RowChange ==
  ASSUME NEW T \in Seq(Timer), Named(T), Len(T) >= 1, NEW U, NEW i, Changed(T, U, i),
         NEW k \in Keys, U[i].name = k, Its(T, k, i)
  PROVE  /\ Named(U)
         /\ Row(U) = [Row(T) EXCEPT ![k] = WatchOf(U[i])]
         /\ PlaceIn(U, k) = i
         /\ \A j \in 1 .. Len(T) : U[j].name = T[j].name
<1>0. i = IF PlaceIn(T, k) = 0 THEN Len(T) + 1 ELSE PlaceIn(T, k)
  BY DEF Its
<1>1. /\ U \in Seq(Timer) /\ Len(U) \in Nat /\ Len(T) \in Nat /\ i \in 2 .. Len(U)
      /\ Len(U) = Len(T) \/ (Len(U) = Len(T) + 1 /\ i = Len(U))
      /\ \A j \in 1 .. Len(T) : j # i => U[j] = T[j]
  BY DEF Changed
<1>2. /\ PlaceIn(T, k) \in {0} \cup 2 .. Len(T)
      /\ PlaceIn(T, k) # 0 => T[PlaceIn(T, k)].name = k
      /\ \A j \in 2 .. Len(T) : T[j].name = k => PlaceIn(T, k) = j
      /\ PlaceIn(T, k) = 0 => \A j \in 2 .. Len(T) : T[j].name # k
  BY PlaceIs
<1>3. \A j \in 2 .. Len(U) : j # i => j \in 2 .. Len(T) /\ U[j] = T[j]
  BY <1>1
<1>4. \A j \in 2 .. Len(T) : j # i => T[j].name # k
  <2>1. ASSUME NEW j \in 2 .. Len(T), T[j].name = k PROVE j = i
    BY <1>0, <1>2, <2>1
  <2> QED
    BY <2>1
<1>5. \A j \in 1 .. Len(T) : U[j].name = T[j].name
  <2> SUFFICES ASSUME NEW j \in 1 .. Len(T) PROVE U[j].name = T[j].name
    OBVIOUS
  <2>1. CASE j # i
    BY <1>1, <2>1
  <2>2. CASE j = i
    <3>1. PlaceIn(T, k) = i /\ T[i].name = k
      BY <1>0, <1>1, <1>2, <2>2
    <3> QED
      BY <2>2, <3>1
  <2> QED
    BY <2>1, <2>2
<1>6. Named(U)
  <2>1. \A j \in 2 .. Len(U) : U[j].name \in Keys
    BY <1>3 DEF Named
  <2>2. \A j \in 2 .. Len(U) : j # i => U[j].name # k
    BY <1>3, <1>4
  <2>3. ASSUME NEW a \in 2 .. Len(U), NEW b \in 2 .. Len(U), U[a].name = U[b].name PROVE a = b
    <3>1. CASE a = i \/ b = i
      BY <2>2, <2>3, <3>1
    <3>2. CASE a # i /\ b # i
      <4>1. a \in 2 .. Len(T) /\ b \in 2 .. Len(T) /\ T[a].name = T[b].name
        BY <1>3, <2>3, <3>2
      <4> QED
        BY <4>1 DEF Named
    <3> QED
      BY <3>1, <3>2
  <2> QED
    BY <2>1, <2>3 DEF Named
<1>7. PlaceIn(U, k) = i
  BY <1>1, <1>6, PlaceIs
<1>8. ASSUME NEW n \in Keys PROVE Read(U, n) = IF n = k THEN WatchOf(U[i]) ELSE Read(T, n)
  <2>1. CASE n = k
    <3>1. i # 0
      BY <1>1
    <3> QED
      BY <1>7, <2>1, <3>1 DEF Read
  <2>2. CASE n # k
    <3> DEFINE p == PlaceIn(T, n)
               q == PlaceIn(U, n)
    <3>1. /\ p \in {0} \cup 2 .. Len(T)
          /\ p # 0 => T[p].name = n
          /\ \A j \in 2 .. Len(T) : T[j].name = n => p = j
      BY PlaceIs
    <3>2. /\ q \in {0} \cup 2 .. Len(U)
          /\ q # 0 => U[q].name = n
          /\ \A j \in 2 .. Len(U) : U[j].name = n => q = j
      BY <1>1, <1>6, PlaceIs
    <3> HIDE DEF p, q
    <3>3. ASSUME q # 0 PROVE p = q /\ T[q] = U[q]
      <4>1. q \in 2 .. Len(U) /\ q # i
        BY <2>2, <3>2, <3>3
      <4>2. q \in 2 .. Len(T) /\ U[q] = T[q]
        BY <1>3, <4>1
      <4> QED
        BY <3>1, <3>2, <3>3, <4>2
    <3>4. ASSUME p # 0 PROVE p = q
      <4>1. p \in 2 .. Len(T) /\ p \in 2 .. Len(U) /\ p \in 1 .. Len(T) /\ p # 0
        BY <1>1, <3>1, <3>4
      <4>2. U[p].name = n
        BY <1>5, <3>1, <4>1
      <4> QED
        BY <3>2, <4>1, <4>2
    <3> QED
      BY <2>2, <3>3, <3>4 DEF Read, p, q
  <2> QED
    BY <2>1, <2>2
<1> QED
  BY <1>5, <1>6, <1>7, <1>8 DEF Row

\* Name prefixes as they are kept
Cut == {Clip(p1) : p1 \in PrefixNames}

\* What is kept of names: a timer has a name of its own, a handle is the place
\* of the timer of its name, and there is no timer before a thread's number
\* was asked for.
HandlesNamed(th) ==
  \A n \in Names : th.handle[n] # 0 => th.timers[th.handle[n]].name = Clip(n)

ThreadNames(th) == Named(th.timers) /\ HandlesNamed(th) /\ th.prefix \in Cut

LibNames(lib) ==
  /\ lib.prefix_nt \in Cut
  /\ \A t \in Threads : ThreadNames(lib.th[t])
  /\ lib.nthreads = -1 => \A t \in Threads : Len(lib.th[t].timers) = 1

\* A Fortran name finds the timer of its own name, as no key begins another one
\* of its bucket; a C name does when it is not cut.
LEMMA FindsPlace ==
  ASSUME NEW th \in Thread, Named(th.timers), NEW full \in Seq(Int), Clip(full) \in Keys
  PROVE  /\ getentryf(th, full) = PlaceIn(th.timers, Clip(full))
         /\ Len(full) <= MAX_CHARS => getentry(th, full) = PlaceIn(th.timers, Clip(full))
<1> DEFINE T == th.timers
           k == Clip(full)
           A == {i \in 2 .. Len(th.timers) :
                   Hash(th.timers[i].name) = Hash(Clip(full)) /\ th.timers[i].name = full}
           B == {i \in 2 .. Len(th.timers) :
                   /\ Hash(th.timers[i].name) = Hash(Clip(full))
                   /\ IsPrefix(Clip(full), th.timers[i].name)}
<1>1. getentry(th, full) = IF A = {} THEN 0 ELSE Min(A)
  BY DEF getentry, FirstIn
<1>2. getentryf(th, full) = IF B = {} THEN 0 ELSE Min(B)
  BY DEF getentryf, FirstIn
<1>3. k \in Seq(Int)
  BY ClipName
<1>4. IsPrefix(k, k)
  <2>1. Len(k) \in Nat
    BY <1>3
  <2> QED
    BY <2>1 DEF IsPrefix
<1>5. \A i \in 2 .. Len(T) : T[i].name \in Keys
  BY DEF Named
<1>6. \A i \in 2 .. Len(T) : T[i].name = k \/ ~(Hash(T[i].name) = Hash(k) /\ IsPrefix(k, T[i].name))
  <2> SUFFICES ASSUME NEW i \in 2 .. Len(T), T[i].name # k, IsPrefix(k, T[i].name)
               PROVE  Hash(T[i].name) # Hash(k)
    OBVIOUS
  <2> DEFINE held == T[i].name
  <2>1. held \in Keys /\ held # k /\ IsPrefix(k, held)
    BY <1>5
  <2> HIDE DEF held, k
  <2> QED
    BY <2>1, PrefixesApart DEF held, k
<1>7. B = At(T, k)
  BY <1>4, <1>6 DEF At
<1>8. ASSUME Len(full) <= MAX_CHARS PROVE A = At(T, k)
  <2>1. k = full
    BY <1>8, ClipName
  <2> HIDE DEF k
  <2> QED
    BY <2>1 DEF At, k
<1> HIDE DEF A, B
<1> QED
  BY <1>1, <1>2, <1>7, <1>8 DEF PlaceIn

\* The full name is one of the keys, and short when the callers' name is.
LEMMA FullNameKey ==
  ASSUME NEW lib \in Lib, LibNames(lib), NEW t \in Threads, NEW name \in Names
  PROVE  /\ FullName(lib, t, name) \in Seq(Int) /\ name \in Seq(Int)
         /\ Clip(FullName(lib, t, name)) \in Keys
         /\ Len(name) <= MAX_CHARS => Len(FullName(lib, t, name)) <= MAX_CHARS
         /\ ~Prefixed(lib, t) => FullName(lib, t, name) = name
<1> DEFINE full == FullName(lib, t, name)
           p0 == lib.prefix_nt
           p1 == lib.th[t].prefix
<1>1. name \in Seq(Int) /\ PrefixNames \subseteq Seq(Int) /\ <<>> \in PrefixNames
  BY SummaryAssumption
<1>2. full \in Seq(Int)
  BY <1>1, FullNameIs
<1>3. p0 \in Cut /\ p1 \in Cut /\ p0 \in Seq(Int) /\ p1 \in Seq(Int)
  BY DEF LibNames, ThreadNames, Lib, Thread
<1>4. PICK q0 \in PrefixNames, q1 \in PrefixNames : p0 = Clip(q0) /\ p1 = Clip(q1)
  BY <1>3 DEF Cut
<1>5. full = IF p0 # <<>> \/ p1 # <<>> THEN Clip(p0 \o p1 \o name) ELSE name
  BY DEF FullName, Prefixed, add_prefix
<1>6. p0 \o p1 \o name \in Seq(Int)
  BY <1>1, <1>3
<1>7. Clip(Clip(p0 \o p1 \o name)) = Clip(p0 \o p1 \o name)
      /\ Len(Clip(p0 \o p1 \o name)) <= MAX_CHARS
  BY <1>6, ClipName
<1> HIDE DEF p0, p1, full
<1>8. ASSUME p0 = <<>>, p1 = <<>> PROVE p0 \o p1 \o name = name
  BY <1>1, <1>8
<1>9. Clip(full) = Clip(p0 \o p1 \o name)
  BY <1>5, <1>7, <1>8
<1>10. Clip(full) \in Keys
  BY <1>4, <1>9 DEF Keys
<1>11. Len(name) <= MAX_CHARS => Len(full) <= MAX_CHARS
  BY <1>5, <1>7
<1>12. ~Prefixed(lib, t) => full = name
  BY DEF full, FullName
<1> QED
  BY <1>1, <1>2, <1>10, <1>11, <1>12 DEF full

\* What is read of the library
Reads(lib) == [t \in Threads |-> Row(lib.th[t].timers)]
Stacks(lib) == [t \in Threads |-> lib.th[t].stackidx]

\* The library "after" is lib with the timers and the stack of one thread changed.
Rewritten(lib, after, t, new) ==
  /\ LibNames(after) /\ after \in Lib
  /\ Reads(after) = [Reads(lib) EXCEPT ![t] = Row(new.timers)]
  /\ Stacks(after) = [Stacks(lib) EXCEPT ![t] = new.stackidx]
  /\ after.disabled = lib.disabled /\ after.depthlimit = lib.depthlimit
  /\ after.prefix_nt = lib.prefix_nt /\ after.th = [lib.th EXCEPT ![t] = new]

SameLength(th, new) == Len(new.timers) = Len(th.timers)

\* What is read of the other threads stays.
LEMMA ReadsChange ==
  ASSUME NEW lib \in Lib, LibNames(lib), NEW t \in Threads, NEW new \in Thread, ThreadNames(new)
  PROVE  /\ Rewritten(lib, AtThread(lib, t, new), t, new)
         /\ SameLength(lib.th[t], new) => Rewritten(lib, SetThread(lib, t, new), t, new)
<1>1. SUFFICES ASSUME NEW after, after = AtThread(lib, t, new)
                        \/ (after = SetThread(lib, t, new) /\ SameLength(lib.th[t], new))
               PROVE  Rewritten(lib, after, t, new)
  OBVIOUS
<1>2. /\ after = [lib EXCEPT !.nthreads = after.nthreads, !.th = [lib.th EXCEPT ![t] = new]]
      /\ after.nthreads \in {lib.nthreads, maxthreads}
      /\ after = AtThread(lib, t, new) => after.nthreads = maxthreads
      /\ after = SetThread(lib, t, new) => after.nthreads = lib.nthreads
  BY <1>1 DEF AtThread, SetThread, get_thread_num, Lib
<1>3. /\ after \in Lib /\ after.disabled = lib.disabled /\ after.depthlimit = lib.depthlimit
      /\ after.prefix_nt = lib.prefix_nt /\ after.th = [lib.th EXCEPT ![t] = new]
      /\ lib.th \in [Threads -> Thread]
  BY <1>2 DEF Lib
<1>4. after.th[t] = new /\ \A u \in Threads : u # t => after.th[u] = lib.th[u]
  BY <1>3
<1>5. Reads(after) = [Reads(lib) EXCEPT ![t] = Row(new.timers)]
  BY <1>4 DEF Reads
<1>6. Stacks(after) = [Stacks(lib) EXCEPT ![t] = new.stackidx]
  BY <1>4 DEF Stacks
<1>7. maxthreads # -1
  BY GptlAssumption
<1>8. ASSUME after.nthreads = -1 PROVE \A u \in Threads : Len(after.th[u].timers) = 1
  <2>1. lib.nthreads = -1 /\ Len(new.timers) = Len(lib.th[t].timers)
    BY <1>1, <1>2, <1>7, <1>8 DEF SameLength
  <2>2. \A u \in Threads : Len(lib.th[u].timers) = 1
    BY <2>1 DEF LibNames
  <2> QED
    BY <1>4, <2>1, <2>2
<1>9. LibNames(after)
  BY <1>3, <1>4, <1>8 DEF LibNames
<1> QED
  BY <1>3, <1>5, <1>6, <1>9 DEF Rewritten

(***************************************************************************)
(* What a start and a stop make of a stopwatch.                            *)
(***************************************************************************)
Watch == [runs : Nat, since : Int, total : Int, calls : Nat]

Begun(w, now) == IF w.runs = 0 THEN [w EXCEPT !.runs = 1, !.since = now]
                 ELSE [w EXCEPT !.runs = @ + 1]

Halted(w, now) ==
  IF w.runs = 1
  THEN [w EXCEPT !.runs = 0, !.since = 0, !.calls = @ + 1, !.total = @ + now - w.since]
  ELSE [w EXCEPT !.runs = @ - 1, !.calls = @ + 1]

\* The stopwatch of a timer
LEMMA WatchIs ==
  ASSUME NEW tm \in Timer
  PROVE  /\ WatchOf(tm) \in Watch
         /\ WatchOf(tm).total = tm.accum /\ WatchOf(tm).calls = tm.count
         /\ tm.onflg = TRUE => WatchOf(tm).runs = 1 + tm.recurselvl /\ WatchOf(tm).since = tm.last
         /\ tm.onflg = FALSE => WatchOf(tm).runs = 0 /\ WatchOf(tm).since = 0
<1>1. tm.onflg \in BOOLEAN /\ tm.recurselvl \in Nat /\ tm.last \in Int /\ tm.accum \in Int
      /\ tm.count \in Nat
  BY DEF Timer
<1>2. CASE tm.onflg = TRUE
  BY <1>1, <1>2 DEF WatchOf, Watch
<1>3. CASE tm.onflg = FALSE
  BY <1>1, <1>3 DEF WatchOf, Watch
<1> QED
  BY <1>1, <1>2, <1>3

\* Two stopwatches that agree are the same.
LEMMA SameWatch ==
  ASSUME NEW v \in Watch, NEW w \in Watch, v.runs = w.runs, v.since = w.since,
         v.total = w.total, v.calls = w.calls
  PROVE  v = w
BY DEF Watch

\* A stopwatch with other numbers
SetWatch(w, r, s, x, n) == [w EXCEPT !.runs = r, !.since = s, !.calls = n, !.total = x]

\* Setting the numbers of a stopwatch
LEMMA WatchSet ==
  ASSUME NEW w \in Watch, NEW r \in Nat, NEW s \in Int, NEW x \in Int, NEW n \in Nat
  PROVE  LET b == SetWatch(w, r, s, x, n)
         IN  b \in Watch /\ b.runs = r /\ b.since = s /\ b.total = x /\ b.calls = n
BY DEF Watch, SetWatch

\* The first start
LEMMA WatchPushed ==
  ASSUME NEW kt, NEW tm, NEW L, NEW now \in Int, NEW hit, PushedOK(kt, tm, L, now, hit)
  PROVE  WatchOf(tm) = Begun(WatchOf(kt), now) /\ WatchOf(kt).runs = 0
<1>1. /\ kt \in Timer /\ tm \in Timer /\ kt.onflg = FALSE /\ tm.onflg = TRUE
      /\ tm.recurselvl = 0 /\ tm.last = now /\ tm.count = kt.count /\ tm.accum = kt.accum
  BY DEF PushedOK
<1> DEFINE v == WatchOf(tm)
           w == WatchOf(kt)
           b == Begun(w, now)
<1>2. /\ v \in Watch /\ v.total = tm.accum /\ v.calls = tm.count
      /\ v.runs = 1 + tm.recurselvl /\ v.since = tm.last
  BY <1>1, WatchIs
<1>3. /\ w \in Watch /\ w.total = kt.accum /\ w.calls = kt.count /\ w.runs = 0
  BY <1>1, WatchIs
<1> HIDE DEF v, w
<1>4. b \in Watch /\ b.runs = 1 /\ b.since = now /\ b.total = w.total /\ b.calls = w.calls
  BY <1>3 DEF Begun, Watch
<1> HIDE DEF b
<1>5. v = b
  BY <1>1, <1>2, <1>3, <1>4, SameWatch
<1> QED
  BY <1>3, <1>5 DEF v, w, b

\* A repeated start
LEMMA WatchAgain ==
  ASSUME NEW tm \in Timer, tm.onflg = TRUE, NEW new \in Timer, new.onflg = TRUE,
         new.recurselvl = tm.recurselvl + 1, new.last = tm.last, new.count = tm.count,
         new.accum = tm.accum, NEW now \in Int
  PROVE  WatchOf(new) = Begun(WatchOf(tm), now) /\ WatchOf(tm).runs # 0
<1> DEFINE v == WatchOf(new)
           w == WatchOf(tm)
           b == Begun(w, now)
<1>1. tm.recurselvl \in Nat /\ new.recurselvl \in Nat
  BY DEF Timer
<1>2. /\ v \in Watch /\ v.total = new.accum /\ v.calls = new.count
      /\ v.runs = 1 + new.recurselvl /\ v.since = new.last
  BY WatchIs
<1>3. /\ w \in Watch /\ w.total = tm.accum /\ w.calls = tm.count
      /\ w.runs = 1 + tm.recurselvl /\ w.since = tm.last
  BY WatchIs
<1> HIDE DEF v, w
<1>4. w.runs # 0 /\ w.runs \in Nat
  BY <1>1, <1>3
<1>5. b \in Watch /\ b.runs = w.runs + 1 /\ b.since = w.since /\ b.total = w.total /\ b.calls = w.calls
  BY <1>3, <1>4 DEF Begun, Watch
<1> HIDE DEF b
<1>6. v = b
  BY <1>1, <1>2, <1>3, <1>5, SameWatch
<1> QED
  BY <1>4, <1>6 DEF v, w, b

\* The stop that matches the first start
LEMMA WatchStopped ==
  ASSUME NEW tm \in Timer, tm.onflg = TRUE, tm.recurselvl = 0, NEW new \in Timer,
         new.onflg = FALSE, new.count = tm.count + 1, NEW now \in Int,
         new.accum = tm.accum + (now - tm.last)
  PROVE  WatchOf(new) = Halted(WatchOf(tm), now) /\ WatchOf(tm).runs = 1
         /\ WatchOf(tm).since = tm.last
<1> DEFINE v == WatchOf(new)
           w == WatchOf(tm)
           b == Halted(w, now)
<1>1. tm.last \in Int /\ tm.accum \in Int /\ tm.count \in Nat
  BY DEF Timer
<1>2. /\ v \in Watch /\ v.total = new.accum /\ v.calls = new.count
      /\ v.runs = 0 /\ v.since = 0
  BY WatchIs
<1>3a. /\ w \in Watch /\ w.total = tm.accum /\ w.calls = tm.count
       /\ w.runs = 1 + tm.recurselvl /\ w.since = tm.last
  BY WatchIs
<1>3. /\ w \in Watch /\ w.total = tm.accum /\ w.calls = tm.count
      /\ w.runs = 1 /\ w.since = tm.last
  BY <1>3a
<1> HIDE DEF v, w
<1>4. w.total + now - w.since \in Int /\ w.calls + 1 \in Nat
  BY <1>1, <1>3
<1>4a. b = [w EXCEPT !.runs = 0, !.since = 0, !.calls = w.calls + 1,
                     !.total = w.total + now - w.since]
  BY <1>3 DEF Halted
<1> HIDE DEF b
<1>5. b \in Watch /\ b.runs = 0 /\ b.since = 0 /\ b.total = w.total + now - w.since
      /\ b.calls = w.calls + 1
  <2> DEFINE n == w.calls + 1
             sum == w.total + now - w.since
  <2>1. n \in Nat /\ sum \in Int /\ b = SetWatch(w, 0, 0, sum, n)
    BY <1>4, <1>4a DEF SetWatch
  <2> HIDE DEF n, sum
  <2>2. b \in Watch /\ b.runs = 0 /\ b.since = 0 /\ b.total = sum /\ b.calls = n
    BY <1>3, <2>1, WatchSet
  <2> QED
    BY <2>2 DEF n, sum
<1>6. v = b
  BY <1>1, <1>2, <1>3, <1>5, SameWatch
<1> QED
  BY <1>3, <1>6 DEF v, w, b

\* The stop of a repeated start
LEMMA WatchStoppedAgain ==
  ASSUME NEW tm \in Timer, tm.onflg = TRUE, tm.recurselvl > 0, NEW new \in Timer,
         new.onflg = TRUE, new.recurselvl = tm.recurselvl - 1, new.last = tm.last,
         new.count = tm.count + 1, new.accum = tm.accum, NEW now \in Int
  PROVE  WatchOf(new) = Halted(WatchOf(tm), now) /\ WatchOf(tm).runs \notin {0, 1}
<1> DEFINE v == WatchOf(new)
           w == WatchOf(tm)
           b == Halted(w, now)
<1>1. tm.recurselvl \in Nat /\ new.recurselvl \in Nat /\ tm.count \in Nat
  BY DEF Timer
<1>2. /\ v \in Watch /\ v.total = new.accum /\ v.calls = new.count
      /\ v.runs = 1 + new.recurselvl /\ v.since = new.last
  BY WatchIs
<1>3. /\ w \in Watch /\ w.total = tm.accum /\ w.calls = tm.count
      /\ w.runs = 1 + tm.recurselvl /\ w.since = tm.last
  BY WatchIs
<1> HIDE DEF v, w
<1>4. w.runs \notin {0, 1} /\ w.runs - 1 \in Nat /\ w.calls + 1 \in Nat
  BY <1>1, <1>3
<1>5. b \in Watch /\ b.runs = w.runs - 1 /\ b.since = w.since /\ b.total = w.total
      /\ b.calls = w.calls + 1
  BY <1>3, <1>4 DEF Halted, Watch
<1> HIDE DEF b
<1>6. v = b
  BY <1>1, <1>2, <1>3, <1>5, SameWatch
<1> QED
  BY <1>4, <1>6 DEF v, w, b

\* A new timer stands for a stopwatch that was never started.
LEMMA WatchNew ==
  ASSUME NEW name \in Seq(Int)
  PROVE  WatchOf(NewTimer(name)) = Still
BY DEF WatchOf, NewTimer, Still

\* What is read of a thread
LEMMA ReadIs ==
  ASSUME NEW T \in Seq(Timer), Named(T), NEW k
  PROVE  /\ Read(T, k) \in Watch
         /\ PlaceIn(T, k) = 0 => Read(T, k) = Still
         /\ PlaceIn(T, k) # 0 => Read(T, k) = WatchOf(T[PlaceIn(T, k)])
         /\ Read(T, k).runs # 0 <=> PlaceIn(T, k) # 0 /\ T[PlaceIn(T, k)].onflg
<1> DEFINE p == PlaceIn(T, k)
<1>1. p \in {0} \cup 2 .. Len(T)
  BY PlaceIs
<1>2. Len(T) \in Nat
  OBVIOUS
<1> HIDE DEF p
<1>3. CASE p = 0
  <2>1. Read(T, k) = Still
    BY <1>3 DEF Read, p
  <2>2. Still \in Watch /\ Still.runs = 0
    BY DEF Still, Watch
  <2> QED
    BY <1>3, <2>1, <2>2 DEF p
<1>4. CASE p # 0
  <2>1. p \in 1 .. Len(T)
    BY <1>1, <1>2, <1>4
  <2>2. T[p] \in Timer
    BY <2>1, ElementsOfSeq
  <2>3. Read(T, k) = WatchOf(T[p])
    BY <1>4 DEF Read, p
  <2>4. T[p].onflg \in BOOLEAN /\ T[p].recurselvl \in Nat
    BY <2>2 DEF Timer
  <2>5. WatchOf(T[p]) \in Watch
    BY <2>2, WatchIs
  <2>6. CASE T[p].onflg = TRUE
    <3>1. WatchOf(T[p]).runs = 1 + T[p].recurselvl
      BY <2>2, <2>6, WatchIs
    <3> QED
      BY <1>4, <2>3, <2>4, <2>5, <2>6, <3>1 DEF p
  <2>7. CASE T[p].onflg = FALSE
    <3>1. WatchOf(T[p]).runs = 0
      BY <2>2, <2>7, WatchIs
    <3> QED
      BY <1>4, <2>3, <2>5, <2>7, <3>1 DEF p
  <2> QED
    BY <2>4, <2>6, <2>7
<1> QED
  BY <1>3, <1>4

\* A thread whose stopwatch k was started at "now", or only counted as the
\* stack is full
StartRead(th, new, k, now) ==
  /\ Named(new.timers)
  /\ \A j \in 1 .. Len(th.timers) : new.timers[j].name = th.timers[j].name
  /\ new.stackidx = IF Read(th.timers, k).runs = 0 THEN th.stackidx + 1 ELSE th.stackidx
  /\ Row(new.timers) = IF Read(th.timers, k).runs = 0 /\ th.stackidx + 1 >= MAX_STACK
                       THEN Row(th.timers)
                       ELSE [Row(th.timers) EXCEPT ![k] = Begun(@, now)]

\* The place of the timer for a caller's handle
PlaceNamed(th, new, found, k) ==
  StartPlace(th, new, found) # 0 =>
    /\ StartPlace(th, new, found) \in 2 .. Len(new.timers)
    /\ new.timers[StartPlace(th, new, found)].name = k

\* A start does to the stopwatch what it promises.
LEMMA StartFoundReads ==
  ASSUME NEW limit \in Nat, NEW hit, NEW th, ThreadOK(th, limit, hit), th.stackidx < limit,
         Named(th.timers), NEW name \in Seq(Int), NEW k \in Keys, k = Clip(name), NEW now \in Int
  PROVE  /\ StartRead(th, StartFound(th, PlaceIn(th.timers, k), name, now), k, now)
         /\ PlaceNamed(th, StartFound(th, PlaceIn(th.timers, k), name, now),
                       PlaceIn(th.timers, k), k)
<1> DEFINE T == th.timers
           p == PlaceIn(T, k)
           w == Read(T, k)
           K == Known(T, p, name)
           i == PlaceOf(T, p)
           s == th.stackidx + 1
           new == StartFound(th, p, name, now)
<1>1. th \in Thread /\ T \in Seq(Timer) /\ TimersOK(T, hit) /\ Len(T) \in Nat /\ Len(T) >= 1
      /\ th.stackidx \in Nat /\ th.callstack \in [0 .. MAX_STACK - 1 -> Nat] /\ MAX_STACK \in Nat
  BY GptlAssumption DEF ThreadOK, Thread, TimersOK
<1>2. /\ p \in {0} \cup 2 .. Len(T)
      /\ p # 0 => T[p].name = k
  BY <1>1, PlaceIs
<1>3. /\ w \in Watch
      /\ p = 0 => w = Still
      /\ p # 0 => w = WatchOf(T[p])
      /\ w.runs # 0 <=> p # 0 /\ T[p].onflg
  BY <1>1, ReadIs
<1>4. Row(T)[k] = w
  BY DEF Row
<1>5a. new = StartedThread(th, p, name, now)
  BY <1>1, <1>2, StartShape
<1> HIDE DEF p, w
<1>5. new = IF p # 0 /\ T[p].onflg
            THEN [th EXCEPT !.timers = With(T, p, StartedAgain(T[p]))]
            ELSE IF s > MAX_STACK - 1 THEN [th EXCEPT !.stackidx = s]
            ELSE [th EXCEPT !.timers = With(K, i, StartedTimer(K[i], th.callstack[th.stackidx], now)),
                            !.stackidx = s, !.callstack = [th.callstack EXCEPT ![s] = i]]
  BY <1>5a DEF StartedThread
<1>6. CASE p # 0 /\ T[p].onflg
  <2> DEFINE tm == StartedAgain(T[p])
             U == With(T, p, tm)
  <2>1. p \in 2 .. Len(T) /\ T[p] \in Timer /\ TimerOK(T[p], hit)
        /\ ParentsIn(T[p], Len(T)) /\ p \in 1 .. Len(T) /\ T[p].onflg
    BY <1>1, <1>2, <1>6, ThreadTimer DEF TimersOK
  <2>2. /\ tm \in Timer /\ tm.onflg = TRUE /\ tm.last = T[p].last /\ tm.name = T[p].name
        /\ tm.count = T[p].count /\ tm.accum = T[p].accum
        /\ tm.recurselvl = T[p].recurselvl + 1
    BY <2>1, StartedAgainOK
  <2>3. Changed(T, U, p) /\ Len(U) = Len(T) /\ U[p] = tm
    <3> HIDE DEF tm
    <3> QED
      BY <1>1, <2>1, <2>2, WithChanges
  <2>4. T[p].onflg = TRUE
    BY <2>1 DEF Timer
  <2>5. WatchOf(tm) = Begun(WatchOf(T[p]), now)
    BY <2>1, <2>2, <2>4, WatchAgain
  <2>6. new = [th EXCEPT !.timers = U]
    BY <1>5, <1>6
  <2>7. new.timers = U /\ new.stackidx = th.stackidx
    <3> HIDE DEF U
    <3> QED
      BY <1>1, <2>6 DEF Thread
  <2> HIDE DEF U, tm
  <2>8. U[p].name = k
    BY <1>2, <2>1, <2>2, <2>3
  <2>9. Its(T, k, p)
    BY <1>6 DEF p, Its
  <2>10. /\ Named(U) /\ Row(U) = [Row(T) EXCEPT ![k] = WatchOf(U[p])]
         /\ \A j \in 1 .. Len(T) : U[j].name = T[j].name
    BY <1>1, <2>3, <2>8, <2>9, RowChange
  <2>11. w.runs # 0 /\ w = WatchOf(T[p])
    BY <1>3, <1>6
  <2>12. Row(U) = [Row(T) EXCEPT ![k] = Begun(@, now)]
    BY <1>4, <2>3, <2>5, <2>10, <2>11
  <2> HIDE DEF new
  <2>13. StartRead(th, new, k, now)
    BY <2>7, <2>10, <2>11, <2>12 DEF StartRead, w
  <2>14. PlaceNamed(th, new, p, k)
    BY <1>6, <2>1, <2>3, <2>7, <2>8 DEF PlaceNamed, StartPlace
  <2> QED
    BY <2>13, <2>14 DEF new, p
<1>7. CASE ~(p # 0 /\ T[p].onflg) /\ s > MAX_STACK - 1
  <2>1. new = [th EXCEPT !.stackidx = s]
    BY <1>5, <1>7
  <2>2. new.timers = T /\ new.stackidx = s
    <3>1. s \in Nat
      BY <1>1
    <3> HIDE DEF new, s
    <3> QED
      BY <1>1, <2>1, <3>1 DEF Thread
  <2>3. w.runs = 0 /\ th.stackidx + 1 >= MAX_STACK
    BY <1>1, <1>3, <1>7
  <2> HIDE DEF new
  <2>4. StartRead(th, new, k, now)
    BY <2>2, <2>3 DEF StartRead, w
  <2>5. PlaceNamed(th, new, p, k)
    BY <1>1, <1>2, <2>2 DEF PlaceNamed, StartPlace
  <2> QED
    BY <2>4, <2>5 DEF new, p
<1>8. CASE ~(p # 0 /\ T[p].onflg) /\ ~(s > MAX_STACK - 1)
  <2> DEFINE kt == K[i]
             tm == StartedTimer(kt, th.callstack[th.stackidx], now)
             U == With(K, i, tm)
  <2>1. Pushes(th, p)
    BY <1>1, <1>8 DEF Pushes
  <2>2. PushedOK(kt, tm, Len(K), now, hit)
    BY <1>2, <2>1, Pushed
  <2>3. /\ i = IF p = 0 THEN Len(T) + 1 ELSE p
        /\ K[i] = IF p = 0 THEN NewTimer(Clip(name)) ELSE T[p]
    BY <1>1, <1>2, KnownTimers DEF PlaceOf
  <2>4. /\ Changed(T, U, i) /\ U[i] = tm
        /\ Len(U) = IF p = 0 THEN Len(T) + 1 ELSE Len(T)
    <3>1. tm \in Timer
      BY <2>2 DEF PushedOK
    <3> HIDE DEF tm
    <3> QED
      BY <1>1, <1>2, <3>1, KnownChanges
  <2>5. WatchOf(tm) = Begun(WatchOf(kt), now)
    BY <2>2, WatchPushed
  <2>6. kt.name = k /\ WatchOf(kt) = w
    <3>1. CASE p = 0
      <4>1. kt = NewTimer(k) /\ w = Still /\ k \in Seq(Int)
        BY <1>3, <2>3, <3>1, ClipName
      <4> HIDE DEF kt
      <4> QED
        BY <4>1, WatchNew, NewTimerIs
    <3>2. CASE p # 0
      BY <1>2, <1>3, <2>3, <3>2
    <3> QED
      BY <3>1, <3>2
  <2>7. w.runs = 0 /\ ~(th.stackidx + 1 >= MAX_STACK)
    BY <1>1, <1>3, <1>8
  <2>8. new = [th EXCEPT !.timers = U, !.stackidx = s, !.callstack = [th.callstack EXCEPT ![s] = i]]
    BY <1>5, <1>8
  <2> HIDE DEF U
  <2>9. new.timers = U /\ new.stackidx = s
    <3> HIDE DEF s, K, i, new
    <3> QED
      BY <1>1, <2>8 DEF Thread
  <2>10. tm.name = k
    BY <2>2, <2>6 DEF PushedOK
  <2> HIDE DEF tm, kt, K
  <2>11. Its(T, k, i)
    BY <2>3 DEF p, Its
  <2> HIDE DEF i
  <2>12. /\ Named(U) /\ Row(U) = [Row(T) EXCEPT ![k] = WatchOf(U[i])]
         /\ \A j \in 1 .. Len(T) : U[j].name = T[j].name
    BY <1>1, <2>4, <2>10, <2>11, RowChange
  <2>13. Row(U) = [Row(T) EXCEPT ![k] = Begun(@, now)]
    BY <1>4, <2>4, <2>5, <2>6, <2>12
  <2> HIDE DEF new
  <2>14. StartRead(th, new, k, now)
    BY <2>7, <2>9, <2>12, <2>13 DEF StartRead, w
  <2>15. StartPlace(th, new, p) = i /\ i \in 2 .. Len(U)
    BY <1>1, <1>2, <2>3, <2>4, <2>9 DEF StartPlace, Changed
  <2>16. PlaceNamed(th, new, p, k)
    BY <2>4, <2>9, <2>10, <2>15 DEF PlaceNamed
  <2> QED
    BY <2>14, <2>16 DEF new, p
<1> QED
  BY <1>6, <1>7, <1>8

\* A thread whose stopwatch k was stopped at "now"
StopRead(th, new, k, now) ==
  /\ Named(new.timers)
  /\ \A j \in 1 .. Len(th.timers) : new.timers[j].name = th.timers[j].name
  /\ new.stackidx = IF Read(th.timers, k).runs = 1 THEN th.stackidx - 1 ELSE th.stackidx
  /\ Row(new.timers) = IF Read(th.timers, k).runs = 0 THEN Row(th.timers)
                       ELSE [Row(th.timers) EXCEPT ![k] = Halted(@, now)]

\* The time of a call that ended is the latest time of its timer.
LatestIs(th, new, k, now) ==
  Read(th.timers, k).runs = 1 =>
    new.timers[PlaceIn(new.timers, k)].latest = now - Read(th.timers, k).since

\* A stop does to the stopwatch what it promises.
LEMMA StopFoundReads ==
  ASSUME NEW limit \in Nat, NEW hit, NEW th, ThreadOK(th, limit, hit), Named(th.timers),
         NEW k \in Keys, NEW now \in Int
  PROVE  /\ StopRead(th, StopFound(th, PlaceIn(th.timers, k), now), k, now)
         /\ LatestIs(th, StopFound(th, PlaceIn(th.timers, k), now), k, now)
<1> DEFINE T == th.timers
           p == PlaceIn(T, k)
           w == Read(T, k)
           new == StopFound(th, p, now)
<1>1. th \in Thread /\ T \in Seq(Timer) /\ TimersOK(T, hit) /\ Len(T) \in Nat /\ Len(T) >= 1
      /\ th.stackidx \in Nat /\ th.callstack \in [0 .. MAX_STACK - 1 -> Nat]
  BY DEF ThreadOK, Thread, TimersOK
<1>2. /\ p \in {0} \cup 2 .. Len(T)
      /\ p # 0 => T[p].name = k
  BY <1>1, PlaceIs
<1>3. /\ w \in Watch
      /\ p # 0 => w = WatchOf(T[p])
      /\ w.runs # 0 <=> p # 0 /\ T[p].onflg
  BY <1>1, ReadIs
<1>4. Row(T)[k] = w
  BY DEF Row
<1> HIDE DEF p, w
<1>5. ASSUME p # 0, T[p].onflg PROVE th.stackidx >= 1
  <2>1. p \in On(T)
    BY <1>2, <1>5 DEF On
  <2>2. On(T) # {} /\ IsFiniteSet(On(T)) /\ Cardinality(On(T)) \in Nat
    BY <1>1, <2>1, OnIsFinite
  <2>3. Cardinality(On(T)) # 0
    BY <2>2, FS_EmptySet
  <2> QED
    BY <1>1, <2>2, <2>3 DEF ThreadOK
<1>6a. new = StoppedThread(th, p, now)
  BY <1>1, <1>2, <1>5, StopShape
<1>6. new = IF p = 0 \/ ~(p # 0 /\ T[p].onflg) THEN th
            ELSE IF T[p].recurselvl > 0 THEN [th EXCEPT !.timers = With(T, p, StoppedAgain(T[p]))]
            ELSE [th EXCEPT !.timers = With(T, p, StoppedTimer(T[p], now)), !.stackidx = @ - 1]
  BY <1>6a DEF StoppedThread
<1>7. CASE ~(p # 0 /\ T[p].onflg)
  <2>1. new = th /\ w.runs = 0
    BY <1>3, <1>6, <1>7
  <2> HIDE DEF new
  <2>2. StopRead(th, new, k, now) /\ LatestIs(th, new, k, now)
    BY <2>1 DEF StopRead, LatestIs, w
  <2> QED
    BY <2>2 DEF new, p
<1>8. CASE p # 0 /\ T[p].onflg
  <2>1. p \in 2 .. Len(T) /\ T[p] \in Timer /\ TimerOK(T[p], hit) /\ T[p].name = k
        /\ ParentsIn(T[p], Len(T)) /\ p \in 1 .. Len(T) /\ T[p].onflg
    BY <1>1, <1>2, <1>8, ThreadTimer DEF TimersOK
  <2>2. T[p].onflg = TRUE /\ T[p].recurselvl \in Nat
    BY <2>1 DEF Timer
  <2>3. w = WatchOf(T[p])
    BY <1>3, <1>8
  <2>4. Its(T, k, p)
    BY <1>8 DEF p, Its
  <2>5. CASE T[p].recurselvl > 0
    <3> DEFINE tm == StoppedAgain(T[p])
               U == With(T, p, tm)
    <3>1. /\ tm \in Timer /\ tm.onflg = TRUE /\ tm.last = T[p].last /\ tm.name = T[p].name
          /\ tm.count = T[p].count + 1 /\ tm.accum = T[p].accum
          /\ tm.recurselvl = T[p].recurselvl - 1
      BY <2>1, <2>5, StoppedAgainOK
    <3>2. WatchOf(tm) = Halted(WatchOf(T[p]), now) /\ WatchOf(T[p]).runs \notin {0, 1}
      BY <2>1, <2>2, <2>5, <3>1, WatchStoppedAgain
    <3>3. new = [th EXCEPT !.timers = U]
      BY <1>6, <1>8, <2>5
    <3> HIDE DEF tm
    <3>4. Changed(T, U, p) /\ U[p] = tm
      BY <1>1, <2>1, <3>1, WithChanges
    <3> HIDE DEF U
    <3>5. new.timers = U /\ new.stackidx = th.stackidx
      BY <1>1, <3>3 DEF Thread
    <3>6. U[p].name = k
      BY <2>1, <3>1, <3>4
    <3>7. /\ Named(U) /\ Row(U) = [Row(T) EXCEPT ![k] = WatchOf(U[p])]
          /\ \A j \in 1 .. Len(T) : U[j].name = T[j].name
      BY <1>1, <2>4, <3>4, <3>6, RowChange
    <3>8. w.runs # 0 /\ w.runs # 1
      BY <2>3, <3>2
    <3>9. Row(U) = [Row(T) EXCEPT ![k] = Halted(@, now)]
      BY <1>4, <2>3, <3>2, <3>4, <3>7
    <3> HIDE DEF new
    <3>10. StopRead(th, new, k, now) /\ LatestIs(th, new, k, now)
      BY <3>5, <3>7, <3>8, <3>9 DEF StopRead, LatestIs, w
    <3> QED
      BY <3>10 DEF new, p
  <2>6. CASE ~(T[p].recurselvl > 0)
    <3> DEFINE tm == StoppedTimer(T[p], now)
               U == With(T, p, tm)
               s == th.stackidx - 1
    <3>1. /\ tm \in Timer /\ tm.onflg = FALSE /\ tm.name = T[p].name
          /\ tm.count = T[p].count + 1 /\ tm.accum = T[p].accum + (now - T[p].last)
          /\ tm.latest = now - T[p].last
      BY <2>1, <2>6, StoppedOK
    <3>2. T[p].recurselvl = 0
      BY <2>2, <2>6
    <3>3. WatchOf(tm) = Halted(WatchOf(T[p]), now) /\ WatchOf(T[p]).runs = 1
          /\ WatchOf(T[p]).since = T[p].last
      BY <2>1, <2>2, <3>1, <3>2, WatchStopped
    <3>4. new = [th EXCEPT !.timers = U, !.stackidx = s]
      BY <1>6, <1>8, <2>6
    <3> HIDE DEF tm
    <3>5. Changed(T, U, p) /\ U[p] = tm
      BY <1>1, <2>1, <3>1, WithChanges
    <3> HIDE DEF U
    <3>6. new.timers = U /\ new.stackidx = s
      <4> HIDE DEF s
      <4> QED
        BY <1>1, <3>4 DEF Thread
    <3>7. U[p].name = k
      BY <2>1, <3>1, <3>5
    <3>8. /\ Named(U) /\ Row(U) = [Row(T) EXCEPT ![k] = WatchOf(U[p])] /\ PlaceIn(U, k) = p
          /\ \A j \in 1 .. Len(T) : U[j].name = T[j].name
      BY <1>1, <2>4, <3>5, <3>7, RowChange
    <3>9. w.runs = 1 /\ w.since = T[p].last
      BY <2>3, <3>3
    <3>10. Row(U) = [Row(T) EXCEPT ![k] = Halted(@, now)]
      BY <1>4, <2>3, <3>3, <3>5, <3>8
    <3> HIDE DEF new
    <3>11. StopRead(th, new, k, now)
      BY <3>6, <3>8, <3>9, <3>10 DEF StopRead, w
    <3>12. LatestIs(th, new, k, now)
      BY <3>1, <3>5, <3>6, <3>8, <3>9 DEF LatestIs, w
    <3> QED
      BY <3>11, <3>12 DEF new, p
  <2> QED
    BY <2>5, <2>6
<1> QED
  BY <1>7, <1>8

(***************************************************************************)
(* What a start and a stop make of the stopwatches of a library.           *)
(***************************************************************************)
SameReads(lib, new) ==
  /\ LibNames(new) /\ new.depthlimit = lib.depthlimit
  /\ Reads(new) = Reads(lib) /\ Stacks(new) = Stacks(lib)

SetRead(lib, t, k, w) == [Reads(lib) EXCEPT ![t] = [Reads(lib)[t] EXCEPT ![k] = w]]
SetStack(lib, t, n) == [Stacks(lib) EXCEPT ![t] = n]

\* Stopwatch k of thread t is started, or the start only counted
Skipped(lib, t, k) == \/ Stacks(lib)[t] >= lib.depthlimit
                      \/ Reads(lib)[t][k].runs = 0 /\ Stacks(lib)[t] + 1 >= MAX_STACK

Starts(lib, new, t, k, now) ==
  /\ LibNames(new) /\ new.depthlimit = lib.depthlimit
  /\ Stacks(new) = IF Skipped(lib, t, k) \/ Reads(lib)[t][k].runs = 0
                   THEN SetStack(lib, t, Stacks(lib)[t] + 1) ELSE Stacks(lib)
  /\ Reads(new) = IF Skipped(lib, t, k) THEN Reads(lib)
                  ELSE SetRead(lib, t, k, Begun(Reads(lib)[t][k], now))

\* Stopwatch k of thread t is stopped, or the stop only counted
Stops(lib, new, t, k, now) ==
  /\ LibNames(new) /\ new.depthlimit = lib.depthlimit
  /\ IF Stacks(lib)[t] > lib.depthlimit
     THEN Stacks(new) = SetStack(lib, t, Stacks(lib)[t] - 1) /\ Reads(new) = Reads(lib)
     ELSE IF Reads(lib)[t][k].runs = 0
     THEN Stacks(new) = Stacks(lib) /\ Reads(new) = Reads(lib)
     ELSE /\ Reads(new) = SetRead(lib, t, k, Halted(Reads(lib)[t][k], now))
          /\ Stacks(new) = IF Reads(lib)[t][k].runs = 1
                           THEN SetStack(lib, t, Stacks(lib)[t] - 1) ELSE Stacks(lib)

\* A disabled library leaves them alone.
Begins(lib, new, t, k, now) ==
  /\ new.disabled = lib.disabled
  /\ IF lib.disabled THEN SameReads(lib, new) ELSE Starts(lib, new, t, k, now)
Ends(lib, new, t, k, now) ==
  /\ new.disabled = lib.disabled
  /\ IF lib.disabled THEN SameReads(lib, new) ELSE Stops(lib, new, t, k, now)

\* A thread whose timers keep their names keeps its handles named.
KeepsNames(th, new) ==
  /\ Named(new.timers) /\ new.handle = th.handle /\ new.prefix = th.prefix
  /\ \A j \in 1 .. Len(th.timers) : new.timers[j].name = th.timers[j].name

\* A thread whose timers keep their names
LEMMA NamesStay ==
  ASSUME NEW limit, NEW hit, NEW th, ThreadOK(th, limit, hit), ThreadNames(th), NEW new,
         KeepsNames(th, new)
  PROVE  ThreadNames(new)
<1>0. /\ Named(new.timers) /\ new.handle = th.handle /\ new.prefix = th.prefix
      /\ \A j \in 1 .. Len(th.timers) : new.timers[j].name = th.timers[j].name
  BY DEF KeepsNames
<1>1. \A n \in Names : th.handle[n] \in {0} \cup 2 .. Len(th.timers)
  BY DEF ThreadOK
<1>2. \A n \in Names : th.handle[n] # 0 => th.timers[th.handle[n]].name = Clip(n)
  BY DEF ThreadNames, HandlesNamed
<1>3. Len(th.timers) \in Nat
  BY DEF ThreadOK, Thread
<1>4. ASSUME NEW n \in Names, new.handle[n] # 0 PROVE new.timers[new.handle[n]].name = Clip(n)
  <2>1. new.handle[n] = th.handle[n] /\ th.handle[n] \in 1 .. Len(th.timers)
    BY <1>0, <1>1, <1>3, <1>4
  <2> QED
    BY <1>0, <1>2, <1>4, <2>1
<1> QED
  BY <1>0, <1>4 DEF ThreadNames, HandlesNamed

\* A start or a stop that is only counted
LEMMA CountedReads ==
  ASSUME NEW lib, NEW hit, LibOK(lib, hit), LibNames(lib), NEW t \in Threads, NEW s \in Nat,
         NEW new, new = AtThread(lib, t, [lib.th[t] EXCEPT !.stackidx = s])
  PROVE  /\ LibNames(new) /\ new.depthlimit = lib.depthlimit /\ new.disabled = lib.disabled
         /\ Reads(new) = Reads(lib) /\ Stacks(new) = SetStack(lib, t, s)
<1> DEFINE th == lib.th[t]
           nt == [th EXCEPT !.stackidx = s]
<1>1. lib \in Lib /\ th \in Thread /\ ThreadOK(th, lib.depthlimit, hit) /\ ThreadNames(th)
  BY DEF LibOK, Lib, LibNames
<1>2. /\ nt \in Thread /\ nt.timers = th.timers /\ nt.handle = th.handle /\ nt.prefix = th.prefix
      /\ nt.stackidx = s
  BY <1>1 DEF Thread
<1>3. new = AtThread(lib, t, nt)
  OBVIOUS
<1> HIDE DEF nt
<1>4. ThreadNames(nt)
  BY <1>1, <1>2 DEF ThreadNames, HandlesNamed
<1>5. /\ LibNames(new) /\ Reads(new) = [Reads(lib) EXCEPT ![t] = Row(nt.timers)]
      /\ Stacks(new) = [Stacks(lib) EXCEPT ![t] = nt.stackidx]
      /\ new.disabled = lib.disabled /\ new.depthlimit = lib.depthlimit
  <2>1. Rewritten(lib, AtThread(lib, t, nt), t, nt)
    BY <1>1, <1>2, <1>4, ReadsChange
  <2> QED
    BY <1>3, <2>1 DEF Rewritten
<1>6. Reads(lib)[t] = Row(nt.timers) /\ Reads(lib) = [u \in Threads |-> Reads(lib)[u]]
  BY <1>2 DEF Reads
<1>7. Reads(new) = Reads(lib)
  BY <1>5, <1>6
<1> QED
  BY <1>2, <1>5, <1>7 DEF SetStack

\* What is read of a thread of the library
LEMMA ReadOfLib ==
  ASSUME NEW lib, NEW hit, LibOK(lib, hit), LibNames(lib), NEW t \in Threads
  PROVE  /\ lib \in Lib /\ lib.disabled \in BOOLEAN /\ lib.depthlimit \in Nat
         /\ lib.th[t] \in Thread /\ ThreadOK(lib.th[t], lib.depthlimit, hit)
         /\ ThreadNames(lib.th[t]) /\ Named(lib.th[t].timers) /\ lib.th[t].timers \in Seq(Timer)
         /\ Stacks(lib)[t] = lib.th[t].stackidx /\ lib.th[t].stackidx \in Nat
         /\ Reads(lib)[t] = Row(lib.th[t].timers)
         /\ \A k \in Keys : /\ Reads(lib)[t][k] = Read(lib.th[t].timers, k)
                            /\ Reads(lib)[t][k] \in Watch
<1>1. /\ lib \in Lib /\ lib.disabled \in BOOLEAN /\ lib.depthlimit \in Nat
      /\ lib.th[t] \in Thread /\ ThreadOK(lib.th[t], lib.depthlimit, hit)
      /\ ThreadNames(lib.th[t])
  BY DEF LibOK, Lib, LibNames
<1>2. Named(lib.th[t].timers) /\ lib.th[t].timers \in Seq(Timer) /\ lib.th[t].stackidx \in Nat
  BY <1>1 DEF ThreadNames, Thread
<1>3. \A k \in Keys : Read(lib.th[t].timers, k) \in Watch
  BY <1>2, ReadIs
<1> QED
  BY <1>1, <1>2, <1>3 DEF Reads, Stacks, Row

\* A start that is not only counted
LEMMA ReadsOfStart ==
  ASSUME NEW lib, NEW hit, LibOK(lib, hit), LibNames(lib), NEW t \in Threads, NEW k \in Keys,
         NEW now \in Int, ~lib.disabled, ~TooDeep(lib, t), NEW nt \in Thread, ThreadNames(nt),
         StartRead(lib.th[t], nt, k, now)
  PROVE  Begins(lib, AtThread(lib, t, nt), t, k, now)
<1> DEFINE th == lib.th[t]
           T == th.timers
           w == Read(T, k)
           new == AtThread(lib, t, nt)
<1>1. /\ lib \in Lib /\ lib.depthlimit \in Nat
      /\ Stacks(lib)[t] = th.stackidx /\ th.stackidx \in Nat
      /\ Reads(lib)[t] = Row(T) /\ Reads(lib)[t][k] = w /\ w \in Watch
  BY ReadOfLib
<1>2. th.stackidx < lib.depthlimit
  BY <1>1 DEF TooDeep
<1>3. /\ LibNames(new) /\ Reads(new) = [Reads(lib) EXCEPT ![t] = Row(nt.timers)]
      /\ Stacks(new) = [Stacks(lib) EXCEPT ![t] = nt.stackidx]
      /\ new.disabled = lib.disabled /\ new.depthlimit = lib.depthlimit
  <2>1. Rewritten(lib, new, t, nt)
    BY <1>1, ReadsChange
  <2> HIDE DEF new
  <2> QED
    BY <2>1 DEF Rewritten
<1> HIDE DEF new
<1>4. /\ nt.stackidx = IF w.runs = 0 THEN th.stackidx + 1 ELSE th.stackidx
      /\ Row(nt.timers) = IF w.runs = 0 /\ th.stackidx + 1 >= MAX_STACK THEN Row(T)
                          ELSE [Row(T) EXCEPT ![k] = Begun(@, now)]
  BY DEF StartRead
<1>5. Row(T)[k] = w
  BY <1>1
<1>6. Skipped(lib, t, k) <=> w.runs = 0 /\ th.stackidx + 1 >= MAX_STACK
  BY <1>1, <1>2 DEF Skipped
<1>7. /\ Reads(lib) = [Reads(lib) EXCEPT ![t] = Row(T)]
      /\ Stacks(lib) = [Stacks(lib) EXCEPT ![t] = th.stackidx]
  BY DEF Reads, Stacks
<1> HIDE DEF w
<1>8. Stacks(new) = IF Skipped(lib, t, k) \/ w.runs = 0
                    THEN SetStack(lib, t, th.stackidx + 1) ELSE Stacks(lib)
  BY <1>3, <1>4, <1>6, <1>7 DEF SetStack
<1>9. Reads(new) = IF Skipped(lib, t, k) THEN Reads(lib)
                   ELSE SetRead(lib, t, k, Begun(w, now))
  <2>1. CASE Skipped(lib, t, k)
    BY <1>3, <1>4, <1>6, <1>7, <2>1
  <2>2. CASE ~Skipped(lib, t, k)
    <3>1. Row(nt.timers) = [Row(T) EXCEPT ![k] = Begun(w, now)]
      BY <1>4, <1>5, <1>6, <2>2
    <3>2. SetRead(lib, t, k, Begun(w, now)) = [Reads(lib) EXCEPT ![t] = Row(nt.timers)]
      BY <1>1, <3>1 DEF SetRead
    <3> QED
      BY <1>3, <2>2, <3>2
  <2> QED
    BY <2>1, <2>2
<1>10. Starts(lib, new, t, k, now)
  BY <1>1, <1>3, <1>8, <1>9 DEF Starts
<1> QED
  BY <1>3, <1>10 DEF Begins, new

\* A start that is only counted, or not even that
LEMMA ReadsOfNoStart ==
  ASSUME NEW lib, NEW hit, LibOK(lib, hit), LibNames(lib), NEW t \in Threads, NEW k \in Keys,
         NEW now \in Int
  PROVE  /\ lib.disabled => Begins(lib, lib, t, k, now)
         /\ ~lib.disabled /\ TooDeep(lib, t) =>
              Begins(lib, AtThread(lib, t, [lib.th[t] EXCEPT !.stackidx = @ + 1]), t, k, now)
<1>1. ASSUME lib.disabled PROVE Begins(lib, lib, t, k, now)
  BY <1>1 DEF Begins, SameReads
<1>2. ASSUME ~lib.disabled, TooDeep(lib, t)
      PROVE  Begins(lib, AtThread(lib, t, [lib.th[t] EXCEPT !.stackidx = @ + 1]), t, k, now)
  <2> DEFINE s == lib.th[t].stackidx + 1
             new == AtThread(lib, t, [lib.th[t] EXCEPT !.stackidx = s])
  <2>1. lib.depthlimit \in Nat /\ Stacks(lib)[t] = lib.th[t].stackidx /\ lib.th[t].stackidx \in Nat
    BY ReadOfLib
  <2>2. s \in Nat
    BY <2>1
  <2>3. new = AtThread(lib, t, [lib.th[t] EXCEPT !.stackidx = s])
    OBVIOUS
  <2> HIDE DEF new, s
  <2>4. /\ LibNames(new) /\ new.depthlimit = lib.depthlimit /\ new.disabled = lib.disabled
        /\ Reads(new) = Reads(lib) /\ Stacks(new) = SetStack(lib, t, s)
    BY <2>2, <2>3, CountedReads
  <2>5. Skipped(lib, t, k)
    BY <1>2, <2>1 DEF Skipped, TooDeep
  <2>6. Starts(lib, new, t, k, now)
    BY <2>1, <2>4, <2>5 DEF Starts, s
  <2> QED
    BY <1>2, <2>4, <2>6 DEF Begins, new, s
<1> QED
  BY <1>1, <1>2

\* A start with the timer of its name
LEMMA StartedLibReads ==
  ASSUME NEW lib, NEW hit, LibOK(lib, hit), LibNames(lib), NEW t \in Threads,
         NEW full \in Seq(Int), NEW k \in Keys, k = Clip(full), NEW now \in Int
  PROVE  Begins(lib, StartedLib(lib, t, PlaceIn(lib.th[t].timers, k), full, now), t, k, now)
<1> DEFINE th == lib.th[t]
           p == PlaceIn(th.timers, k)
           nt == StartFound(th, p, full, now)
<1>1. /\ lib.depthlimit \in Nat /\ th \in Thread /\ ThreadOK(th, lib.depthlimit, hit)
      /\ ThreadNames(th) /\ Named(th.timers) /\ th.timers \in Seq(Timer) /\ th.stackidx \in Nat
  BY ReadOfLib
<1>2. CASE lib.disabled
  BY <1>2, ReadsOfNoStart DEF StartedLib
<1>3. CASE ~lib.disabled /\ TooDeep(lib, t)
  <2>1. StartedLib(lib, t, p, full, now) = AtThread(lib, t, [th EXCEPT !.stackidx = @ + 1])
    BY <1>3 DEF StartedLib
  <2>2. Begins(lib, AtThread(lib, t, [th EXCEPT !.stackidx = @ + 1]), t, k, now)
    BY <1>3, ReadsOfNoStart
  <2> QED
    BY <2>1, <2>2
<1>4. CASE ~lib.disabled /\ ~TooDeep(lib, t)
  <2>1. th.stackidx < lib.depthlimit
    BY <1>1, <1>4 DEF TooDeep
  <2>2. StartRead(th, nt, k, now)
    BY <1>1, <2>1, StartFoundReads
  <2>3. p \in {0} \cup 2 .. Len(th.timers)
    BY <1>1, PlaceIs
  <2>4. StartedLib(lib, t, p, full, now) = AtThread(lib, t, nt)
    BY <1>4 DEF StartedLib
  <2> HIDE DEF p
  <2>5. ThreadOK(nt, lib.depthlimit, hit) /\ nt.handle = th.handle /\ nt.prefix = th.prefix
    BY <1>1, <2>1, <2>3, StartFoundOK
  <2> HIDE DEF nt
  <2>6. nt \in Thread
    BY <2>5 DEF ThreadOK
  <2>7. KeepsNames(th, nt)
    BY <2>2, <2>5 DEF StartRead, KeepsNames
  <2>8. ThreadNames(nt)
    BY <1>1, <2>7, NamesStay
  <2>9. Begins(lib, AtThread(lib, t, nt), t, k, now)
    BY <1>4, <2>2, <2>6, <2>8, ReadsOfStart
  <2> QED
    BY <2>4, <2>9 DEF p
<1> QED
  BY <1>2, <1>3, <1>4

\* A stop that is not only counted
LEMMA ReadsOfStop ==
  ASSUME NEW lib, NEW hit, LibOK(lib, hit), LibNames(lib), NEW t \in Threads, NEW k \in Keys,
         NEW now \in Int, ~lib.disabled, ~WasTooDeep(lib, t), NEW nt \in Thread, ThreadNames(nt),
         StopRead(lib.th[t], nt, k, now)
  PROVE  Ends(lib, AtThread(lib, t, nt), t, k, now)
<1> DEFINE th == lib.th[t]
           T == th.timers
           w == Read(T, k)
           new == AtThread(lib, t, nt)
<1>1. /\ lib \in Lib /\ lib.depthlimit \in Nat
      /\ Stacks(lib)[t] = th.stackidx /\ th.stackidx \in Nat
      /\ Reads(lib)[t] = Row(T) /\ Reads(lib)[t][k] = w /\ w \in Watch
  BY ReadOfLib
<1>2. ~(Stacks(lib)[t] > lib.depthlimit)
  BY <1>1 DEF WasTooDeep
<1>3. /\ LibNames(new) /\ Reads(new) = [Reads(lib) EXCEPT ![t] = Row(nt.timers)]
      /\ Stacks(new) = [Stacks(lib) EXCEPT ![t] = nt.stackidx]
      /\ new.disabled = lib.disabled /\ new.depthlimit = lib.depthlimit
  <2>1. Rewritten(lib, new, t, nt)
    BY <1>1, ReadsChange
  <2> HIDE DEF new
  <2> QED
    BY <2>1 DEF Rewritten
<1> HIDE DEF new
<1>4. /\ nt.stackidx = IF w.runs = 1 THEN th.stackidx - 1 ELSE th.stackidx
      /\ Row(nt.timers) = IF w.runs = 0 THEN Row(T) ELSE [Row(T) EXCEPT ![k] = Halted(@, now)]
  BY DEF StopRead
<1>5. Row(T)[k] = w
  BY <1>1
<1>6. /\ Reads(lib) = [Reads(lib) EXCEPT ![t] = Row(T)]
      /\ Stacks(lib) = [Stacks(lib) EXCEPT ![t] = th.stackidx]
  BY DEF Reads, Stacks
<1> HIDE DEF w
<1>7. CASE w.runs = 0
  <2>1. Stacks(new) = Stacks(lib) /\ Reads(new) = Reads(lib)
    BY <1>3, <1>4, <1>6, <1>7
  <2>2. Stops(lib, new, t, k, now)
    BY <1>1, <1>2, <1>3, <1>7, <2>1 DEF Stops
  <2> QED
    BY <1>3, <2>2 DEF Ends, new
<1>8. CASE w.runs # 0
  <2>1. Row(nt.timers) = [Row(T) EXCEPT ![k] = Halted(w, now)]
    BY <1>4, <1>5, <1>8
  <2>2. SetRead(lib, t, k, Halted(w, now)) = [Reads(lib) EXCEPT ![t] = Row(nt.timers)]
    BY <1>1, <2>1 DEF SetRead
  <2>3. Stacks(new) = IF w.runs = 1 THEN SetStack(lib, t, th.stackidx - 1) ELSE Stacks(lib)
    BY <1>3, <1>4, <1>6 DEF SetStack
  <2>4. Stops(lib, new, t, k, now)
    BY <1>1, <1>2, <1>3, <1>8, <2>2, <2>3 DEF Stops
  <2> QED
    BY <1>3, <2>4 DEF Ends, new
<1> QED
  BY <1>7, <1>8

\* A stop that is only counted, or not even that
LEMMA ReadsOfNoStop ==
  ASSUME NEW lib, NEW hit, LibOK(lib, hit), LibNames(lib), NEW t \in Threads, NEW k \in Keys,
         NEW now \in Int
  PROVE  /\ lib.disabled => Ends(lib, lib, t, k, now)
         /\ ~lib.disabled /\ WasTooDeep(lib, t) =>
              Ends(lib, AtThread(lib, t, [lib.th[t] EXCEPT !.stackidx = @ - 1]), t, k, now)
<1>1. ASSUME lib.disabled PROVE Ends(lib, lib, t, k, now)
  BY <1>1 DEF Ends, SameReads
<1>2. ASSUME ~lib.disabled, WasTooDeep(lib, t)
      PROVE  Ends(lib, AtThread(lib, t, [lib.th[t] EXCEPT !.stackidx = @ - 1]), t, k, now)
  <2> DEFINE s == lib.th[t].stackidx - 1
             new == AtThread(lib, t, [lib.th[t] EXCEPT !.stackidx = s])
  <2>1. lib.depthlimit \in Nat /\ Stacks(lib)[t] = lib.th[t].stackidx /\ lib.th[t].stackidx \in Nat
    BY ReadOfLib
  <2>2. s \in Nat /\ Stacks(lib)[t] > lib.depthlimit
    BY <1>2, <2>1 DEF WasTooDeep
  <2>3. new = AtThread(lib, t, [lib.th[t] EXCEPT !.stackidx = s])
    OBVIOUS
  <2> HIDE DEF new, s
  <2>4. /\ LibNames(new) /\ new.depthlimit = lib.depthlimit /\ new.disabled = lib.disabled
        /\ Reads(new) = Reads(lib) /\ Stacks(new) = SetStack(lib, t, s)
    BY <2>2, <2>3, CountedReads
  <2>5. Stops(lib, new, t, k, now)
    BY <2>1, <2>2, <2>4 DEF Stops, s
  <2> QED
    BY <1>2, <2>4, <2>5 DEF Ends, new, s
<1> QED
  BY <1>1, <1>2

\* The time of a call that ended is the latest time of its timer, in the library.
LatestKept(lib, new, t, k, now) ==
  ~lib.disabled /\ ~(Stacks(lib)[t] > lib.depthlimit) /\ Reads(lib)[t][k].runs = 1 =>
    new.th[t].timers[PlaceIn(new.th[t].timers, k)].latest = now - Reads(lib)[t][k].since

\* A stop with the timer of its name
LEMMA StoppedLibReads ==
  ASSUME NEW lib, NEW hit, LibOK(lib, hit), LibNames(lib), NEW t \in Threads,
         NEW k \in Keys, NEW now \in Int
  PROVE  /\ Ends(lib, StoppedLib(lib, t, PlaceIn(lib.th[t].timers, k), now), t, k, now)
         /\ LatestKept(lib, StoppedLib(lib, t, PlaceIn(lib.th[t].timers, k), now), t, k, now)
<1> DEFINE th == lib.th[t]
           p == PlaceIn(th.timers, k)
           nt == StopFound(th, p, now)
<1>1. /\ lib.depthlimit \in Nat /\ th \in Thread /\ ThreadOK(th, lib.depthlimit, hit)
      /\ ThreadNames(th) /\ Named(th.timers) /\ th.timers \in Seq(Timer) /\ th.stackidx \in Nat
      /\ Stacks(lib)[t] = th.stackidx /\ Reads(lib)[t][k] = Read(th.timers, k)
  BY ReadOfLib
<1>2. CASE lib.disabled
  BY <1>2, ReadsOfNoStop DEF StoppedLib, LatestKept
<1>3. CASE ~lib.disabled /\ WasTooDeep(lib, t)
  <2>1. StoppedLib(lib, t, p, now) = AtThread(lib, t, [th EXCEPT !.stackidx = @ - 1])
    BY <1>3 DEF StoppedLib
  <2>2. Ends(lib, AtThread(lib, t, [th EXCEPT !.stackidx = @ - 1]), t, k, now)
    BY <1>3, ReadsOfNoStop
  <2>3. Stacks(lib)[t] > lib.depthlimit
    BY <1>1, <1>3 DEF WasTooDeep
  <2> QED
    BY <2>1, <2>2, <2>3 DEF LatestKept
<1>4. CASE ~lib.disabled /\ ~WasTooDeep(lib, t)
  <2>1. StopRead(th, nt, k, now) /\ LatestIs(th, nt, k, now)
    BY <1>1, StopFoundReads
  <2>2. p \in {0} \cup 2 .. Len(th.timers)
    BY <1>1, PlaceIs
  <2>3. StoppedLib(lib, t, p, now) = AtThread(lib, t, nt)
    BY <1>4 DEF StoppedLib
  <2> HIDE DEF p
  <2>4. ThreadOK(nt, lib.depthlimit, hit) /\ nt.handle = th.handle /\ nt.prefix = th.prefix
    BY <1>1, <2>2, StopFoundOK
  <2> HIDE DEF nt
  <2>5. nt \in Thread
    BY <2>4 DEF ThreadOK
  <2>6. KeepsNames(th, nt)
    BY <2>1, <2>4 DEF StopRead, KeepsNames
  <2>7. ThreadNames(nt)
    BY <1>1, <2>6, NamesStay
  <2>8. Ends(lib, AtThread(lib, t, nt), t, k, now)
    BY <1>4, <2>1, <2>5, <2>7, ReadsOfStop
  <2>9. AtThread(lib, t, nt).th[t] = nt
    <3>1. Rewritten(lib, AtThread(lib, t, nt), t, nt)
      BY <1>1, <2>5, <2>7, ReadsChange DEF LibOK
    <3>2. AtThread(lib, t, nt).th = [lib.th EXCEPT ![t] = nt] /\ lib.th \in [Threads -> Thread]
      BY <3>1 DEF Rewritten, LibOK, Lib
    <3> QED
      BY <3>2
  <2>10. LatestKept(lib, AtThread(lib, t, nt), t, k, now)
    BY <1>1, <2>1, <2>9 DEF LatestKept, LatestIs
  <2> QED
    BY <2>3, <2>8, <2>10 DEF p
<1> QED
  BY <1>2, <1>3, <1>4

\* The full name as it is kept
Key(lib, t, name) == Clip(FullName(lib, t, name))

\* The calls without a handle do to the stopwatch of the full name what they
\* promise: the Fortran ones always, the C ones if no name is too long.
LEMMA PlainReads ==
  ASSUME NEW lib, NEW hit, LibOK(lib, hit), LibNames(lib), NEW t \in Threads, NEW name \in Names,
         NEW now \in Int
  PROVE  /\ Begins(lib, GPTLstartf(lib, t, name, now), t, Key(lib, t, name), now)
         /\ Ends(lib, GPTLstopf(lib, t, name, now), t, Key(lib, t, name), now)
         /\ LatestKept(lib, GPTLstopf(lib, t, name, now), t, Key(lib, t, name), now)
         /\ Len(FullName(lib, t, name)) <= MAX_CHARS =>
              /\ Begins(lib, GPTLstart(lib, t, name, now), t, Key(lib, t, name), now)
              /\ Ends(lib, GPTLstop(lib, t, name, now), t, Key(lib, t, name), now)
              /\ LatestKept(lib, GPTLstop(lib, t, name, now), t, Key(lib, t, name), now)
<1> DEFINE full == FullName(lib, t, name)
           k == Key(lib, t, name)
           th == lib.th[t]
           p == PlaceIn(th.timers, k)
<1>1. lib \in Lib /\ th \in Thread /\ Named(th.timers)
  BY ReadOfLib
<1>2. full \in Seq(Int) /\ k \in Keys /\ k = Clip(full)
  BY <1>1, FullNameKey DEF Key
<1>3. /\ GPTLstart(lib, t, name, now) = StartedLib(lib, t, getentry(th, full), full, now)
      /\ GPTLstartf(lib, t, name, now) = StartedLib(lib, t, getentryf(th, full), full, now)
      /\ GPTLstop(lib, t, name, now) = StoppedLib(lib, t, getentry(th, full), now)
      /\ GPTLstopf(lib, t, name, now) = StoppedLib(lib, t, getentryf(th, full), now)
  BY <1>1, PlainCalls
<1> HIDE DEF full, k
<1>4. getentryf(th, full) = p /\ (Len(full) <= MAX_CHARS => getentry(th, full) = p)
  BY <1>1, <1>2, FindsPlace
<1>5. Begins(lib, StartedLib(lib, t, p, full, now), t, k, now)
  BY <1>2, StartedLibReads
<1>6. /\ Ends(lib, StoppedLib(lib, t, p, now), t, k, now)
      /\ LatestKept(lib, StoppedLib(lib, t, p, now), t, k, now)
  BY <1>2, StoppedLibReads
<1> QED
  BY <1>3, <1>4, <1>5, <1>6 DEF full, k

\* A handle stands for the timer of its name.
LEMMA HandledPlace ==
  ASSUME NEW limit, NEW hit, NEW th, ThreadOK(th, limit, hit), ThreadNames(th), NEW name \in Names
  PROVE  Handled(th, name, PlaceIn(th.timers, Clip(name))) = PlaceIn(th.timers, Clip(name))
<1>1. th.timers \in Seq(Timer) /\ Named(th.timers) /\ th.handle[name] \in {0} \cup 2 .. Len(th.timers)
  BY DEF ThreadOK, Thread, ThreadNames
<1>2. ASSUME th.handle[name] # 0 PROVE PlaceIn(th.timers, Clip(name)) = th.handle[name]
  <2>1. th.handle[name] \in 2 .. Len(th.timers) /\ th.timers[th.handle[name]].name = Clip(name)
    BY <1>1, <1>2 DEF ThreadNames, HandlesNamed
  <2> QED
    BY <1>1, <2>1, PlaceIs
<1> QED
  BY <1>2 DEF Handled

\* A handle set to the timer of its name, or to none
LEMMA HandleNamed ==
  ASSUME NEW th \in Thread, ThreadNames(th), NEW name \in Names,
         NEW i \in {0} \cup 2 .. Len(th.timers), i # 0 => th.timers[i].name = Clip(name)
  PROVE  LET new == [th EXCEPT !.handle[name] = i]
         IN  /\ ThreadNames(new) /\ new \in Thread /\ new.timers = th.timers
             /\ new.stackidx = th.stackidx /\ new.prefix = th.prefix
<1> DEFINE hs == [th.handle EXCEPT ![name] = i]
           new == [th EXCEPT !.handle = hs]
<1>1. th.handle \in [Names -> Nat] /\ Len(th.timers) \in Nat
  BY DEF Thread
<1>2. hs \in [Names -> Nat] /\ \A n \in Names : hs[n] = IF n = name THEN i ELSE th.handle[n]
  BY <1>1
<1> HIDE DEF hs
<1>3. /\ new \in Thread /\ new.timers = th.timers /\ new.handle = hs
      /\ new.stackidx = th.stackidx /\ new.prefix = th.prefix
  BY <1>2 DEF Thread
<1> HIDE DEF new
<1>4. ThreadNames(new)
  BY <1>2, <1>3 DEF ThreadNames, HandlesNamed
<1> QED
  BY <1>3, <1>4 DEF new, hs

\* A handle that is dropped leaves the stopwatches and the full name alone.
LEMMA DroppedReads ==
  ASSUME NEW lib, NEW hit, LibOK(lib, hit), LibNames(lib), NEW t \in Threads, NEW name \in Names
  PROVE  LET new == HandleDropped(lib, t, name)
         IN  /\ LibOK(new, hit) /\ SameReads(lib, new) /\ new.disabled = lib.disabled
             /\ FullName(new, t, name) = FullName(lib, t, name)
<1> DEFINE th == lib.th[t]
           nt == [th EXCEPT !.handle[name] = 0]
           new == HandleDropped(lib, t, name)
<1>1. /\ lib \in Lib /\ th \in Thread /\ ThreadNames(th)
      /\ Reads(lib)[t] = Row(th.timers) /\ Stacks(lib)[t] = th.stackidx
  BY ReadOfLib
<1>2. /\ ThreadNames(nt) /\ nt \in Thread /\ nt.timers = th.timers /\ nt.stackidx = th.stackidx
      /\ nt.prefix = th.prefix
  BY <1>1, HandleNamed
<1>3. new = SetThread(lib, t, nt)
  BY DEF HandleDropped
<1>4. LibOK(new, hit)
  BY DroppedOK
<1> HIDE DEF nt, new
<1>5. SameLength(th, nt)
  BY <1>2 DEF SameLength
<1>6. Rewritten(lib, SetThread(lib, t, nt), t, nt)
  BY <1>1, <1>2, <1>5, ReadsChange
<1>7. /\ LibNames(new) /\ Reads(new) = [Reads(lib) EXCEPT ![t] = Row(nt.timers)]
      /\ Stacks(new) = [Stacks(lib) EXCEPT ![t] = nt.stackidx]
      /\ new.disabled = lib.disabled /\ new.depthlimit = lib.depthlimit
      /\ new.prefix_nt = lib.prefix_nt /\ new.th = [lib.th EXCEPT ![t] = nt]
  BY <1>3, <1>6 DEF Rewritten
<1>8. Reads(new) = Reads(lib) /\ Stacks(new) = Stacks(lib)
  BY <1>1, <1>2, <1>7 DEF Reads, Stacks
<1>9. new.th[t] = nt
  BY <1>1, <1>7 DEF Lib
<1>10. FullName(new, t, name) = FullName(lib, t, name)
  BY <1>2, <1>7, <1>9 DEF FullName, Prefixed, add_prefix
<1> QED
  BY <1>4, <1>7, <1>8, <1>10 DEF SameReads, new

\* What a call makes of a library with the same stopwatches
LEMMA SameCalls ==
  ASSUME NEW lib, NEW same, SameReads(lib, same), same.disabled = lib.disabled, NEW new,
         NEW t, NEW k, NEW now
  PROVE  /\ Begins(same, new, t, k, now) => Begins(lib, new, t, k, now)
         /\ Ends(same, new, t, k, now) => Ends(lib, new, t, k, now)
<1>1. /\ same.depthlimit = lib.depthlimit /\ Reads(same) = Reads(lib)
      /\ Stacks(same) = Stacks(lib)
  BY DEF SameReads
<1>2. ASSUME Begins(same, new, t, k, now) PROVE Begins(lib, new, t, k, now)
  BY <1>1, <1>2 DEF Begins, SameReads, Starts, Skipped, SetRead, SetStack
<1>3. ASSUME Ends(same, new, t, k, now) PROVE Ends(lib, new, t, k, now)
  BY <1>1, <1>3 DEF Ends, SameReads, Stops, SetRead, SetStack
<1> QED
  BY <1>2, <1>3

\* A start with a handle, without a prefix
LEMMA StartedHandleReads ==
  ASSUME NEW lib, NEW hit, LibOK(lib, hit), LibNames(lib), NEW t \in Threads, NEW name \in Names,
         NEW k \in Keys, NEW found, NEW now \in Int,
         ~lib.disabled /\ ~TooDeep(lib, t) =>
           found = PlaceIn(lib.th[t].timers, k) /\ k = Clip(name)
  PROVE  Begins(lib, StartedHandle(lib, t, found, name, now), t, k, now)
<1> DEFINE th == lib.th[t]
           p == PlaceIn(th.timers, k)
           nt == StartFound(th, p, name, now)
           i == StartPlace(th, nt, p)
           kept == StartKept(th, nt, name, i)
<1>1. /\ lib.depthlimit \in Nat /\ th \in Thread /\ ThreadOK(th, lib.depthlimit, hit)
      /\ ThreadNames(th) /\ Named(th.timers) /\ th.timers \in Seq(Timer) /\ th.stackidx \in Nat
      /\ name \in Seq(Int)
  BY ReadOfLib, SummaryAssumption
<1>2. CASE lib.disabled
  BY <1>2, ReadsOfNoStart DEF StartedHandle
<1>3. CASE ~lib.disabled /\ TooDeep(lib, t)
  <2>1. StartedHandle(lib, t, found, name, now) = AtThread(lib, t, [th EXCEPT !.stackidx = @ + 1])
    BY <1>3 DEF StartedHandle
  <2>2. Begins(lib, AtThread(lib, t, [th EXCEPT !.stackidx = @ + 1]), t, k, now)
    BY <1>3, ReadsOfNoStart
  <2> QED
    BY <2>1, <2>2
<1>4. CASE ~lib.disabled /\ ~TooDeep(lib, t)
  <2>1. th.stackidx < lib.depthlimit
    BY <1>1, <1>4 DEF TooDeep
  <2>2. k = Clip(name) /\ found = p
    BY <1>4
  <2>3. StartRead(th, nt, k, now) /\ PlaceNamed(th, nt, p, k)
    BY <1>1, <2>1, <2>2, StartFoundReads
  <2>4. p \in {0} \cup 2 .. Len(th.timers)
    BY <1>1, PlaceIs
  <2>5. StartedHandle(lib, t, found, name, now) = AtThread(lib, t, kept)
    BY <1>4, <2>2 DEF StartedHandle
  <2> HIDE DEF p
  <2>6. ThreadOK(nt, lib.depthlimit, hit) /\ nt.handle = th.handle /\ nt.prefix = th.prefix
    BY <1>1, <2>1, <2>4, StartFoundOK
  <2> HIDE DEF nt
  <2>7. nt \in Thread
    BY <2>6 DEF ThreadOK
  <2>8. KeepsNames(th, nt)
    BY <2>3, <2>6 DEF StartRead, KeepsNames
  <2>9. ThreadNames(nt)
    BY <1>1, <2>8, NamesStay
  <2>10. i \in {0} \cup 2 .. Len(nt.timers) /\ (i # 0 => nt.timers[i].name = Clip(name))
    BY <2>2, <2>3 DEF PlaceNamed
  <2> HIDE DEF i
  <2>11. LET new == [nt EXCEPT !.handle[name] = i]
         IN  /\ ThreadNames(new) /\ new \in Thread /\ new.timers = nt.timers
             /\ new.stackidx = nt.stackidx /\ new.prefix = nt.prefix
    BY <2>7, <2>9, <2>10, HandleNamed
  <2>12. kept \in {nt, [nt EXCEPT !.handle[name] = i]}
    BY DEF StartKept, KeepHandle
  <2>13. ThreadNames(kept) /\ kept \in Thread /\ kept.timers = nt.timers /\ kept.stackidx = nt.stackidx
    BY <2>7, <2>9, <2>11, <2>12
  <2> HIDE DEF kept
  <2>14. StartRead(th, kept, k, now)
    BY <2>3, <2>13 DEF StartRead
  <2>15. Begins(lib, AtThread(lib, t, kept), t, k, now)
    BY <1>4, <2>13, <2>14, ReadsOfStart
  <2> QED
    BY <2>5, <2>15
<1> QED
  BY <1>2, <1>3, <1>4

\* A stop with a handle, without a prefix
LEMMA StoppedHandleReads ==
  ASSUME NEW lib, NEW hit, LibOK(lib, hit), LibNames(lib), NEW t \in Threads, NEW name \in Names,
         NEW k \in Keys, NEW found, NEW now \in Int,
         ~lib.disabled => found = PlaceIn(lib.th[t].timers, k) /\ k = Clip(name)
  PROVE  Ends(lib, StoppedHandle(lib, t, found, name, now), t, k, now)
<1> DEFINE th == lib.th[t]
           p == PlaceIn(th.timers, k)
           nt == StopFound(th, p, now)
           kept == StopKept(th, nt, name, p)
<1>1. /\ lib.depthlimit \in Nat /\ th \in Thread /\ ThreadOK(th, lib.depthlimit, hit)
      /\ ThreadNames(th) /\ Named(th.timers) /\ th.timers \in Seq(Timer) /\ th.stackidx \in Nat
  BY ReadOfLib
<1>2. CASE lib.disabled
  BY <1>2, ReadsOfNoStop DEF StoppedHandle
<1>3. CASE ~lib.disabled /\ WasTooDeep(lib, t)
  <2>1. StoppedHandle(lib, t, found, name, now) = AtThread(lib, t, [th EXCEPT !.stackidx = @ - 1])
    BY <1>3 DEF StoppedHandle
  <2>2. Ends(lib, AtThread(lib, t, [th EXCEPT !.stackidx = @ - 1]), t, k, now)
    BY <1>3, ReadsOfNoStop
  <2> QED
    BY <2>1, <2>2
<1>4. CASE ~lib.disabled /\ ~WasTooDeep(lib, t)
  <2>1. k = Clip(name) /\ found = p
    BY <1>4
  <2>2. StopRead(th, nt, k, now)
    BY <1>1, StopFoundReads
  <2>3. p \in {0} \cup 2 .. Len(th.timers) /\ (p # 0 => th.timers[p].name = k)
    BY <1>1, PlaceIs
  <2>4. StoppedHandle(lib, t, found, name, now) = AtThread(lib, t, kept)
    BY <1>4, <2>1 DEF StoppedHandle
  <2> HIDE DEF p
  <2>5. /\ ThreadOK(nt, lib.depthlimit, hit) /\ nt.handle = th.handle /\ nt.prefix = th.prefix
        /\ Len(nt.timers) = Len(th.timers)
    BY <1>1, <2>3, StopFoundOK
  <2> HIDE DEF nt
  <2>6. nt \in Thread
    BY <2>5 DEF ThreadOK
  <2>7. KeepsNames(th, nt)
    BY <2>2, <2>5 DEF StopRead, KeepsNames
  <2>8. ThreadNames(nt)
    BY <1>1, <2>7, NamesStay
  <2>9. p \in {0} \cup 2 .. Len(nt.timers) /\ (p # 0 => nt.timers[p].name = Clip(name))
    <3>1. ASSUME p # 0 PROVE nt.timers[p].name = th.timers[p].name
      <4>1. p \in 1 .. Len(th.timers)
        BY <1>1, <2>3, <3>1
      <4> QED
        BY <2>7, <4>1 DEF KeepsNames
    <3> QED
      BY <2>1, <2>3, <2>5, <3>1
  <2>10. LET new == [nt EXCEPT !.handle[name] = p]
         IN  /\ ThreadNames(new) /\ new \in Thread /\ new.timers = nt.timers
             /\ new.stackidx = nt.stackidx /\ new.prefix = nt.prefix
    BY <2>6, <2>8, <2>9, HandleNamed
  <2>11. kept \in {nt, [nt EXCEPT !.handle[name] = p]}
    BY DEF StopKept
  <2>12. ThreadNames(kept) /\ kept \in Thread /\ kept.timers = nt.timers /\ kept.stackidx = nt.stackidx
    BY <2>6, <2>8, <2>10, <2>11
  <2> HIDE DEF kept
  <2>13. StopRead(th, kept, k, now)
    BY <2>2, <2>12 DEF StopRead
  <2>14. Ends(lib, AtThread(lib, t, kept), t, k, now)
    BY <1>4, <2>12, <2>13, ReadsOfStop
  <2> QED
    BY <2>4, <2>14
<1> QED
  BY <1>2, <1>3, <1>4

\* The calls with a handle do to the stopwatch of the full name what they
\* promise.
LEMMA HandleReads ==
  ASSUME NEW lib, NEW hit, LibOK(lib, hit), LibNames(lib), NEW t \in Threads, NEW name \in Names,
         NEW now \in Int
  PROVE  /\ Begins(lib, GPTLstartf_handle(lib, t, name, now), t, Key(lib, t, name), now)
         /\ Ends(lib, GPTLstopf_handle(lib, t, name, now), t, Key(lib, t, name), now)
         /\ Len(name) <= MAX_CHARS =>
              /\ Begins(lib, GPTLstart_handle(lib, t, name, now), t, Key(lib, t, name), now)
              /\ Ends(lib, GPTLstop_handle(lib, t, name, now), t, Key(lib, t, name), now)
<1> DEFINE k == Key(lib, t, name)
           th == lib.th[t]
           p == PlaceIn(th.timers, k)
           drop == HandleDropped(lib, t, name)
           h == Handled(th, name, getentry(th, name))
           hf == Handled(th, name, getentryf(th, name))
<1>1. lib \in Lib /\ th \in Thread /\ Named(th.timers) /\ ThreadNames(th)
      /\ ThreadOK(th, lib.depthlimit, hit)
  BY ReadOfLib
<1>2. /\ name \in Seq(Int) /\ k \in Keys
      /\ Len(name) <= MAX_CHARS => Len(FullName(lib, t, name)) <= MAX_CHARS
      /\ ~Prefixed(lib, t) => k = Clip(name)
  BY <1>1, FullNameKey DEF Key
<1>3. /\ LibOK(drop, hit) /\ SameReads(lib, drop) /\ drop.disabled = lib.disabled
      /\ FullName(drop, t, name) = FullName(lib, t, name)
  BY DroppedReads
<1>4. LibNames(drop) /\ Key(drop, t, name) = k
  BY <1>3 DEF SameReads, Key
<1>5. /\ Begins(drop, GPTLstartf(drop, t, name, now), t, Key(drop, t, name), now)
      /\ Ends(drop, GPTLstopf(drop, t, name, now), t, Key(drop, t, name), now)
      /\ Len(FullName(drop, t, name)) <= MAX_CHARS =>
           /\ Begins(drop, GPTLstart(drop, t, name, now), t, Key(drop, t, name), now)
           /\ Ends(drop, GPTLstop(drop, t, name, now), t, Key(drop, t, name), now)
  <2> HIDE DEF drop
  <2> QED
    BY <1>3, <1>4, PlainReads
<1> HIDE DEF k
<1>6. /\ Begins(lib, GPTLstartf(drop, t, name, now), t, k, now)
      /\ Ends(lib, GPTLstopf(drop, t, name, now), t, k, now)
      /\ Len(name) <= MAX_CHARS =>
           /\ Begins(lib, GPTLstart(drop, t, name, now), t, k, now)
           /\ Ends(lib, GPTLstop(drop, t, name, now), t, k, now)
  <2> HIDE DEF drop
  <2> QED
    BY <1>2, <1>3, <1>4, <1>5, SameCalls
<1>7. ASSUME ~Prefixed(lib, t) PROVE hf = p /\ (Len(name) <= MAX_CHARS => h = p)
  <2>1. k = Clip(name) /\ Clip(name) \in Keys
    BY <1>2, <1>7
  <2>2. getentryf(th, name) = PlaceIn(th.timers, Clip(name))
        /\ (Len(name) <= MAX_CHARS => getentry(th, name) = PlaceIn(th.timers, Clip(name)))
    BY <1>1, <1>2, <2>1, FindsPlace
  <2>3. Handled(th, name, PlaceIn(th.timers, Clip(name))) = PlaceIn(th.timers, Clip(name))
    BY <1>1, HandledPlace
  <2> QED
    BY <2>1, <2>2, <2>3
<1>8. /\ GPTLstart_handle(lib, t, name, now) =
           IF ~lib.disabled /\ ~TooDeep(lib, t) /\ Prefixed(lib, t)
           THEN GPTLstart(drop, t, name, now) ELSE StartedHandle(lib, t, h, name, now)
      /\ GPTLstartf_handle(lib, t, name, now) =
           IF ~lib.disabled /\ ~TooDeep(lib, t) /\ Prefixed(lib, t)
           THEN GPTLstartf(drop, t, name, now) ELSE StartedHandle(lib, t, hf, name, now)
      /\ GPTLstop_handle(lib, t, name, now) =
           IF ~lib.disabled /\ Prefixed(lib, t) THEN GPTLstop(drop, t, name, now)
           ELSE StoppedHandle(lib, t, h, name, now)
      /\ GPTLstopf_handle(lib, t, name, now) =
           IF ~lib.disabled /\ Prefixed(lib, t) THEN GPTLstopf(drop, t, name, now)
           ELSE StoppedHandle(lib, t, hf, name, now)
  BY <1>1, HandleCalls
<1> HIDE DEF h, hf, drop, p
<1>9. ASSUME NEW found, ~lib.disabled /\ ~TooDeep(lib, t) => found = PlaceIn(th.timers, k) /\ k = Clip(name)
      PROVE  Begins(lib, StartedHandle(lib, t, found, name, now), t, k, now)
  BY <1>2, <1>9, StartedHandleReads
<1>10. ASSUME NEW found, ~lib.disabled => found = PlaceIn(th.timers, k) /\ k = Clip(name)
       PROVE  Ends(lib, StoppedHandle(lib, t, found, name, now), t, k, now)
  BY <1>2, <1>10, StoppedHandleReads
<1>11. Begins(lib, GPTLstartf_handle(lib, t, name, now), t, k, now)
  <2>1. CASE ~lib.disabled /\ ~TooDeep(lib, t) /\ Prefixed(lib, t)
    BY <1>6, <1>8, <2>1
  <2>2. CASE ~(~lib.disabled /\ ~TooDeep(lib, t) /\ Prefixed(lib, t))
    BY <1>2, <1>7, <1>8, <1>9, <2>2 DEF p
  <2> QED
    BY <2>1, <2>2
<1>12. Ends(lib, GPTLstopf_handle(lib, t, name, now), t, k, now)
  <2>1. CASE ~lib.disabled /\ Prefixed(lib, t)
    BY <1>6, <1>8, <2>1
  <2>2. CASE ~(~lib.disabled /\ Prefixed(lib, t))
    BY <1>2, <1>7, <1>8, <1>10, <2>2 DEF p
  <2> QED
    BY <2>1, <2>2
<1>13. ASSUME Len(name) <= MAX_CHARS PROVE Begins(lib, GPTLstart_handle(lib, t, name, now), t, k, now)
  <2>1. CASE ~lib.disabled /\ ~TooDeep(lib, t) /\ Prefixed(lib, t)
    BY <1>6, <1>8, <1>13, <2>1
  <2>2. CASE ~(~lib.disabled /\ ~TooDeep(lib, t) /\ Prefixed(lib, t))
    BY <1>2, <1>7, <1>8, <1>9, <1>13, <2>2 DEF p
  <2> QED
    BY <2>1, <2>2
<1>14. ASSUME Len(name) <= MAX_CHARS PROVE Ends(lib, GPTLstop_handle(lib, t, name, now), t, k, now)
  <2>1. CASE ~lib.disabled /\ Prefixed(lib, t)
    BY <1>6, <1>8, <1>14, <2>1
  <2>2. CASE ~(~lib.disabled /\ Prefixed(lib, t))
    BY <1>2, <1>7, <1>8, <1>10, <1>14, <2>2 DEF p
  <2> QED
    BY <2>1, <2>2
<1> QED
  BY <1>11, <1>12, <1>13, <1>14 DEF k

(***************************************************************************)
(* A call measured elsewhere.                                              *)
(***************************************************************************)
\* The library "after" is lib with stopwatch k of thread t at w.
WatchAt(lib, after, t, k, w) ==
  /\ LibNames(after) /\ after.disabled = lib.disabled /\ after.depthlimit = lib.depthlimit
  /\ Reads(after) = SetRead(lib, t, k, w) /\ Stacks(after) = Stacks(lib)

\* A timer whose numbers change
Renumbered(lib, t, i, tm) == [lib.th[t] EXCEPT !.timers = With(lib.th[t].timers, i, tm)]

\* What is read of a timer whose numbers change
LEMMA NumbersRead ==
  ASSUME NEW lib, NEW hit, LibOK(lib, hit), LibNames(lib), NEW t \in Threads, NEW k \in Keys,
         NEW i, i = PlaceIn(lib.th[t].timers, k), i # 0, NEW tm, SameRun(lib.th[t].timers[i], tm)
  PROVE  /\ WatchAt(lib, AtThread(lib, t, Renumbered(lib, t, i, tm)), t, k, WatchOf(tm))
         /\ WatchAt(lib, SetThread(lib, t, Renumbered(lib, t, i, tm)), t, k, WatchOf(tm))
<1> DEFINE th == lib.th[t]
           T == th.timers
           U == With(T, i, tm)
           nt == Renumbered(lib, t, i, tm)
<1>1. /\ lib \in Lib /\ th \in Thread /\ ThreadOK(th, lib.depthlimit, hit)
      /\ ThreadNames(th) /\ Named(T) /\ T \in Seq(Timer)
      /\ Reads(lib)[t] = Row(T) /\ Stacks(lib)[t] = th.stackidx
  BY ReadOfLib
<1>2. i \in 2 .. Len(T) /\ T[i].name = k /\ Its(T, k, i) /\ Len(T) >= 1
  <2>1. i \in {0} \cup 2 .. Len(T) /\ T[i].name = k
    BY <1>1, PlaceIs
  <2>2. Len(T) \in Nat
    BY <1>1
  <2> QED
    BY <2>1, <2>2 DEF Its
<1>3. tm \in Timer /\ tm.name = k
  BY <1>2 DEF SameRun
<1>4. Changed(T, U, i) /\ Len(U) = Len(T) /\ U[i] = tm
  BY <1>1, <1>2, <1>3, WithChanges
<1>5. U \in Seq(Timer)
  BY <1>4 DEF Changed
<1>6. /\ nt \in Thread /\ nt.timers = U /\ nt.stackidx = th.stackidx /\ nt.handle = th.handle
      /\ nt.prefix = th.prefix
  <2>1. nt = [th EXCEPT !.timers = U]
    BY DEF Renumbered
  <2> HIDE DEF U, nt
  <2> QED
    BY <1>1, <1>5, <2>1 DEF Thread
<1> HIDE DEF U, nt
<1>7. /\ Named(U) /\ Row(U) = [Row(T) EXCEPT ![k] = WatchOf(U[i])]
      /\ \A j \in 1 .. Len(T) : U[j].name = T[j].name
  <2>1. U[i].name = k
    BY <1>3, <1>4
  <2> QED
    BY <1>1, <1>2, <1>4, <2>1, RowChange
<1>8. KeepsNames(th, nt) /\ SameLength(th, nt)
  BY <1>4, <1>6, <1>7 DEF KeepsNames, SameLength
<1>9. ThreadNames(nt)
  BY <1>1, <1>8, NamesStay
<1>10. SetRead(lib, t, k, WatchOf(tm)) = [Reads(lib) EXCEPT ![t] = Row(nt.timers)]
  BY <1>1, <1>4, <1>6, <1>7 DEF SetRead
<1>11. [Stacks(lib) EXCEPT ![t] = nt.stackidx] = Stacks(lib)
  BY <1>6 DEF Stacks
<1>12. Rewritten(lib, AtThread(lib, t, nt), t, nt) /\ Rewritten(lib, SetThread(lib, t, nt), t, nt)
  BY <1>1, <1>6, <1>8, <1>9, ReadsChange
<1>13. ASSUME NEW after, Rewritten(lib, after, t, nt) PROVE WatchAt(lib, after, t, k, WatchOf(tm))
  BY <1>10, <1>11, <1>13 DEF Rewritten, WatchAt
<1> QED
  BY <1>12, <1>13 DEF nt

\* What a start leaves: the prefixes, and the timers if it is only counted
LEMMA StartLeaves ==
  ASSUME NEW lib, NEW hit, LibOK(lib, hit), LibNames(lib), NEW t \in Threads, NEW full \in Seq(Int),
         NEW k \in Keys, k = Clip(full), NEW now \in Int, NEW new,
         new = StartedLib(lib, t, PlaceIn(lib.th[t].timers, k), full, now)
  PROVE  /\ new.prefix_nt = lib.prefix_nt /\ new.th[t].prefix = lib.th[t].prefix
         /\ PlaceIn(lib.th[t].timers, k) = 0 /\ ~lib.disabled /\ Skipped(lib, t, k) =>
              new.th[t].timers = lib.th[t].timers
<1> DEFINE th == lib.th[t]
           p == PlaceIn(th.timers, k)
           nt == StartFound(th, p, full, now)
<1>1. /\ lib \in Lib /\ lib.depthlimit \in Nat /\ th \in Thread /\ ThreadOK(th, lib.depthlimit, hit)
      /\ ThreadNames(th) /\ Named(th.timers) /\ th.timers \in Seq(Timer) /\ th.stackidx \in Nat
      /\ Stacks(lib)[t] = th.stackidx
  BY ReadOfLib
<1>2. p \in {0} \cup 2 .. Len(th.timers)
  BY <1>1, PlaceIs
<1>3. ASSUME NEW after PROVE AtThread(lib, t, after).prefix_nt = lib.prefix_nt
                             /\ AtThread(lib, t, after).th[t] = after
  BY <1>1 DEF AtThread, get_thread_num, Lib
<1>4. CASE lib.disabled
  BY <1>4 DEF StartedLib
<1>5. CASE ~lib.disabled /\ TooDeep(lib, t)
  <2> DEFINE ct == [th EXCEPT !.stackidx = @ + 1]
  <2>1. new = AtThread(lib, t, ct)
    BY <1>5 DEF StartedLib
  <2>2. ct.prefix = th.prefix /\ ct.timers = th.timers
    BY <1>1 DEF Thread
  <2> HIDE DEF ct
  <2> QED
    BY <1>3, <2>1, <2>2
<1>6. CASE ~lib.disabled /\ ~TooDeep(lib, t)
  <2>1. th.stackidx < lib.depthlimit
    BY <1>1, <1>6 DEF TooDeep
  <2>2. new = AtThread(lib, t, nt)
    BY <1>6 DEF StartedLib
  <2> HIDE DEF p
  <2>3. ThreadOK(nt, lib.depthlimit, hit) /\ nt.handle = th.handle /\ nt.prefix = th.prefix
    <3>1. lib.depthlimit \in Nat /\ ThreadOK(th, lib.depthlimit, hit)
      BY <1>1
    <3> QED
      BY <1>2, <2>1, <3>1, StartFoundOK
  <2>4. ASSUME p = 0, Skipped(lib, t, k) PROVE nt.timers = th.timers
    <3>1. th.stackidx + 1 > MAX_STACK - 1
      BY <1>1, <2>1, <2>4, GptlAssumption DEF Skipped
    <3>2. Len(th.timers) >= 1
      BY <1>1 DEF ThreadOK, TimersOK
    <3>3. nt = StartedThread(th, p, full, now)
      BY <1>1, <1>2, <3>2, StartShape
    <3>4. nt = [th EXCEPT !.stackidx = th.stackidx + 1]
      BY <2>4, <3>1, <3>3 DEF StartedThread
    <3> QED
      BY <1>1, <3>4 DEF Thread
  <2> HIDE DEF nt
  <2> QED
    BY <1>3, <2>2, <2>3, <2>4 DEF p
<1> QED
  BY <1>4, <1>5, <1>6

\* A stop that finds no timer leaves the timers.
LEMMA StopLeaves ==
  ASSUME NEW lib, NEW hit, LibOK(lib, hit), NEW t \in Threads, NEW now \in Int
  PROVE  StoppedLib(lib, t, 0, now).th[t].timers = lib.th[t].timers
<1> DEFINE th == lib.th[t]
<1>1. lib \in Lib /\ th \in Thread
  BY DEF LibOK, Lib
<1>2. ASSUME NEW after PROVE AtThread(lib, t, after).th[t] = after
  BY <1>1 DEF AtThread, get_thread_num, Lib
<1>3. CASE lib.disabled
  BY <1>3 DEF StoppedLib
<1>4. CASE ~lib.disabled /\ WasTooDeep(lib, t)
  <2> DEFINE ct == [th EXCEPT !.stackidx = @ - 1]
  <2>1. StoppedLib(lib, t, 0, now) = AtThread(lib, t, ct)
    BY <1>4 DEF StoppedLib
  <2>2. ct.timers = th.timers
    BY <1>1 DEF Thread
  <2> HIDE DEF ct
  <2> QED
    BY <1>2, <2>1, <2>2
<1>5. CASE ~lib.disabled /\ ~WasTooDeep(lib, t)
  <2>1. StoppedLib(lib, t, 0, now) = AtThread(lib, t, StopFound(th, 0, now))
    BY <1>5 DEF StoppedLib
  <2>2. StopFound(th, 0, now) = th
    BY DEF StopFound
  <2> QED
    BY <1>2, <2>1, <2>2
<1> QED
  BY <1>3, <1>4, <1>5

\* A stopwatch that was started and stopped at once
Once == [runs |-> 0, since |-> 0, total |-> 0, calls |-> 1]

\* A start and a stop at the same time
LEMMA OnceIs ==
  ASSUME NEW now \in Int
  PROVE  /\ Begun(Still, now).runs = 1 /\ Begun(Still, now).since = now
         /\ Halted(Begun(Still, now), now) = Once
<1> DEFINE b == Begun(Still, now)
<1>1. b = [runs |-> 1, since |-> now, total |-> 0, calls |-> 0]
  BY DEF Begun, Still
<1> HIDE DEF b
<1>2. 0 + now - now = 0 /\ 0 + 1 = 1
  OBVIOUS
<1>3. Halted(b, now) = Once
  BY <1>1, <1>2 DEF Halted, Once
<1> QED
  BY <1>1, <1>3 DEF b

\* What a start and a stop of a timer that is not there leave
MadeSkipped(lib, made, t) ==
  /\ Reads(made) = Reads(lib) /\ made.th[t].timers = lib.th[t].timers
  /\ \/ Stacks(lib)[t] >= lib.depthlimit /\ Stacks(made) = Stacks(lib)
     \/ Stacks(lib)[t] + 1 >= MAX_STACK /\ Stacks(made) = SetStack(lib, t, Stacks(lib)[t] + 1)

MadeOnce(lib, made, t, k) ==
  /\ Reads(made) = SetRead(lib, t, k, Once) /\ Stacks(made) = Stacks(lib)
  /\ made.th[t].timers[PlaceIn(made.th[t].timers, k)].latest = 0

\* A start and a stop of a timer that is not there: a timer called once, or none
\* as the stack is full.
LEMMA MadeReads ==
  ASSUME NEW lib, NEW hit, LibOK(lib, hit), LibNames(lib), NEW t \in Threads, NEW k \in Keys,
         NEW full \in Seq(Int), k = Clip(full), NEW now \in Int, ~lib.disabled,
         PlaceIn(lib.th[t].timers, k) = 0, NEW begun, NEW made,
         begun = StartedLib(lib, t, PlaceIn(lib.th[t].timers, k), full, now),
         made = StoppedLib(begun, t, PlaceIn(begun.th[t].timers, k), now)
  PROVE  /\ LibOK(begun, hit) /\ LibOK(made, hit) /\ LibNames(begun) /\ LibNames(made)
         /\ ~made.disabled /\ made.depthlimit = lib.depthlimit
         /\ MadeSkipped(lib, made, t) \/ MadeOnce(lib, made, t, k)
<1> DEFINE s == Stacks(lib)[t]
<1>1. /\ lib \in Lib /\ lib.depthlimit \in Nat /\ Named(lib.th[t].timers)
      /\ lib.th[t].timers \in Seq(Timer) /\ s \in Nat
      /\ Reads(lib)[t][k] = Read(lib.th[t].timers, k)
      /\ Reads(lib)[t] = Row(lib.th[t].timers)
  BY ReadOfLib
<1>2. Reads(lib)[t][k] = Still /\ Still.runs = 0
  BY <1>1, ReadIs DEF Still
<1>3. LibOK(begun, hit)
  <2>1. 0 \in {0} \cup 2 .. Len(lib.th[t].timers)
    OBVIOUS
  <2> QED
    BY <2>1, StartedLibOK
<1>4. Begins(lib, begun, t, k, now)
  BY StartedLibReads
<1>5. /\ LibNames(begun) /\ ~begun.disabled /\ begun.depthlimit = lib.depthlimit
      /\ Starts(lib, begun, t, k, now)
  BY <1>4 DEF Begins, Starts
<1>6. Named(begun.th[t].timers) /\ begun.th[t].timers \in Seq(Timer)
      /\ Reads(begun)[t][k] = Read(begun.th[t].timers, k)
  BY <1>3, <1>5, ReadOfLib
<1>7. LibOK(made, hit)
  <2>1. PlaceIn(begun.th[t].timers, k) \in {0} \cup 2 .. Len(begun.th[t].timers)
    BY <1>6, PlaceIs
  <2> QED
    BY <1>3, <2>1, StoppedLibOK
<1>8. Ends(begun, made, t, k, now) /\ LatestKept(begun, made, t, k, now)
  BY <1>3, <1>5, StoppedLibReads
<1>9. /\ LibNames(made) /\ ~made.disabled /\ made.depthlimit = lib.depthlimit
      /\ Stops(begun, made, t, k, now)
  BY <1>5, <1>8 DEF Ends, Stops
<1>10. Stacks(lib) = [Stacks(lib) EXCEPT ![t] = s] /\ DOMAIN Stacks(lib) = Threads
       /\ DOMAIN Reads(lib) = Threads
  BY DEF Stacks, Reads
<1> HIDE DEF s
<1>11. CASE Skipped(lib, t, k)
  <2>1. Stacks(begun) = SetStack(lib, t, s + 1) /\ Reads(begun) = Reads(lib)
    BY <1>5, <1>11 DEF Starts, s
  <2>2. Stacks(begun)[t] = s + 1 /\ Reads(begun)[t][k].runs = 0
    BY <1>2, <1>10, <2>1 DEF SetStack
  <2>3. begun.th[t].timers = lib.th[t].timers
    BY <1>11, StartLeaves
  <2>4. made = StoppedLib(begun, t, 0, now)
    BY <2>3
  <2>5. made.th[t].timers = lib.th[t].timers
    BY <1>3, <2>3, <2>4, StopLeaves
  <2>6. CASE s >= lib.depthlimit
    <3>1. s + 1 > lib.depthlimit /\ s + 1 - 1 = s
      BY <1>1, <2>6
    <3>2. Stacks(begun)[t] > begun.depthlimit /\ Stacks(begun)[t] - 1 = s
      <4> DEFINE x == Stacks(begun)[t]
                 l == begun.depthlimit
      <4>1. x = s + 1 /\ l = lib.depthlimit /\ s \in Nat /\ lib.depthlimit \in Nat
        BY <1>1, <1>5, <2>2
      <4> HIDE DEF x, l
      <4>2. x > l /\ x - 1 = s
        BY <2>6, <4>1
      <4> QED
        BY <4>2 DEF x, l
    <3>3. Stacks(made) = SetStack(begun, t, Stacks(begun)[t] - 1) /\ Reads(made) = Reads(begun)
      BY <1>9, <3>2 DEF Stops
    <3>4. Stacks(made) = SetStack(begun, t, s)
      BY <3>2, <3>3
    <3>5. SetStack(begun, t, s) = Stacks(lib)
      BY <1>10, <2>1 DEF SetStack
    <3> QED
      BY <1>3, <1>5, <1>7, <1>9, <2>1, <2>5, <2>6, <3>3, <3>4, <3>5 DEF MadeSkipped, s
  <2>7. CASE ~(s >= lib.depthlimit)
    <3>1. ~(s + 1 > lib.depthlimit) /\ s + 1 >= MAX_STACK
      BY <1>1, <1>11, <2>7 DEF Skipped, s
    <3>2. Stacks(made) = Stacks(begun) /\ Reads(made) = Reads(begun)
      BY <1>5, <1>9, <2>2, <3>1 DEF Stops
    <3> QED
      BY <1>3, <1>5, <1>7, <1>9, <2>1, <2>5, <3>1, <3>2 DEF MadeSkipped, s
  <2> QED
    BY <2>6, <2>7
<1>12. CASE ~Skipped(lib, t, k)
  <2> DEFINE b == Begun(Still, now)
  <2>1. Stacks(begun) = SetStack(lib, t, s + 1) /\ Reads(begun) = SetRead(lib, t, k, b)
    BY <1>2, <1>5, <1>12 DEF Starts, s
  <2>2. b.runs = 1 /\ b.since = now /\ Halted(b, now) = Once
    BY OnceIs
  <2> HIDE DEF b
  <2>3. Row(lib.th[t].timers) = [n \in Keys |-> Row(lib.th[t].timers)[n]]
    BY DEF Row
  <2>4. Stacks(begun)[t] = s + 1 /\ Reads(begun)[t][k] = b
    BY <1>1, <1>10, <2>1, <2>3 DEF SetStack, SetRead
  <2>5. ~(s >= lib.depthlimit)
    BY <1>12 DEF Skipped, s
  <2>6. ~(s + 1 > begun.depthlimit) /\ s + 1 - 1 = s
    BY <1>1, <1>5, <2>5
  <2>7. Reads(made) = SetRead(begun, t, k, Once) /\ Stacks(made) = SetStack(begun, t, s)
    <3>1. /\ ~(Stacks(begun)[t] > begun.depthlimit) /\ Stacks(begun)[t] - 1 = s
          /\ Reads(begun)[t][k].runs = 1
      BY SMTT(30), <1>1, <1>5, <2>2, <2>4, <2>6
    <3>2. /\ Reads(made) = SetRead(begun, t, k, Halted(Reads(begun)[t][k], now))
          /\ Stacks(made) = SetStack(begun, t, Stacks(begun)[t] - 1)
      BY <1>9, <3>1 DEF Stops
    <3> QED
      BY <2>2, <2>4, <3>1, <3>2
  <2>8. SetStack(begun, t, s) = Stacks(lib)
    BY <1>10, <2>1 DEF SetStack
  <2>9. SetRead(begun, t, k, Once) = SetRead(lib, t, k, Once)
    <3> DEFINE row == Reads(lib)[t]
               new == [row EXCEPT ![k] = b]
    <3>1. Reads(begun) = [Reads(lib) EXCEPT ![t] = new]
      BY <2>1 DEF SetRead
    <3>2. [new EXCEPT ![k] = Once] = [row EXCEPT ![k] = Once]
      BY <1>1, <2>3
    <3> HIDE DEF row, new
    <3>3. Reads(begun)[t] = new
      BY <1>10, <3>1
    <3>4. [Reads(begun) EXCEPT ![t] = [row EXCEPT ![k] = Once]]
            = [Reads(lib) EXCEPT ![t] = [row EXCEPT ![k] = Once]]
      BY <1>10, <3>1
    <3> QED
      BY <3>2, <3>3, <3>4 DEF SetRead, row
  <2>10. now - now = 0
    OBVIOUS
  <2>11. made.th[t].timers[PlaceIn(made.th[t].timers, k)].latest = 0
    BY <1>5, <1>8, <2>2, <2>4, <2>6, <2>10 DEF LatestKept
  <2> QED
    BY <1>3, <1>5, <1>7, <1>9, <2>7, <2>8, <2>9, <2>11 DEF MadeOnce
<1> QED
  BY <1>11, <1>12

\* A time added to a stopwatch
Plus(w, dt, n) == [w EXCEPT !.total = @ + dt, !.calls = @ + n]

Adds(lib, new, t, k, dt, n) ==
  /\ new.disabled = lib.disabled /\ new.depthlimit = lib.depthlimit /\ LibNames(new)
  /\ IF lib.disabled THEN SameReads(lib, new)
     ELSE \/ /\ Reads(new) = SetRead(lib, t, k, Plus(Reads(lib)[t][k], dt, n))
             /\ Stacks(new) = Stacks(lib)
          \/ /\ Reads(lib)[t][k] = Still /\ Reads(new) = Reads(lib)
             /\ \/ Stacks(lib)[t] >= lib.depthlimit /\ Stacks(new) = Stacks(lib)
                \/ /\ Stacks(lib)[t] + 1 >= MAX_STACK
                   /\ Stacks(new) = SetStack(lib, t, Stacks(lib)[t] + 1)

\* The stopwatch of a timer with more time
LEMMA WatchPlus ==
  ASSUME NEW w \in Watch, w.runs = 0, w.since = 0, NEW tm \in Timer, tm.onflg = FALSE,
         NEW dt \in Nat, NEW n \in {0, 1}, tm.accum = w.total + dt, tm.count = w.calls + n
  PROVE  WatchOf(tm) = Plus(w, dt, n)
<1> DEFINE v == WatchOf(tm)
           b == Plus(w, dt, n)
           x == w.total + dt
           c == w.calls + n
<1>1. x \in Int /\ c \in Nat
  BY DEF Watch
<1>2. v \in Watch /\ v.total = x /\ v.calls = c /\ v.runs = 0 /\ v.since = 0
  BY WatchIs
<1>3. b = SetWatch(w, 0, 0, x, c)
  BY DEF SetWatch, Plus, Watch
<1> HIDE DEF v, x, c, b
<1>4. b \in Watch /\ b.runs = 0 /\ b.since = 0 /\ b.total = x /\ b.calls = c
  BY <1>1, <1>3, WatchSet
<1> QED
  BY <1>2, <1>4, SameWatch DEF v, b

\* A stopwatch set twice
LEMMA SetAgain ==
  ASSUME NEW lib, NEW new, NEW t \in Threads, NEW k \in Keys, NEW v, NEW w,
         Reads(new) = SetRead(lib, t, k, v)
  PROVE  SetRead(new, t, k, w) = SetRead(lib, t, k, w) /\ Reads(new)[t][k] = v
<1> DEFINE row == Reads(lib)[t]
           set == [row EXCEPT ![k] = v]
<1>1. Reads(new) = [Reads(lib) EXCEPT ![t] = set]
  BY DEF SetRead
<1>2. DOMAIN Reads(lib) = Threads /\ row = [n \in Keys |-> row[n]]
  BY DEF Reads, Row
<1> HIDE DEF row
<1>3. [set EXCEPT ![k] = w] = [row EXCEPT ![k] = w] /\ set[k] = v
  BY <1>2
<1> HIDE DEF set
<1>4. Reads(new)[t] = set
  BY <1>1, <1>2
<1>5. [Reads(new) EXCEPT ![t] = [row EXCEPT ![k] = w]]
        = [Reads(lib) EXCEPT ![t] = [row EXCEPT ![k] = w]]
  BY <1>1, <1>2
<1> QED
  BY <1>3, <1>4, <1>5 DEF SetRead, row

\* Added to a timer that is there
LEMMA AddedThere ==
  ASSUME NEW lib, NEW hit, LibOK(lib, hit), LibNames(lib), NEW t \in Threads, NEW k \in Keys,
         ~lib.disabled, Reads(lib)[t][k].runs = 0, NEW p, p = PlaceIn(lib.th[t].timers, k), p # 0,
         NEW now \in Int, NEW dt \in Nat, NEW n \in {0, 1}
  PROVE  Adds(lib, AtThread(lib, t, Renumbered(lib, t, p, AddedCall(lib.th[t].timers[p], now, dt, n))),
              t, k, dt, n)
<1> DEFINE T == lib.th[t].timers
           old == T[p]
           tm == AddedCall(old, now, dt, n)
           w == Reads(lib)[t][k]
           new == AtThread(lib, t, Renumbered(lib, t, p, tm))
<1>1. Named(T) /\ T \in Seq(Timer) /\ w = Read(T, k) /\ w \in Watch
  BY ReadOfLib
<1>2. p \in 2 .. Len(T) /\ p \in 1 .. Len(T)
  <2>1. p \in {0} \cup 2 .. Len(T) /\ Len(T) \in Nat
    BY <1>1, PlaceIs
  <2> QED
    BY <2>1
<1>3. old \in Timer /\ w = WatchOf(old) /\ old.onflg = FALSE
  <2>1. old \in Timer
    BY <1>1, <1>2, ElementsOfSeq
  <2>2. w = WatchOf(old) /\ ~old.onflg
    BY <1>1, ReadIs
  <2> QED
    BY <2>1, <2>2 DEF Timer
<1>4. SameRun(old, tm) /\ tm.accum = old.accum + dt /\ tm.count = old.count + n
  BY <1>3, AddedToIs
<1> HIDE DEF tm, old, w
<1>5. WatchAt(lib, new, t, k, WatchOf(tm))
  BY <1>4, NumbersRead DEF old
<1>6. w.runs = 0 /\ w.since = 0 /\ w.total = old.accum /\ w.calls = old.count
  BY <1>3, WatchIs
<1>7. tm \in Timer /\ tm.onflg = FALSE
  BY <1>3, <1>4 DEF SameRun
<1>8. WatchOf(tm) = Plus(w, dt, n)
  BY <1>1, <1>4, <1>6, <1>7, WatchPlus
<1> HIDE DEF new
<1>9. Adds(lib, new, t, k, dt, n)
  BY <1>5, <1>8 DEF Adds, WatchAt, w
<1> QED
  BY <1>9 DEF new, tm, old

\* The timer just made with the time added
WithAdded(made, t, p, dt, n) ==
  SetThread(made, t, Renumbered(made, t, p, Added(Blank(made.th[t].timers[p], dt, n), dt, n)))

\* Added to a timer just made
LEMMA AddedOnce ==
  ASSUME NEW lib, NEW hit, NEW made, LibOK(made, hit), LibNames(made), NEW t \in Threads,
         NEW k \in Keys, ~lib.disabled, ~made.disabled, made.depthlimit = lib.depthlimit,
         Reads(lib)[t][k] = Still, MadeOnce(lib, made, t, k),
         NEW p, p = PlaceIn(made.th[t].timers, k), NEW dt \in Nat, NEW n \in {0, 1},
         lib.disabled \in BOOLEAN, made.disabled \in BOOLEAN
  PROVE  /\ p # 0
         /\ Adds(lib, WithAdded(made, t, p, dt, n), t, k, dt, n)
<1> DEFINE U == made.th[t].timers
           old == U[p]
           tm == Added(Blank(old, dt, n), dt, n)
           new == SetThread(made, t, Renumbered(made, t, p, tm))
<1>1. Named(U) /\ U \in Seq(Timer) /\ Reads(made)[t][k] = Read(U, k)
  BY ReadOfLib
<1>2. Reads(made)[t][k] = Once /\ old.latest = 0
  BY SetAgain DEF MadeOnce
<1>3. Once # Still
  <2>1. Once.calls = 1 /\ Still.calls = 0
    BY DEF Once, Still
  <2> QED
    BY <2>1
<1>4. p # 0 /\ WatchOf(old) = Once
  BY <1>1, <1>2, <1>3, ReadIs
<1>5. p \in 1 .. Len(U)
  <2>1. p \in {0} \cup 2 .. Len(U) /\ Len(U) \in Nat
    BY <1>1, PlaceIs
  <2> QED
    BY <1>4, <2>1
<1>6. old \in Timer /\ old.onflg = FALSE /\ old.accum = 0
  <2>1. old \in Timer
    BY <1>1, <1>5, ElementsOfSeq
  <2>2. ~(Read(U, k).runs # 0)
    BY <1>1, <1>2 DEF Once
  <2>3. ~old.onflg
    BY <1>1, <1>4, <2>2, ReadIs
  <2>4. WatchOf(old).total = old.accum
    BY <2>1, WatchIs
  <2> QED
    BY <1>4, <2>1, <2>3, <2>4 DEF Timer, Once
<1>7. SameRun(old, tm) /\ tm.accum = dt /\ tm.count = n
  <2>1. SameRun(old, tm) /\ tm.accum = old.accum - old.latest + dt /\ tm.count = n
    BY <1>6, AddedFirst
  <2>2. old.accum - old.latest + dt = dt
    BY <1>2, <1>6
  <2> QED
    BY <2>1, <2>2
<1> HIDE DEF tm, old
<1>8. WatchAt(made, new, t, k, WatchOf(tm))
  BY <1>4, <1>7, NumbersRead DEF old
<1>9. Still \in Watch /\ Still.runs = 0 /\ Still.since = 0 /\ Still.total = 0 /\ Still.calls = 0
  BY DEF Still, Watch
<1>10. tm \in Timer /\ tm.onflg = FALSE
  BY <1>6, <1>7 DEF SameRun
<1>11. 0 + dt = dt /\ 0 + n = n
  OBVIOUS
<1>12. WatchOf(tm) = Plus(Still, dt, n)
  <2> DEFINE w == Still
  <2>1. w \in Watch /\ w.runs = 0 /\ w.since = 0 /\ tm.accum = w.total + dt /\ tm.count = w.calls + n
    BY <1>7, <1>9, <1>11
  <2> HIDE DEF w
  <2>2. WatchOf(tm) = Plus(w, dt, n)
    BY <1>10, <2>1, WatchPlus
  <2> QED
    BY <2>2 DEF w
<1> HIDE DEF new
<1>13. SetRead(made, t, k, WatchOf(tm)) = SetRead(lib, t, k, WatchOf(tm))
  BY SetAgain DEF MadeOnce
<1>14. /\ LibNames(new) /\ new.disabled = made.disabled /\ new.depthlimit = made.depthlimit
       /\ Reads(new) = SetRead(made, t, k, WatchOf(tm)) /\ Stacks(new) = Stacks(made)
  BY <1>8 DEF WatchAt
<1>15. Stacks(made) = Stacks(lib) /\ new.disabled = lib.disabled
  BY <1>14 DEF MadeOnce
<1>16. Adds(lib, new, t, k, dt, n)
  BY <1>12, <1>13, <1>14, <1>15 DEF Adds
<1> QED
  BY <1>4, <1>16 DEF new, tm, old, WithAdded

\* What a start and a stop of the full name leave
StartedStopped(lib, begun, made, t, k, full, now) ==
  /\ begun = StartedLib(lib, t, PlaceIn(lib.th[t].timers, k), full, now)
  /\ made = StoppedLib(begun, t, PlaceIn(begun.th[t].timers, k), now)

\* A call measured elsewhere adds to the stopwatch, or finds no place for it.
LEMMA AddedLibReads ==
  ASSUME NEW lib, NEW hit, LibOK(lib, hit), LibNames(lib), NEW t \in Threads, NEW k \in Keys,
         NEW full \in Seq(Int), k = Clip(full), NEW now \in Int, NEW dt \in Nat, NEW n \in {0, 1},
         Reads(lib)[t][k].runs = 0, NEW begun, NEW made, NEW found, NEW place,
         found = PlaceIn(lib.th[t].timers, k),
         StartedStopped(lib, begun, made, t, k, full, now),
         place = PlaceIn(made.th[t].timers, k)
  PROVE  Adds(lib, AddedLib(lib, t, found, made, place, now, dt, n), t, k, dt, n)
<1>1. lib.disabled \in BOOLEAN /\ Named(lib.th[t].timers) /\ lib.th[t].timers \in Seq(Timer)
      /\ Reads(lib)[t][k] = Read(lib.th[t].timers, k)
  BY ReadOfLib
<1>2. CASE lib.disabled
  <2>1. AddedLib(lib, t, found, made, place, now, dt, n) = lib
    BY <1>2 DEF AddedLib
  <2> QED
    BY <1>2, <2>1 DEF Adds, SameReads
<1>3. CASE ~lib.disabled /\ found # 0
  <2>1. AddedLib(lib, t, found, made, place, now, dt, n)
          = AtThread(lib, t, Renumbered(lib, t, found, AddedCall(lib.th[t].timers[found], now, dt, n)))
    BY <1>3 DEF AddedLib, Renumbered
  <2>2. ~lib.disabled /\ found # 0 /\ found = PlaceIn(lib.th[t].timers, k)
    BY <1>3
  <2>3. Adds(lib, AtThread(lib, t, Renumbered(lib, t, found, AddedCall(lib.th[t].timers[found], now, dt, n))),
             t, k, dt, n)
    BY <2>2, AddedThere
  <2> QED
    BY <2>1, <2>3
<1>4. CASE ~lib.disabled /\ found = 0
  <2>0. ~lib.disabled /\ PlaceIn(lib.th[t].timers, k) = 0
    BY <1>4
  <2>1. /\ LibOK(made, hit) /\ LibNames(made) /\ ~made.disabled /\ made.depthlimit = lib.depthlimit
        /\ MadeSkipped(lib, made, t) \/ MadeOnce(lib, made, t, k)
    BY <2>0, MadeReads DEF StartedStopped
  <2>2. Reads(lib)[t][k] = Still
    BY <1>1, <1>4, ReadIs
  <2>3. made.disabled = lib.disabled
    BY <1>1, <1>4, <2>1, ReadOfLib
  <2>4. CASE MadeSkipped(lib, made, t)
    <3>1. place = 0
      BY <1>4, <2>4 DEF MadeSkipped
    <3>2. AddedLib(lib, t, found, made, place, now, dt, n) = made
      BY <1>4, <3>1 DEF AddedLib
    <3> QED
      BY <1>4, <2>1, <2>2, <2>3, <2>4, <3>2 DEF Adds, MadeSkipped
  <2>5. CASE MadeOnce(lib, made, t, k)
    <3> DEFINE new == WithAdded(made, t, place, dt, n)
    <3>0. ~lib.disabled /\ lib.disabled \in BOOLEAN /\ made.disabled \in BOOLEAN
      BY <1>1, <2>0, <2>3
    <3>1. place # 0 /\ Adds(lib, new, t, k, dt, n)
      BY <3>0, <2>1, <2>2, <2>5, AddedOnce
    <3>2. AddedLib(lib, t, found, made, place, now, dt, n) = new
      BY <1>4, <3>1 DEF AddedLib, Renumbered, WithAdded
    <3> QED
      BY <3>1, <3>2
  <2> QED
    BY <2>1, <2>4, <2>5
<1> QED
  BY <1>1, <1>2, <1>3, <1>4

\* The start and the stop that GPTLstartstop_vals makes
PlainStart(new, lib, t, full, name, now) ==
  \/ new = GPTLstartf(lib, t, name, now)
  \/ new = GPTLstart(lib, t, name, now) /\ Len(full) <= MAX_CHARS
PlainStop(new, lib, t, full, name, now) ==
  \/ new = GPTLstopf(lib, t, name, now)
  \/ new = GPTLstop(lib, t, name, now) /\ Len(full) <= MAX_CHARS

\* The start and the stop find the same full name.
LEMMA MadeCalls ==
  ASSUME NEW lib, NEW hit, LibOK(lib, hit), LibNames(lib), NEW t \in Threads, NEW name \in Names,
         NEW now \in Int, NEW full, full = FullName(lib, t, name), NEW begun, NEW made,
         PlainStart(begun, lib, t, full, name, now), PlainStop(made, begun, t, full, name, now)
  PROVE  /\ begun = StartedLib(lib, t, PlaceIn(lib.th[t].timers, Clip(full)), full, now)
         /\ made = StoppedLib(begun, t, PlaceIn(begun.th[t].timers, Clip(full)), now)
         /\ getentryf(lib.th[t], full) = PlaceIn(lib.th[t].timers, Clip(full))
         /\ getentryf(made.th[t], full) = PlaceIn(made.th[t].timers, Clip(full))
         /\ Len(full) <= MAX_CHARS =>
              /\ getentry(lib.th[t], full) = PlaceIn(lib.th[t].timers, Clip(full))
              /\ getentry(made.th[t], full) = PlaceIn(made.th[t].timers, Clip(full))
         /\ made \in Lib
<1> DEFINE k == Clip(full)
<1>1. /\ full \in Seq(Int) /\ k \in Keys /\ name \in Seq(Int)
  BY FullNameKey, ReadOfLib
<1>2. ASSUME NEW any, LibOK(any, hit), LibNames(any)
      PROVE  /\ any \in Lib
             /\ getentryf(any.th[t], full) = PlaceIn(any.th[t].timers, k)
             /\ Len(full) <= MAX_CHARS => getentry(any.th[t], full) = PlaceIn(any.th[t].timers, k)
  <2>1. any \in Lib /\ any.th[t] \in Thread /\ Named(any.th[t].timers)
    BY <1>2, ReadOfLib
  <2> QED
    BY <1>1, <2>1, FindsPlace
<1>3. begun = StartedLib(lib, t, PlaceIn(lib.th[t].timers, k), full, now)
  <2>1. lib \in Lib
    BY <1>2
  <2>2. /\ GPTLstart(lib, t, name, now) = StartedLib(lib, t, getentry(lib.th[t], full), full, now)
        /\ GPTLstartf(lib, t, name, now) = StartedLib(lib, t, getentryf(lib.th[t], full), full, now)
    BY <2>1, PlainCalls
  <2> QED
    BY <1>2, <2>2 DEF PlainStart
<1>4. LibOK(begun, hit)
  BY <1>1, PlainCallsOK DEF PlainStart, StaysOK
<1>5. LibNames(begun)
  <2>1. Begins(lib, begun, t, k, now)
    BY <1>1, <1>3, StartedLibReads
  <2> QED
    BY <2>1 DEF Begins, SameReads, Starts
<1>6. FullName(begun, t, name) = full
  <2>1. begun.prefix_nt = lib.prefix_nt /\ begun.th[t].prefix = lib.th[t].prefix
    BY <1>1, <1>3, StartLeaves
  <2> QED
    BY <2>1 DEF FullName, Prefixed, add_prefix
<1>7. made = StoppedLib(begun, t, PlaceIn(begun.th[t].timers, k), now)
  <2>1. begun \in Lib
    BY <1>2, <1>4, <1>5
  <2>2. /\ GPTLstop(begun, t, name, now) = StoppedLib(begun, t, getentry(begun.th[t], full), now)
        /\ GPTLstopf(begun, t, name, now) = StoppedLib(begun, t, getentryf(begun.th[t], full), now)
    BY <1>6, <2>1, PlainCalls
  <2> QED
    BY <1>2, <1>4, <1>5, <2>2 DEF PlainStop
<1>8. LibOK(made, hit)
  BY <1>1, <1>4, PlainCallsOK DEF PlainStop, StaysOK
<1>9. LibNames(made)
  <2>1. Ends(begun, made, t, k, now)
    BY <1>1, <1>4, <1>5, <1>7, StoppedLibReads
  <2> QED
    BY <2>1 DEF Ends, SameReads, Stops
<1>10. made \in Lib
  BY <1>2, <1>8, <1>9
<1> QED
  BY <1>2, <1>3, <1>7, <1>8, <1>9, <1>10

\* GPTLstartstop_vals and GPTLstartstop_valsf do to the stopwatch of the full
\* name what they promise.
LEMMA AddReads ==
  ASSUME NEW lib, NEW hit, LibOK(lib, hit), LibNames(lib), NEW t \in Threads, NEW name \in Names,
         NEW now \in Int, NEW dt \in Nat, NEW n \in {0, 1},
         Reads(lib)[t][Key(lib, t, name)].runs = 0
  PROVE  /\ Adds(lib, GPTLstartstop_valsf(lib, t, name, now, dt, n), t, Key(lib, t, name), dt, n)
         /\ Len(name) <= MAX_CHARS =>
              Adds(lib, GPTLstartstop_vals(lib, t, name, now, dt, n), t, Key(lib, t, name), dt, n)
<1> DEFINE full == FullName(lib, t, name)
           k == Clip(full)
           begun == GPTLstart(lib, t, name, now)
           begunf == GPTLstartf(lib, t, name, now)
           made == GPTLstop(begun, t, name, now)
           madef == GPTLstopf(begunf, t, name, now)
<1>1. /\ full \in Seq(Int) /\ k \in Keys /\ name \in Seq(Int) /\ lib \in Lib
      /\ Len(name) <= MAX_CHARS => Len(full) <= MAX_CHARS
  BY FullNameKey, ReadOfLib
<1>2. Key(lib, t, name) = k
  BY DEF Key
<1>3. made \in Lib /\ madef \in Lib
  <2>1. LibOK(begun, hit) /\ LibOK(begunf, hit)
    BY <1>1, PlainCallsOK DEF StaysOK
  <2> HIDE DEF begun, begunf
  <2>2. LibOK(made, hit) /\ LibOK(madef, hit)
    BY <1>1, <2>1, PlainCallsOK DEF StaysOK
  <2> QED
    BY <2>2, ReadOfLib DEF LibOK
<1>4. /\ GPTLstartstop_vals(lib, t, name, now, dt, n)
           = AddedLib(lib, t, getentry(lib.th[t], full), made, getentry(made.th[t], full), now, dt, n)
      /\ GPTLstartstop_valsf(lib, t, name, now, dt, n)
           = AddedLib(lib, t, getentryf(lib.th[t], full), madef, getentryf(madef.th[t], full), now, dt, n)
  BY <1>1, <1>3, AddCalls
<1>5. /\ PlainStart(begunf, lib, t, full, name, now) /\ PlainStop(madef, begunf, t, full, name, now)
      /\ Len(full) <= MAX_CHARS => /\ PlainStart(begun, lib, t, full, name, now)
                                   /\ PlainStop(made, begun, t, full, name, now)
  BY DEF PlainStart, PlainStop
<1>6. full = FullName(lib, t, name) /\ Reads(lib)[t][k].runs = 0
  BY <1>2
<1>9. k = Clip(full)
  OBVIOUS
<1> HIDE DEF full, begun, begunf, made, madef, k
<1>7. Adds(lib, GPTLstartstop_valsf(lib, t, name, now, dt, n), t, k, dt, n)
  <2>1. /\ begunf = StartedLib(lib, t, PlaceIn(lib.th[t].timers, Clip(full)), full, now)
        /\ madef = StoppedLib(begunf, t, PlaceIn(begunf.th[t].timers, Clip(full)), now)
        /\ getentryf(lib.th[t], full) = PlaceIn(lib.th[t].timers, Clip(full))
        /\ getentryf(madef.th[t], full) = PlaceIn(madef.th[t].timers, Clip(full))
    BY <1>5, <1>6, MadeCalls
  <2> DEFINE found == getentryf(lib.th[t], full)
             place == getentryf(madef.th[t], full)
  <2>2. found = PlaceIn(lib.th[t].timers, k) /\ place = PlaceIn(madef.th[t].timers, k)
    BY <1>9, <2>1
  <2> HIDE DEF found, place
  <2>3. Adds(lib, AddedLib(lib, t, found, madef, place, now, dt, n), t, k, dt, n)
    <3>1. StartedStopped(lib, begunf, madef, t, k, full, now)
      BY <1>9, <2>1 DEF StartedStopped
    <3> QED
      BY <1>1, <1>6, <1>9, <2>2, <3>1, AddedLibReads
  <2> QED
    BY <1>4, <2>3 DEF found, place
<1>8. ASSUME Len(name) <= MAX_CHARS
      PROVE  Adds(lib, GPTLstartstop_vals(lib, t, name, now, dt, n), t, k, dt, n)
  <2>0. Len(full) <= MAX_CHARS
    BY <1>1, <1>8
  <2>1. /\ begun = StartedLib(lib, t, PlaceIn(lib.th[t].timers, Clip(full)), full, now)
        /\ made = StoppedLib(begun, t, PlaceIn(begun.th[t].timers, Clip(full)), now)
        /\ getentry(lib.th[t], full) = PlaceIn(lib.th[t].timers, Clip(full))
        /\ getentry(made.th[t], full) = PlaceIn(made.th[t].timers, Clip(full))
    BY <1>5, <1>6, <2>0, MadeCalls
  <2> DEFINE found == getentry(lib.th[t], full)
             place == getentry(made.th[t], full)
  <2>2. found = PlaceIn(lib.th[t].timers, k) /\ place = PlaceIn(made.th[t].timers, k)
    BY <1>9, <2>1
  <2> HIDE DEF found, place
  <2>3. Adds(lib, AddedLib(lib, t, found, made, place, now, dt, n), t, k, dt, n)
    <3>1. StartedStopped(lib, begun, made, t, k, full, now)
      BY <1>9, <2>1 DEF StartedStopped
    <3> QED
      BY <1>1, <1>6, <1>9, <2>2, <3>1, AddedLibReads
  <2> QED
    BY <1>4, <2>3 DEF found, place
<1> QED
  BY <1>2, <1>7, <1>8

\* No stopwatch was ever started.
AllStill == [t \in Threads |-> [k \in Keys |-> Still]]

\* The calls that change all timers, or none, and leave the stacks
Leaves(lib, new, reads) ==
  /\ LibNames(new) /\ new.depthlimit = lib.depthlimit
  /\ Reads(new) = reads /\ Stacks(new) = Stacks(lib)

\* Timers that keep their names and their places
LEMMA RowRebuilt ==
  ASSUME NEW T \in Seq(Timer), Named(T), NEW U \in Seq(Timer), Len(U) = Len(T),
         \A i \in 2 .. Len(T) : U[i].name = T[i].name
  PROVE  /\ Named(U)
         /\ (\A i \in 2 .. Len(T) : WatchOf(U[i]) = WatchOf(T[i])) => Row(U) = Row(T)
         /\ (\A i \in 2 .. Len(T) : WatchOf(U[i]) = Still) => Row(U) = [k \in Keys |-> Still]
<1>1. Named(U)
  BY DEF Named
<1>2. ASSUME NEW k PROVE PlaceIn(U, k) = PlaceIn(T, k) /\ PlaceIn(T, k) \in {0} \cup 2 .. Len(T)
  <2>1. At(U, k) = At(T, k)
    BY DEF At
  <2> QED
    BY <2>1, PlaceIs DEF PlaceIn
<1>3. ASSUME \A i \in 2 .. Len(T) : WatchOf(U[i]) = WatchOf(T[i]) PROVE Row(U) = Row(T)
  <2>1. \A k \in Keys : Read(U, k) = Read(T, k)
    BY <1>2, <1>3 DEF Read
  <2> QED
    BY <2>1 DEF Row
<1>4. ASSUME \A i \in 2 .. Len(T) : WatchOf(U[i]) = Still PROVE Row(U) = [k \in Keys |-> Still]
  <2>1. \A k \in Keys : Read(U, k) = Still
    BY <1>2, <1>4 DEF Read
  <2> QED
    BY <2>1 DEF Row
<1> QED
  BY <1>1, <1>3, <1>4

\* The library with the timers of all threads changed
LEMMA RebuiltReads ==
  ASSUME NEW lib, NEW hit, LibOK(lib, hit), LibNames(lib), NEW ths, DOMAIN ths = Threads,
         NEW reads, DOMAIN reads = Threads, reads = [t \in Threads |-> reads[t]],
         \A t \in Threads : /\ KeepsNames(lib.th[t], ths[t])
                            /\ ths[t].stackidx = lib.th[t].stackidx
                            /\ Len(ths[t].timers) = Len(lib.th[t].timers)
                            /\ Row(ths[t].timers) = reads[t]
  PROVE  /\ Leaves(lib, [lib EXCEPT !.th = ths], reads)
         /\ [lib EXCEPT !.th = ths].disabled = lib.disabled
<1> DEFINE new == [lib EXCEPT !.th = ths]
<1>1. lib \in Lib
  BY DEF LibOK
<1>2. /\ new.disabled = lib.disabled /\ new.depthlimit = lib.depthlimit
      /\ new.prefix_nt = lib.prefix_nt /\ new.th = ths /\ new.nthreads = lib.nthreads
  BY <1>1 DEF Lib
<1> HIDE DEF new
<1>3. ASSUME NEW t \in Threads PROVE ThreadNames(ths[t])
  <2>1. ThreadOK(lib.th[t], lib.depthlimit, hit) /\ ThreadNames(lib.th[t])
    BY ReadOfLib
  <2>2. KeepsNames(lib.th[t], ths[t])
    OBVIOUS
  <2> QED
    BY <2>1, <2>2, NamesStay
<1>4. LibNames(new)
  BY <1>2, <1>3 DEF LibNames
<1>5. Reads(new) = reads
  BY <1>2 DEF Reads
<1>6. Stacks(new) = Stacks(lib)
  BY <1>2 DEF Stacks
<1> QED
  BY <1>2, <1>4, <1>5, <1>6 DEF Leaves, new

\* A thread with its timers changed
LEMMA ThreadRenamed ==
  ASSUME NEW th \in Thread, NEW U, U \in Seq(Timer), Named(U),
         \A j \in 1 .. Len(th.timers) : U[j].name = th.timers[j].name
  PROVE  LET new == [th EXCEPT !.timers = U]
         IN  KeepsNames(th, new) /\ new.stackidx = th.stackidx /\ new.timers = U
BY DEF Thread, KeepsNames

\* GPTLreset stops and clears every stopwatch.
LEMMA ResetReads ==
  ASSUME NEW lib, NEW hit, LibOK(lib, hit), LibNames(lib)
  PROVE  Leaves(lib, GPTLreset(lib), AllStill) /\ GPTLreset(lib).disabled = lib.disabled
<1> DEFINE ths == [t \in Threads |-> IF t >= lib.nthreads THEN lib.th[t]
                                    ELSE ResetThread(lib.th[t])]
<1>1. GPTLreset(lib) = [lib EXCEPT !.th = ths]
  BY DEF GPTLreset
<1>2. DOMAIN AllStill = Threads /\ AllStill = [t \in Threads |-> AllStill[t]] /\ DOMAIN ths = Threads
  BY DEF AllStill
<1>3. ASSUME NEW t \in Threads
      PROVE  /\ KeepsNames(lib.th[t], ths[t])
             /\ ths[t].stackidx = lib.th[t].stackidx
             /\ Len(ths[t].timers) = Len(lib.th[t].timers)
             /\ Row(ths[t].timers) = AllStill[t]
  <2> DEFINE T == lib.th[t].timers
             U == [i \in DOMAIN T |-> ResetTimer(T[i])]
  <2>1. lib.th[t] \in Thread /\ Named(T) /\ T \in Seq(Timer) /\ Len(T) \in Nat
    BY ReadOfLib
  <2>2. AllStill[t] = [k \in Keys |-> Still]
    BY DEF AllStill
  <2>3. CASE t >= lib.nthreads
    <3>1. Len(T) = 1
      <4>1. lib.nthreads \in {-1, maxthreads} /\ maxthreads \in Nat
        BY GptlAssumption DEF LibOK, Lib
      <4>2. lib.nthreads = -1
        BY <2>3, <4>1 DEF Threads
      <4> QED
        BY <4>2 DEF LibNames
    <3>2. ths[t] = lib.th[t]
      BY <2>3
    <3>3. \A i \in 2 .. Len(T) : WatchOf(T[i]) = Still
      BY <3>1
    <3>4. Row(T) = [k \in Keys |-> Still]
      <4> HIDE DEF T
      <4> QED
        BY <2>1, <3>3, RowRebuilt
    <3> QED
      BY <2>1, <2>2, <3>2, <3>4 DEF KeepsNames
  <2>4. CASE ~(t >= lib.nthreads)
    <3>1. \A i \in 1 .. Len(T) :
            /\ ResetTimer(T[i]) \in Timer /\ ResetTimer(T[i]).onflg = FALSE
            /\ ResetTimer(T[i]).name = T[i].name /\ ResetTimer(T[i]).count = 0
            /\ ResetTimer(T[i]).accum = 0
      BY <2>1, ResetTimerIs, ElementsOfSeq
    <3>2. U = [i \in 1 .. Len(T) |-> ResetTimer(T[i])]
      BY <2>1
    <3>3. ths[t] = [lib.th[t] EXCEPT !.timers = U]
      BY <2>4 DEF ResetThread
    <3> HIDE DEF U, T, ths
    <3>4. U \in Seq(Timer) /\ Len(U) = Len(T) /\ \A i \in 1 .. Len(T) : U[i] = ResetTimer(T[i])
      BY <2>1, <3>1, <3>2
    <3>5. \A i \in 1 .. Len(T) : U[i].name = T[i].name /\ WatchOf(U[i]) = Still
      BY <3>1, <3>4 DEF WatchOf, Still
    <3>6. Named(U) /\ Row(U) = [k \in Keys |-> Still]
      <4>1. \A i \in 2 .. Len(T) : U[i].name = T[i].name /\ WatchOf(U[i]) = Still
        BY <2>1, <3>5
      <4> QED
        BY <2>1, <3>4, <4>1, RowRebuilt
    <3>7. KeepsNames(lib.th[t], ths[t]) /\ ths[t].stackidx = lib.th[t].stackidx /\ ths[t].timers = U
      BY <2>1, <3>3, <3>4, <3>5, <3>6, ThreadRenamed DEF T
    <3> QED
      BY <2>2, <3>4, <3>6, <3>7 DEF T
  <2> QED
    BY <2>3, <2>4
<1> HIDE DEF ths
<1> DEFINE reads == AllStill
<1>4. DOMAIN reads = Threads /\ reads = [t \in Threads |-> reads[t]] /\ DOMAIN ths = Threads
  BY <1>2
<1>5. \A t \in Threads : /\ KeepsNames(lib.th[t], ths[t])
                         /\ ths[t].stackidx = lib.th[t].stackidx
                         /\ Len(ths[t].timers) = Len(lib.th[t].timers)
                         /\ Row(ths[t].timers) = reads[t]
  BY <1>3
<1> HIDE DEF reads
<1>6. Leaves(lib, [lib EXCEPT !.th = ths], reads) /\ [lib EXCEPT !.th = ths].disabled = lib.disabled
  BY <1>4, <1>5, RebuiltReads
<1> QED
  BY <1>1, <1>6 DEF reads

\* GPTLpr_file changes no stopwatch.
LEMMA PrintReads ==
  ASSUME NEW lib, NEW hit, LibOK(lib, hit), LibNames(lib), NEW method \in Methods
  PROVE  /\ Leaves(lib, GPTLpr_file(lib, method), Reads(lib))
         /\ GPTLpr_file(lib, method).disabled = lib.disabled
<1> DEFINE ths == [t \in Threads |-> IF t >= lib.nthreads THEN lib.th[t]
                                    ELSE PrintedThread(lib.th[t], method)]
<1>1. GPTLpr_file(lib, method) = [lib EXCEPT !.th = ths]
  BY DEF GPTLpr_file
<1>2. DOMAIN Reads(lib) = Threads /\ Reads(lib) = [t \in Threads |-> Reads(lib)[t]]
      /\ DOMAIN ths = Threads
  BY DEF Reads
<1>3. ASSUME NEW t \in Threads
      PROVE  /\ KeepsNames(lib.th[t], ths[t])
             /\ ths[t].stackidx = lib.th[t].stackidx
             /\ Len(ths[t].timers) = Len(lib.th[t].timers)
             /\ Row(ths[t].timers) = Reads(lib)[t]
  <2> DEFINE T == lib.th[t].timers
             U == construct_tree(T, method)
  <2>1. /\ lib.th[t] \in Thread /\ Named(T) /\ T \in Seq(Timer) /\ Len(T) \in Nat
        /\ Reads(lib)[t] = Row(T) /\ ThreadOK(lib.th[t], lib.depthlimit, hit)
    BY ReadOfLib
  <2>3. CASE t >= lib.nthreads
    <3>2. ths[t] = lib.th[t]
      BY <2>3
    <3> QED
      BY <2>1, <3>2 DEF KeepsNames
  <2>4. CASE ~(t >= lib.nthreads)
    <3>1. TimersOK(T, hit)
      BY <2>1 DEF ThreadOK
    <3>2. ths[t] = [lib.th[t] EXCEPT !.timers = U]
      BY <2>4 DEF PrintedThread
    <3> HIDE DEF T, ths
    <3>3. U \in Redrawn(T)
      <4>1. \A i \in 1 .. Len(T) : \A k \in 1 .. Len(T[i].parent) : T[i].parent[k].of \in 1 .. Len(T)
        BY <3>1 DEF TimersOK, ParentsIn
      <4>2. Tree(T)
        BY <3>1 DEF TimersOK
      <4> QED
        BY <2>1, <4>1, <4>2, TreeIsConstructed
    <3> HIDE DEF U
    <3>4. /\ U \in Seq(Timer) /\ Len(U) = Len(T)
          /\ \A i \in 1 .. Len(T) : U[i] = [T[i] EXCEPT !.children = U[i].children]
      BY <3>3 DEF Redrawn
    <3>5. \A i \in 1 .. Len(T) : U[i].name = T[i].name /\ WatchOf(U[i]) = WatchOf(T[i])
      <4> SUFFICES ASSUME NEW i \in 1 .. Len(T)
                   PROVE  U[i].name = T[i].name /\ WatchOf(U[i]) = WatchOf(T[i])
        OBVIOUS
      <4>1. T[i] \in Timer /\ U[i] = [T[i] EXCEPT !.children = U[i].children]
        BY <2>1, <3>4
      <4>2. /\ U[i].onflg = T[i].onflg /\ U[i].recurselvl = T[i].recurselvl
            /\ U[i].last = T[i].last /\ U[i].accum = T[i].accum /\ U[i].count = T[i].count
            /\ U[i].name = T[i].name
        BY <4>1 DEF Timer
      <4> QED
        BY <4>2 DEF WatchOf
    <3>6. Named(U) /\ Row(U) = Row(T)
      <4>1. \A i \in 2 .. Len(T) : U[i].name = T[i].name /\ WatchOf(U[i]) = WatchOf(T[i])
        BY <2>1, <3>5
      <4> QED
        BY <2>1, <3>4, <4>1, RowRebuilt
    <3>7. KeepsNames(lib.th[t], ths[t]) /\ ths[t].stackidx = lib.th[t].stackidx /\ ths[t].timers = U
      BY <2>1, <3>2, <3>4, <3>5, <3>6, ThreadRenamed DEF T
    <3> QED
      BY <2>1, <3>4, <3>6, <3>7 DEF T
  <2> QED
    BY <2>3, <2>4
<1> HIDE DEF ths
<1> QED
  BY <1>1, <1>2, <1>3, RebuiltReads

\* GPTLprefix_set and GPTLprefix_unset change no stopwatch.
LEMMA PrefixReads ==
  ASSUME NEW lib, NEW hit, LibOK(lib, hit), LibNames(lib), NEW t \in Threads, NEW serial,
         NEW prefix \in PrefixNames, NEW new,
         \/ new = GPTLprefix_set(lib, t, serial, prefix)
         \/ new = GPTLprefix_unset(lib, t, serial)
  PROVE  Leaves(lib, new, Reads(lib)) /\ new.disabled = lib.disabled
<1>1. PICK clip \in {Clip(prefix), <<>>} :
        new = IF lib.disabled THEN lib
              ELSE IF serial THEN [lib EXCEPT !.prefix_nt = clip]
              ELSE [get_thread_num(lib) EXCEPT !.th[t].prefix = clip]
  BY DEF GPTLprefix_set, GPTLprefix_unset
<1>2. clip \in Cut /\ clip \in Seq(Int)
  <2>1. <<>> \in PrefixNames /\ PrefixNames \subseteq Seq(Int) /\ <<>> \in Seq(Int)
    BY SummaryAssumption
  <2>2. Clip(<<>>) = <<>> /\ Clip(prefix) \in Seq(Int)
    <3>1. Len(<<>>) = 0 /\ 0 <= MAX_CHARS
      BY GptlAssumption
    <3> QED
      BY <2>1, <3>1, ClipName
  <2> QED
    BY <2>1, <2>2 DEF Cut
<1>3. lib \in Lib /\ lib.th[t] \in Thread /\ ThreadNames(lib.th[t])
      /\ Reads(lib)[t] = Row(lib.th[t].timers) /\ Stacks(lib)[t] = lib.th[t].stackidx
  BY ReadOfLib
<1>4. CASE lib.disabled
  BY <1>1, <1>4 DEF Leaves
<1>5. CASE ~lib.disabled /\ serial
  <2>1. new = [lib EXCEPT !.prefix_nt = clip]
    BY <1>1, <1>5
  <2>2. /\ new.th = lib.th /\ new.depthlimit = lib.depthlimit /\ new.disabled = lib.disabled
        /\ new.nthreads = lib.nthreads /\ new.prefix_nt = clip
    BY <1>3, <2>1 DEF Lib
  <2> QED
    BY <1>2, <2>2 DEF Leaves, LibNames, Reads, Stacks
<1>6. CASE ~lib.disabled /\ ~serial
  <2> DEFINE th == lib.th[t]
             uh == [th EXCEPT !.prefix = clip]
  <2>1. new = AtThread(lib, t, uh)
    BY <1>1, <1>3, <1>6 DEF AtThread, get_thread_num, Lib
  <2>3. uh \in Thread /\ uh.timers = th.timers /\ uh.stackidx = th.stackidx
        /\ uh.handle = th.handle /\ uh.prefix = clip
    BY <1>2, <1>3 DEF Thread
  <2> HIDE DEF uh
  <2>4. ThreadNames(uh)
    BY <1>2, <1>3, <2>3 DEF ThreadNames, HandlesNamed
  <2>5. Rewritten(lib, AtThread(lib, t, uh), t, uh)
    BY <1>3, <2>3, <2>4, ReadsChange
  <2>6. /\ LibNames(new) /\ Reads(new) = [Reads(lib) EXCEPT ![t] = Row(uh.timers)]
        /\ Stacks(new) = [Stacks(lib) EXCEPT ![t] = uh.stackidx]
        /\ new.disabled = lib.disabled /\ new.depthlimit = lib.depthlimit
    BY <2>1, <2>5 DEF Rewritten
  <2>7. Row(uh.timers) = Reads(lib)[t] /\ uh.stackidx = Stacks(lib)[t]
    BY <1>3, <2>3
  <2>8. Reads(new) = Reads(lib) /\ Stacks(new) = Stacks(lib)
    BY <2>6, <2>7 DEF Reads, Stacks
  <2> QED
    BY <2>6, <2>8 DEF Leaves
<1> QED
  BY <1>4, <1>5, <1>6

\* GPTLenable and GPTLdisable change no stopwatch.
LEMMA SwitchReads ==
  ASSUME NEW lib, NEW hit, LibOK(lib, hit), LibNames(lib)
  PROVE  /\ Leaves(lib, GPTLenable(lib), Reads(lib)) /\ GPTLenable(lib).disabled = FALSE
         /\ Leaves(lib, GPTLdisable(lib), Reads(lib)) /\ GPTLdisable(lib).disabled = TRUE
<1> SUFFICES ASSUME NEW off \in BOOLEAN, NEW new, new = [lib EXCEPT !.disabled = off]
             PROVE  Leaves(lib, new, Reads(lib)) /\ new.disabled = off
  BY DEF GPTLenable, GPTLdisable
<1>1. lib \in Lib
  BY DEF LibOK
<1>2. /\ new.th = lib.th /\ new.depthlimit = lib.depthlimit /\ new.disabled = off
      /\ new.nthreads = lib.nthreads /\ new.prefix_nt = lib.prefix_nt
  BY <1>1 DEF Lib
<1> QED
  BY <1>2 DEF Leaves, LibNames, Reads, Stacks

(***************************************************************************)
(* The library of rank 0 as stopwatches.                                   *)
(***************************************************************************)
NamesKnown == LibNames(g[0])

\* The refinement mapping reads the timers as Reads and Stacks do.
LEMMA ReadingIs ==
  ASSUME NEW th, NEW k PROVE Reading(th, k) = Read(th.timers, k)
<1>1. FirstIn(th, LAMBDA held : held = k) = PlaceIn(th.timers, k)
  BY DEF FirstIn, PlaceIn, At
<1> QED
  BY <1>1 DEF Reading, Read, WatchOf, Still

\* The refinement mapping, in terms of Reads and Stacks
LEMMA ReadingsAre == Readings = Reads(g[0]) /\ Open = Stacks(g[0])
BY ReadingIs DEF Readings, Reads, Row, Open, Stacks

\* The same after a step
LEMMA ReadingsNext == Readings' = Reads(g'[0]) /\ Open' = Stacks(g'[0])
BY ReadingIs DEF Readings, Reads, Row, Open, Stacks

\* GPTLinitialize leaves stopwatches that were never started.
LEMMA InitializeReads ==
  ASSUME NEW limit \in Nat
  PROVE  LET lib == GPTLinitialize(limit)
         IN  /\ LibNames(lib) /\ lib.depthlimit = limit /\ lib.disabled = FALSE
             /\ Reads(lib) = AllStill /\ Stacks(lib) = [t \in Threads |-> 0]
<1> DEFINE lib == GPTLinitialize(limit)
           tm == [NewTimer(<<>>) EXCEPT !.onflg = TRUE]
           T == << tm >>
<1>1. /\ lib.prefix_nt = <<>> /\ lib.depthlimit = limit /\ lib.disabled = FALSE
      /\ \A t \in Threads : lib.th[t] = NewThread
  BY DEF GPTLinitialize
<1>2. /\ NewThread.timers = T /\ NewThread.stackidx = 0 /\ NewThread.prefix = <<>>
      /\ \A n \in Names : NewThread.handle[n] = 0
  BY DEF NewThread
<1>3. Len(T) = 1
  OBVIOUS
<1> HIDE DEF T, lib
<1>4. <<>> \in Cut
  <2>1. <<>> \in PrefixNames /\ <<>> \in Seq(Int)
    BY SummaryAssumption
  <2>2. Clip(<<>>) = <<>>
    <3>1. Len(<<>>) = 0 /\ 0 <= MAX_CHARS
      BY GptlAssumption
    <3> QED
      BY <2>1, <3>1, ClipName
  <2> QED
    BY <2>1, <2>2 DEF Cut
<1>5. Named(T)
  BY <1>3 DEF Named
<1>6. ThreadNames(NewThread)
  BY <1>2, <1>4, <1>5 DEF ThreadNames, HandlesNamed
<1>7. LibNames(lib)
  BY <1>1, <1>2, <1>3, <1>4, <1>6 DEF LibNames
<1>8. \A k : PlaceIn(T, k) = 0
  BY <1>3 DEF PlaceIn, At
<1>9. Row(T) = [k \in Keys |-> Still]
  BY <1>8 DEF Row, Read
<1>10. Reads(lib) = AllStill /\ Stacks(lib) = [t \in Threads |-> 0]
  BY <1>1, <1>2, <1>9 DEF Reads, AllStill, Stacks
<1> QED
  BY <1>1, <1>7, <1>10 DEF lib

\* The job begins with stopwatches that were never started.
LEMMA InitWatches == Init => NamesKnown /\ Watches!Init
<1> SUFFICES ASSUME Init PROVE NamesKnown /\ Watches!Init
  OBVIOUS
<1>1. PICK limit \in DepthLimits : g = [r \in Ranks |-> GPTLinitialize(limit)]
  BY DEF Init
<1>2. clock = [r \in Ranks |-> 0] /\ call = [op |-> "none"]
  BY DEF Init
<1>3. limit \in Nat
  BY SummaryAssumption
<1>4. 0 \in Ranks
  BY InitTimers DEF TimersKnown, Ranks
<1> DEFINE lib == GPTLinitialize(limit)
<1>5. g[0] = lib /\ clock[0] = 0 /\ call.op = "none"
  BY <1>1, <1>2, <1>4
<1>6. /\ LibNames(lib) /\ lib.depthlimit = limit /\ lib.disabled = FALSE
      /\ Reads(lib) = AllStill /\ Stacks(lib) = [t \in Threads |-> 0]
  BY <1>3, InitializeReads
<1> HIDE DEF lib
<1>7. Readings = AllStill /\ Open = [t \in Threads |-> 0]
  BY <1>5, <1>6, ReadingsAre
<1> QED
  BY <1>3, <1>5, <1>6, <1>7 DEF NamesKnown, Watches!Init, Watches!Stopped, AllStill, Still

(***************************************************************************)
(* A call of rank 0 is a step of the stopwatches.                          *)
(***************************************************************************)
\* What every call does to the other variables of the stopwatches
Answers(op) == /\ clock'[0] = clock[0] + 1 /\ call'.op = op
               /\ g'[0].depthlimit = g[0].depthlimit
AnswersOf(op, t, k) == Answers(op) /\ call'.o = t /\ call'.k = k

\* A start is a step of the stopwatches.
LEMMA ServeStart ==
  ASSUME NEW t \in Threads, NEW k \in Keys, AnswersOf("start", t, k),
         Begins(g[0], g'[0], t, k, clock[0])
  PROVE  Watches!Next
<1>1. Readings = Reads(g[0]) /\ Open = Stacks(g[0])
      /\ Readings' = Reads(g'[0]) /\ Open' = Stacks(g'[0])
  BY ReadingsAre, ReadingsNext
<1>2. \A w : Watches!Started(w) = Begun(w, clock[0])
  BY DEF Watches!Started, Begun
<1>3. CASE g[0].disabled
  <2>1. Readings' = Readings /\ Open' = Open /\ g'[0].disabled = g[0].disabled
    BY <1>1, <1>3 DEF Begins, SameReads
  <2> QED
    BY <1>3, <2>1 DEF AnswersOf, Answers, Watches!Next, Watches!Serve
<1>4. CASE ~g[0].disabled
  <2>1. Starts(g[0], g'[0], t, k, clock[0]) /\ g'[0].disabled = g[0].disabled
    BY <1>4 DEF Begins
  <2>2. Skipped(g[0], t, k) <=>
          Open[t] >= g[0].depthlimit \/ (Readings[t][k].runs = 0 /\ Open[t] + 1 >= MAX_STACK)
    BY <1>1 DEF Skipped
  <2>3. SetRead(g[0], t, k, Begun(Reads(g[0])[t][k], clock[0]))
          = [Readings EXCEPT ![t][k] = Watches!Started(@)]
    BY <1>1, <1>2 DEF SetRead
  <2>4. SetStack(g[0], t, Stacks(g[0])[t] + 1) = [Open EXCEPT ![t] = @ + 1]
    BY <1>1 DEF SetStack
  <2>5. [Open EXCEPT ![t] = Open[t]] = Open
    BY DEF Open
  <2>6. Readings' = IF Skipped(g[0], t, k) THEN Readings
                    ELSE [Readings EXCEPT ![t][k] = Watches!Started(@)]
    BY <1>1, <2>1, <2>3 DEF Starts
  <2>7. Open' = [Open EXCEPT ![t] = IF Skipped(g[0], t, k) \/ Readings[t][k].runs = 0
                                    THEN @ + 1 ELSE @]
    BY <1>1, <2>1, <2>4, <2>5 DEF Starts
  <2>8. Watches!Start(t, k)
    BY <2>2, <2>6, <2>7 DEF Watches!Start
  <2> QED
    BY <1>4, <2>1, <2>8 DEF AnswersOf, Answers, Watches!Next, Watches!Serve
<1> QED
  BY <1>3, <1>4

\* A stop is a step of the stopwatches.
LEMMA ServeStop ==
  ASSUME NEW t \in Threads, NEW k \in Keys, AnswersOf("stop", t, k),
         Ends(g[0], g'[0], t, k, clock[0])
  PROVE  Watches!Next
<1>1. Readings = Reads(g[0]) /\ Open = Stacks(g[0])
      /\ Readings' = Reads(g'[0]) /\ Open' = Stacks(g'[0])
  BY ReadingsAre, ReadingsNext
<1>2. \A w : Watches!Halted(w) = Halted(w, clock[0])
  BY DEF Watches!Halted, Halted
<1>3. CASE g[0].disabled
  <2>1. Readings' = Readings /\ Open' = Open /\ g'[0].disabled = g[0].disabled
    BY <1>1, <1>3 DEF Ends, SameReads
  <2> QED
    BY <1>3, <2>1 DEF AnswersOf, Answers, Watches!Next, Watches!Serve
<1>4. CASE ~g[0].disabled
  <2>1. Stops(g[0], g'[0], t, k, clock[0]) /\ g'[0].disabled = g[0].disabled
    BY <1>4 DEF Ends
  <2>2. SetRead(g[0], t, k, Halted(Reads(g[0])[t][k], clock[0]))
          = [Readings EXCEPT ![t][k] = Watches!Halted(@)]
    BY <1>1, <1>2 DEF SetRead
  <2>3. SetStack(g[0], t, Stacks(g[0])[t] - 1) = [Open EXCEPT ![t] = @ - 1]
    BY <1>1 DEF SetStack
  <2>4. [Open EXCEPT ![t] = Open[t]] = Open
    BY DEF Open
  <2>8. Watches!Stop(t, k)
    <3>5. CASE Open[t] > g[0].depthlimit
      BY <1>1, <2>1, <2>3, <3>5 DEF Stops, Watches!Stop
    <3>6. CASE ~(Open[t] > g[0].depthlimit) /\ Readings[t][k].runs = 0
      BY <1>1, <2>1, <3>6 DEF Stops, Watches!Stop
    <3>7. CASE ~(Open[t] > g[0].depthlimit) /\ Readings[t][k].runs # 0
      <4>1. Readings' = [Readings EXCEPT ![t][k] = Watches!Halted(@)]
        BY <1>1, <2>1, <2>2, <3>7 DEF Stops
      <4>2. Open' = [Open EXCEPT ![t] = IF Readings[t][k].runs = 1 THEN @ - 1 ELSE @]
        BY <1>1, <2>1, <2>3, <2>4, <3>7 DEF Stops
      <4> QED
        BY <3>7, <4>1, <4>2 DEF Watches!Stop
    <3> QED
      BY <3>5, <3>6, <3>7
  <2> QED
    BY <1>4, <2>1, <2>8 DEF AnswersOf, Answers, Watches!Next, Watches!Serve
<1> QED
  BY <1>3, <1>4

\* A time added is a step of the stopwatches.
LEMMA ServeAdd ==
  ASSUME NEW t \in Threads, NEW k \in Keys, NEW dt, NEW n, AnswersOf("add", t, k),
         call'.dt = dt, call'.calls = n, Adds(g[0], g'[0], t, k, dt, n)
  PROVE  Watches!Next
<1>1. Readings = Reads(g[0]) /\ Open = Stacks(g[0])
      /\ Readings' = Reads(g'[0]) /\ Open' = Stacks(g'[0])
  BY ReadingsAre, ReadingsNext
<1>2. \A w : Watches!More(w, dt, n) = Plus(w, dt, n)
  BY DEF Watches!More, Plus
<1>3. CASE g[0].disabled
  <2>1. Readings' = Readings /\ Open' = Open /\ g'[0].disabled = g[0].disabled
    BY <1>1, <1>3 DEF Adds, SameReads
  <2> QED
    BY <1>3, <2>1 DEF AnswersOf, Answers, Watches!Next, Watches!Serve
<1>4. CASE ~g[0].disabled
  <2>2. SetRead(g[0], t, k, Plus(Reads(g[0])[t][k], dt, n))
          = [Readings EXCEPT ![t][k] = Watches!More(@, dt, n)]
    BY <1>1, <1>2 DEF SetRead
  <2>3. SetStack(g[0], t, Stacks(g[0])[t] + 1) = [Open EXCEPT ![t] = @ + 1]
    BY <1>1 DEF SetStack
  <2>4. Still = Watches!Stopped
    BY DEF Still, Watches!Stopped
  <2>5. Watches!Add(t, k, dt, n) /\ g'[0].disabled = g[0].disabled
    BY <1>1, <1>4, <2>2, <2>3, <2>4 DEF Adds, Watches!Add
  <2> QED
    BY <1>4, <2>5 DEF AnswersOf, Answers, Watches!Next, Watches!Serve
<1> QED
  BY <1>3, <1>4

\* A reset is a step of the stopwatches.
LEMMA ServeReset ==
  ASSUME Answers("reset"), Leaves(g[0], g'[0], AllStill), g'[0].disabled = g[0].disabled
  PROVE  Watches!Next
<1>1. Open = Stacks(g[0]) /\ Readings' = Reads(g'[0]) /\ Open' = Stacks(g'[0])
  BY ReadingsAre, ReadingsNext
<1>2. AllStill = [o \in Threads |-> [k \in Keys |-> Watches!Stopped]]
  BY DEF AllStill, Still, Watches!Stopped
<1>3. Watches!Zero
  BY <1>1, <1>2 DEF Leaves, Watches!Zero
<1> QED
  BY <1>3 DEF Answers, Watches!Next, Watches!Serve

\* The other calls are steps that change no stopwatch.
LEMMA ServeOther ==
  ASSUME NEW op \in {"prefix", "enable", "disable", "pr", "fork", "join"}, Answers(op),
         Leaves(g[0], g'[0], Reads(g[0])),
         g'[0].disabled = IF op = "disable" THEN TRUE ELSE IF op = "enable" THEN FALSE
                          ELSE g[0].disabled
  PROVE  Watches!Next
<1>1. Readings = Reads(g[0]) /\ Open = Stacks(g[0])
      /\ Readings' = Reads(g'[0]) /\ Open' = Stacks(g'[0])
  BY ReadingsAre, ReadingsNext
<1>2. Readings' = Readings /\ Open' = Open
  BY <1>1 DEF Leaves
<1> QED
  BY <1>2 DEF Answers, Watches!Next, Watches!Serve

(***************************************************************************)
(* The steps of the job.                                                   *)
(***************************************************************************)
\* What rank 0 is in when it makes the call c, and what its call leaves
LEMMA MadeByZero ==
  ASSUME TimersKnown, NamesKnown, NEW c \in CallRecords, NEW new, Made(0, c, new)
  PROVE  /\ LibOK(g[0], touched[0]) /\ LibNames(g[0]) /\ clock[0] \in Int
         /\ g'[0] = new
         /\ new.depthlimit = g[0].depthlimit =>
              /\ c.op \in {"start", "stop"} => AnswersOf(c.op, c.t, Key(g[0], c.t, c.name))
              /\ c.op = "add" => /\ AnswersOf("add", c.t, Key(g[0], c.t, c.name))
                                 /\ call'.dt = c.dt /\ call'.calls = c.calls
              /\ c.op \notin {"start", "stop", "add"} => Answers(c.op)
<1>1. 0 \in Ranks /\ g \in [Ranks -> Lib] /\ clock \in [Ranks -> Nat]
      /\ LibOK(g[0], touched[0])
  BY DEF TimersKnown, Ranks
<1>2. /\ g' = [g EXCEPT ![0] = new] /\ clock' = [clock EXCEPT ![0] = @ + 1]
      /\ call' = CASE c.op \in {"start", "stop"} ->
                         [op |-> c.op, o |-> c.t, k |-> Clip(FullName(g[0], c.t, c.name))]
                    [] c.op = "add" ->
                         [op |-> "add", o |-> c.t, k |-> Clip(FullName(g[0], c.t, c.name)),
                          dt |-> c.dt, calls |-> c.calls]
                    [] OTHER -> [op |-> c.op]
  BY DEF Made
<1>3. g'[0] = new /\ clock'[0] = clock[0] + 1 /\ clock[0] \in Int
  BY <1>1, <1>2
<1>4. c.op \in {"start", "stop"} =>
        call'.op = c.op /\ call'.o = c.t /\ call'.k = Key(g[0], c.t, c.name)
  BY <1>2 DEF Key
<1>5. c.op = "add" =>
        /\ call'.op = "add" /\ call'.o = c.t /\ call'.k = Key(g[0], c.t, c.name)
        /\ call'.dt = c.dt /\ call'.calls = c.calls
  BY <1>2 DEF Key
<1>6. c.op \notin {"start", "stop", "add"} => call'.op = c.op
  BY <1>2
<1> QED
  BY <1>1, <1>3, <1>4, <1>5, <1>6 DEF NamesKnown, AnswersOf, Answers

\* What a call of rank 0 shows
Shown == NamesKnown' /\ Watches!Next

\* GPTLstart and its variants, called by rank 0
LEMMA StartTimerShown ==
  ASSUME TimersKnown, NamesKnown, StartTimer(0) PROVE Shown
<1>1. PICK c \in Calls(0, "start") :
        Made(0, c, CASE ~c.f /\ ~c.h -> GPTLstart(g[0], c.t, c.name, clock[0])
                     [] c.f /\ ~c.h  -> GPTLstartf(g[0], c.t, c.name, clock[0])
                     [] ~c.f /\ c.h  -> GPTLstart_handle(g[0], c.t, c.name, clock[0])
                     [] c.f /\ c.h   -> GPTLstartf_handle(g[0], c.t, c.name, clock[0]))
  BY DEF StartTimer
<1> DEFINE new == CASE ~c.f /\ ~c.h -> GPTLstart(g[0], c.t, c.name, clock[0])
                     [] c.f /\ ~c.h  -> GPTLstartf(g[0], c.t, c.name, clock[0])
                     [] ~c.f /\ c.h  -> GPTLstart_handle(g[0], c.t, c.name, clock[0])
                     [] c.f /\ c.h   -> GPTLstartf_handle(g[0], c.t, c.name, clock[0])
           k == Key(g[0], c.t, c.name)
<1>2. c \in CallRecords /\ c.t \in Threads /\ c.name \in Names /\ c.f \in BOOLEAN /\ c.h \in BOOLEAN
      /\ c.op = "start"
      /\ (~c.f => Len(FullName(g[0], c.t, c.name)) <= MAX_CHARS /\ Len(c.name) <= MAX_CHARS)
  <2>1. c \in Offered(0) /\ c.op = "start" /\ Legal(0, c) /\ 0 \in Ranks
    BY DEF Calls, TimersKnown, Ranks
  <2>2. c \in CallRecords /\ c.t \in Threads /\ c.name \in Names
    BY <2>1, OfferedIs
  <2> QED
    BY <2>1, <2>2 DEF CallRecords, Legal
<1>3. /\ ~c.f /\ ~c.h => new = GPTLstart(g[0], c.t, c.name, clock[0])
      /\ c.f /\ ~c.h => new = GPTLstartf(g[0], c.t, c.name, clock[0])
      /\ ~c.f /\ c.h => new = GPTLstart_handle(g[0], c.t, c.name, clock[0])
      /\ c.f /\ c.h => new = GPTLstartf_handle(g[0], c.t, c.name, clock[0])
  BY <1>2
<1>4. Made(0, c, new)
  BY <1>1
<1> HIDE DEF new, k
<1>5. LibOK(g[0], touched[0]) /\ LibNames(g[0]) /\ clock[0] \in Int /\ g'[0] = new
  BY <1>2, <1>4, MadeByZero
<1>6. Begins(g[0], new, c.t, k, clock[0])
  <2>1. /\ Begins(g[0], GPTLstartf(g[0], c.t, c.name, clock[0]), c.t, k, clock[0])
        /\ Len(FullName(g[0], c.t, c.name)) <= MAX_CHARS =>
             Begins(g[0], GPTLstart(g[0], c.t, c.name, clock[0]), c.t, k, clock[0])
    BY <1>2, <1>5, PlainReads DEF k
  <2>2. /\ Begins(g[0], GPTLstartf_handle(g[0], c.t, c.name, clock[0]), c.t, k, clock[0])
        /\ Len(c.name) <= MAX_CHARS =>
             Begins(g[0], GPTLstart_handle(g[0], c.t, c.name, clock[0]), c.t, k, clock[0])
    BY <1>2, <1>5, HandleReads DEF k
  <2> QED
    BY <1>2, <1>3, <2>1, <2>2
<1>7. LibNames(new) /\ new.depthlimit = g[0].depthlimit
  BY <1>6 DEF Begins, SameReads, Starts
<1>8. AnswersOf("start", c.t, k)
  BY <1>2, <1>4, <1>7, MadeByZero DEF k
<1>9. k \in Keys
  BY <1>2, <1>5, FullNameKey, ReadOfLib DEF k, Key
<1>10. Watches!Next
  BY <1>2, <1>5, <1>6, <1>8, <1>9, ServeStart
<1> QED
  BY <1>5, <1>7, <1>10 DEF Shown, NamesKnown

\* GPTLstop and its variants, called by rank 0
LEMMA StopTimerShown ==
  ASSUME TimersKnown, NamesKnown, StopTimer(0) PROVE Shown
<1>1. PICK c \in Calls(0, "stop") :
        Made(0, c, CASE ~c.f /\ ~c.h -> GPTLstop(g[0], c.t, c.name, clock[0])
                     [] c.f /\ ~c.h  -> GPTLstopf(g[0], c.t, c.name, clock[0])
                     [] ~c.f /\ c.h  -> GPTLstop_handle(g[0], c.t, c.name, clock[0])
                     [] c.f /\ c.h   -> GPTLstopf_handle(g[0], c.t, c.name, clock[0]))
  BY DEF StopTimer
<1> DEFINE new == CASE ~c.f /\ ~c.h -> GPTLstop(g[0], c.t, c.name, clock[0])
                     [] c.f /\ ~c.h  -> GPTLstopf(g[0], c.t, c.name, clock[0])
                     [] ~c.f /\ c.h  -> GPTLstop_handle(g[0], c.t, c.name, clock[0])
                     [] c.f /\ c.h   -> GPTLstopf_handle(g[0], c.t, c.name, clock[0])
           k == Key(g[0], c.t, c.name)
<1>2. c \in CallRecords /\ c.t \in Threads /\ c.name \in Names /\ c.f \in BOOLEAN /\ c.h \in BOOLEAN
      /\ c.op = "stop"
      /\ (~c.f => Len(FullName(g[0], c.t, c.name)) <= MAX_CHARS /\ Len(c.name) <= MAX_CHARS)
  <2>1. c \in Offered(0) /\ c.op = "stop" /\ Legal(0, c) /\ 0 \in Ranks
    BY DEF Calls, TimersKnown, Ranks
  <2>2. c \in CallRecords /\ c.t \in Threads /\ c.name \in Names
    BY <2>1, OfferedIs
  <2> QED
    BY <2>1, <2>2 DEF CallRecords, Legal
<1>3. /\ ~c.f /\ ~c.h => new = GPTLstop(g[0], c.t, c.name, clock[0])
      /\ c.f /\ ~c.h => new = GPTLstopf(g[0], c.t, c.name, clock[0])
      /\ ~c.f /\ c.h => new = GPTLstop_handle(g[0], c.t, c.name, clock[0])
      /\ c.f /\ c.h => new = GPTLstopf_handle(g[0], c.t, c.name, clock[0])
  BY <1>2
<1>4. Made(0, c, new)
  BY <1>1
<1> HIDE DEF new, k
<1>5. LibOK(g[0], touched[0]) /\ LibNames(g[0]) /\ clock[0] \in Int /\ g'[0] = new
  BY <1>2, <1>4, MadeByZero
<1>6. Ends(g[0], new, c.t, k, clock[0])
  <2>1. /\ Ends(g[0], GPTLstopf(g[0], c.t, c.name, clock[0]), c.t, k, clock[0])
        /\ Len(FullName(g[0], c.t, c.name)) <= MAX_CHARS =>
             Ends(g[0], GPTLstop(g[0], c.t, c.name, clock[0]), c.t, k, clock[0])
    BY <1>2, <1>5, PlainReads DEF k
  <2>2. /\ Ends(g[0], GPTLstopf_handle(g[0], c.t, c.name, clock[0]), c.t, k, clock[0])
        /\ Len(c.name) <= MAX_CHARS =>
             Ends(g[0], GPTLstop_handle(g[0], c.t, c.name, clock[0]), c.t, k, clock[0])
    BY <1>2, <1>5, HandleReads DEF k
  <2> QED
    BY <1>2, <1>3, <2>1, <2>2
<1>7. LibNames(new) /\ new.depthlimit = g[0].depthlimit
  BY <1>6 DEF Ends, SameReads, Stops
<1>8. AnswersOf("stop", c.t, k)
  BY <1>2, <1>4, <1>7, MadeByZero DEF k
<1>9. k \in Keys
  BY <1>2, <1>5, FullNameKey, ReadOfLib DEF k, Key
<1>10. Watches!Next
  BY <1>2, <1>5, <1>6, <1>8, <1>9, ServeStop
<1> QED
  BY <1>5, <1>7, <1>10 DEF Shown, NamesKnown

\* A timer that does not run stands for a stopwatch that does not run.
LEMMA NotRunning ==
  ASSUME NEW hit, LibOK(g[0], hit), LibNames(g[0]), NEW t \in Threads, NEW name \in Names,
         ~Running(0, t, name)
  PROVE  Reads(g[0])[t][Key(g[0], t, name)].runs = 0
<1> DEFINE T == g[0].th[t].timers
           k == Key(g[0], t, name)
<1>1. k \in Keys
  BY FullNameKey, ReadOfLib DEF Key
<1>2. Named(T) /\ T \in Seq(Timer) /\ Reads(g[0])[t][k] = Read(T, k)
  BY <1>1, ReadOfLib
<1>3. \A i \in 2 .. Len(T) : ~(T[i].name = k /\ T[i].onflg)
  BY DEF Running, Key
<1> HIDE DEF T, k
<1>4. ~(PlaceIn(T, k) # 0 /\ T[PlaceIn(T, k)].onflg)
  BY <1>2, <1>3, PlaceIs
<1>5. ~(Read(T, k).runs # 0)
  BY <1>2, <1>4, ReadIs
<1> QED
  BY <1>2, <1>5 DEF k

\* GPTLstartstop_vals and its variant, called by rank 0
LEMMA AddValsShown ==
  ASSUME TimersKnown, NamesKnown, AddVals(0) PROVE Shown
<1>1. PICK c \in Calls(0, "add") :
        Made(0, c, IF c.f THEN GPTLstartstop_valsf(g[0], c.t, c.name, clock[0], c.dt, c.calls)
                   ELSE GPTLstartstop_vals(g[0], c.t, c.name, clock[0], c.dt, c.calls))
  BY DEF AddVals
<1> DEFINE new == IF c.f THEN GPTLstartstop_valsf(g[0], c.t, c.name, clock[0], c.dt, c.calls)
                  ELSE GPTLstartstop_vals(g[0], c.t, c.name, clock[0], c.dt, c.calls)
           k == Key(g[0], c.t, c.name)
<1>2. c \in CallRecords /\ c.t \in Threads /\ c.name \in Names /\ c.dt \in Nat /\ c.calls \in {0, 1}
      /\ c.op = "add" /\ ~Running(0, c.t, c.name) /\ (~c.f => Len(c.name) <= MAX_CHARS)
  <2>1. c \in Offered(0) /\ c.op = "add" /\ Legal(0, c) /\ 0 \in Ranks
    BY DEF Calls, TimersKnown, Ranks
  <2>2. c \in CallRecords /\ c.t \in Threads /\ c.name \in Names /\ c.dt \in Nat /\ c.calls \in {0, 1}
    BY <2>1, OfferedIs
  <2> QED
    BY <2>1, <2>2 DEF Legal
<1>3. /\ c.f => new = GPTLstartstop_valsf(g[0], c.t, c.name, clock[0], c.dt, c.calls)
      /\ ~c.f => new = GPTLstartstop_vals(g[0], c.t, c.name, clock[0], c.dt, c.calls)
  OBVIOUS
<1>4. Made(0, c, new)
  BY <1>1
<1> HIDE DEF new, k
<1>5. LibOK(g[0], touched[0]) /\ LibNames(g[0]) /\ clock[0] \in Int /\ g'[0] = new
  BY <1>2, <1>4, MadeByZero
<1>6. Adds(g[0], new, c.t, k, c.dt, c.calls)
  <2>1. Reads(g[0])[c.t][Key(g[0], c.t, c.name)].runs = 0
    BY <1>2, <1>5, NotRunning
  <2>2. /\ Adds(g[0], GPTLstartstop_valsf(g[0], c.t, c.name, clock[0], c.dt, c.calls), c.t, k,
                c.dt, c.calls)
        /\ Len(c.name) <= MAX_CHARS =>
             Adds(g[0], GPTLstartstop_vals(g[0], c.t, c.name, clock[0], c.dt, c.calls), c.t, k,
                  c.dt, c.calls)
    BY <1>2, <1>5, <2>1, AddReads DEF k
  <2> QED
    BY <1>2, <1>3, <2>2
<1>7. LibNames(new) /\ new.depthlimit = g[0].depthlimit
  BY <1>6 DEF Adds
<1>8. AnswersOf("add", c.t, k) /\ call'.dt = c.dt /\ call'.calls = c.calls
  BY <1>2, <1>4, <1>7, MadeByZero DEF k
<1>9. k \in Keys
  BY <1>2, <1>5, FullNameKey, ReadOfLib DEF k, Key
<1>10. Watches!Next
  BY <1>2, <1>5, <1>6, <1>8, <1>9, ServeAdd
<1> QED
  BY <1>5, <1>7, <1>10 DEF Shown, NamesKnown

\* The calls that change no stopwatch
LEMMA OtherShown ==
  ASSUME TimersKnown, NamesKnown, NEW c \in CallRecords, NEW new, Made(0, c, new),
         c.op \in {"prefix", "enable", "disable", "pr", "fork", "join"},
         Leaves(g[0], new, Reads(g[0])),
         new.disabled = IF c.op = "disable" THEN TRUE ELSE IF c.op = "enable" THEN FALSE
                        ELSE g[0].disabled
  PROVE  Shown
<1>1. g'[0] = new /\ new.depthlimit = g[0].depthlimit /\ LibNames(new)
  BY MadeByZero DEF Leaves
<1>2. Answers(c.op)
  BY <1>1, MadeByZero
<1>3. Watches!Next
  BY <1>1, <1>2, ServeOther
<1> QED
  BY <1>1, <1>3 DEF Shown, NamesKnown

\* GPTLprefix_set and GPTLprefix_unset, called by rank 0
LEMMA PrefixShown ==
  ASSUME TimersKnown, NamesKnown, Prefix(0) PROVE Shown
<1>1. PICK c \in Calls(0, "prefix") :
        Made(0, c, IF c.prefix = <<>> THEN GPTLprefix_unset(g[0], c.t, c.serial)
                   ELSE GPTLprefix_set(g[0], c.t, c.serial, c.prefix))
  BY DEF Prefix
<1> DEFINE new == IF c.prefix = <<>> THEN GPTLprefix_unset(g[0], c.t, c.serial)
                  ELSE GPTLprefix_set(g[0], c.t, c.serial, c.prefix)
<1>2. c \in CallRecords /\ c.t \in Threads /\ c.prefix \in PrefixNames /\ c.op = "prefix"
  <2>1. c \in Offered(0) /\ c.op = "prefix" /\ 0 \in Ranks
    BY DEF Calls, TimersKnown, Ranks
  <2>2. c \in CallRecords /\ c.t \in Threads
    BY <2>1, OfferedIs
  <2> QED
    BY <2>1, <2>2 DEF CallRecords
<1>3. \/ new = GPTLprefix_set(g[0], c.t, c.serial, c.prefix)
      \/ new = GPTLprefix_unset(g[0], c.t, c.serial)
  OBVIOUS
<1>4. Made(0, c, new)
  BY <1>1
<1> HIDE DEF new
<1>5. LibOK(g[0], touched[0]) /\ LibNames(g[0])
  BY <1>2, <1>4, MadeByZero
<1>6. Leaves(g[0], new, Reads(g[0])) /\ new.disabled = g[0].disabled
  BY <1>2, <1>3, <1>5, PrefixReads
<1> QED
  BY <1>2, <1>4, <1>6, OtherShown

\* GPTLenable and GPTLdisable, called by rank 0
LEMMA SwitchShown ==
  ASSUME TimersKnown, NamesKnown, Switch(0) PROVE Shown
<1>1. PICK c \in Calls(0, "enable") \cup Calls(0, "disable") :
        Made(0, c, IF c.op = "enable" THEN GPTLenable(g[0]) ELSE GPTLdisable(g[0]))
  BY DEF Switch
<1> DEFINE new == IF c.op = "enable" THEN GPTLenable(g[0]) ELSE GPTLdisable(g[0])
<1>2. c \in CallRecords /\ c.op \in {"enable", "disable"}
  <2>1. c \in Offered(0) /\ c.op \in {"enable", "disable"} /\ 0 \in Ranks
    BY DEF Calls, TimersKnown, Ranks
  <2> QED
    BY <2>1, OfferedIs
<1>3. /\ c.op = "enable" => new = GPTLenable(g[0])
      /\ c.op = "disable" => new = GPTLdisable(g[0])
  OBVIOUS
<1>4. Made(0, c, new)
  BY <1>1
<1> HIDE DEF new
<1>5. LibOK(g[0], touched[0]) /\ LibNames(g[0])
  BY <1>2, <1>4, MadeByZero
<1>6. Leaves(g[0], new, Reads(g[0])) /\ new.disabled = (c.op = "disable")
  BY <1>2, <1>3, <1>5, SwitchReads
<1> QED
  BY <1>2, <1>4, <1>6, OtherShown

\* GPTLreset, called by rank 0
LEMMA ResetShown ==
  ASSUME TimersKnown, NamesKnown, Reset(0) PROVE Shown
<1>1. PICK c \in Calls(0, "reset") : Made(0, c, GPTLreset(g[0]))
  BY DEF Reset
<1> DEFINE new == GPTLreset(g[0])
<1>2. c \in CallRecords /\ c.op = "reset"
  <2>1. c \in Offered(0) /\ c.op = "reset" /\ 0 \in Ranks
    BY DEF Calls, TimersKnown, Ranks
  <2> QED
    BY <2>1, OfferedIs
<1>3. LibOK(g[0], touched[0]) /\ LibNames(g[0]) /\ g'[0] = new
  BY <1>1, <1>2, MadeByZero
<1>4. Leaves(g[0], new, AllStill) /\ new.disabled = g[0].disabled
  BY <1>3, ResetReads
<1>5. Made(0, c, new)
  BY <1>1
<1> HIDE DEF new
<1>6. Answers("reset")
  BY <1>2, <1>4, <1>5, MadeByZero DEF Leaves
<1>7. Watches!Next
  BY <1>3, <1>4, <1>6, ServeReset
<1> QED
  BY <1>3, <1>4, <1>7 DEF Shown, NamesKnown, Leaves

\* GPTLpr_file, called by rank 0
LEMMA PrintShown ==
  ASSUME TimersKnown, NamesKnown, PrintTimers(0) PROVE Shown
<1>1. PICK c \in Calls(0, "pr") : Made(0, c, GPTLpr_file(g[0], Method))
  BY DEF PrintTimers
<1> DEFINE new == GPTLpr_file(g[0], Method)
<1>2. c \in CallRecords /\ c.op = "pr" /\ Method \in Methods
  <2>1. c \in Offered(0) /\ c.op = "pr" /\ 0 \in Ranks
    BY DEF Calls, TimersKnown, Ranks
  <2> QED
    BY <2>1, OfferedIs, SummaryAssumption DEF Methods
<1>3. LibOK(g[0], touched[0]) /\ LibNames(g[0])
  BY <1>1, <1>2, MadeByZero
<1>4. Leaves(g[0], new, Reads(g[0])) /\ new.disabled = g[0].disabled
  BY <1>2, <1>3, PrintReads
<1>5. Made(0, c, new)
  BY <1>1
<1> HIDE DEF new
<1> QED
  BY <1>2, <1>4, <1>5, OtherShown

\* A parallel region of rank 0 begins or ends.
LEMMA RegionShown ==
  ASSUME TimersKnown, NamesKnown, Region(0) PROVE Shown
<1>1. PICK c \in Calls(0, "fork") \cup Calls(0, "join") : Made(0, c, g[0])
  BY DEF Region
<1>2. c \in CallRecords /\ c.op \in {"fork", "join"}
  <2>1. c \in Offered(0) /\ c.op \in {"fork", "join"} /\ 0 \in Ranks
    BY DEF Calls, TimersKnown, Ranks
  <2> QED
    BY <2>1, OfferedIs
<1>3. Leaves(g[0], g[0], Reads(g[0]))
  BY DEF Leaves, NamesKnown
<1> QED
  BY <1>1, <1>2, <1>3, OtherShown

\* What the stopwatches are made of stays.
LEMMA ShowsTheSame ==
  ASSUME NamesKnown, g'[0] = g[0], clock'[0] = clock[0], call' = call
  PROVE  NamesKnown' /\ UNCHANGED Watches!vars
<1>1. Readings' = Readings /\ Open' = Open
  BY ReadingsAre, ReadingsNext
<1> QED
  BY <1>1 DEF NamesKnown, Watches!vars

\* The calls of the other ranks
LEMMA OtherRank ==
  ASSUME TimersKnown, NamesKnown, NEW r \in Ranks, r # 0, NEW c, NEW new, Made(r, c, new)
  PROVE  NamesKnown' /\ UNCHANGED Watches!vars
<1>1. /\ g' = [g EXCEPT ![r] = new] /\ clock' = [clock EXCEPT ![r] = @ + 1] /\ call' = call
  BY DEF Made
<1>2. 0 \in Ranks /\ g \in [Ranks -> Lib] /\ clock \in [Ranks -> Nat]
  BY DEF TimersKnown, Ranks
<1>3. g'[0] = g[0] /\ clock'[0] = clock[0]
  BY <1>1, <1>2
<1> QED
  BY <1>1, <1>3, ShowsTheSame

\* Every step of the job is a step of the stopwatches of rank 0 or leaves them alone.
LEMMA StepShown ==
  TimersKnown /\ NamesKnown /\ [Next]_vars => NamesKnown' /\ [Watches!Next]_Watches!vars
<1> SUFFICES ASSUME TimersKnown, NamesKnown, [Next]_vars
             PROVE  NamesKnown' /\ [Watches!Next]_Watches!vars
  OBVIOUS
<1>1. ASSUME TimerCall(0) PROVE Shown
  BY <1>1, StartTimerShown, StopTimerShown, AddValsShown, PrefixShown, SwitchShown, ResetShown,
     PrintShown, RegionShown DEF TimerCall
<1>2. ASSUME NEW r \in Ranks, r # 0, TimerCall(r) PROVE NamesKnown' /\ UNCHANGED Watches!vars
  <2>1. PICK c, new : Made(r, c, new)
    BY <1>2 DEF TimerCall, StartTimer, StopTimer, AddVals, Prefix, Switch, Reset, PrintTimers, Region
  <2> QED
    BY <1>2, <2>1, OtherRank
<1>3. ASSUME NEW r \in Ranks, Collect(r) PROVE NamesKnown' /\ UNCHANGED Watches!vars
  <2>1. UNCHANGED <<g, clock, call>>
    BY <1>3 DEF Collect, BeginSummary, AskCount, TakeCount, MergeSlave, Attend, SendCount,
                AwaitSignal, SendNames, SendStats, Finish, timerVars
  <2> QED
    BY <2>1, ShowsTheSame
<1>4. ASSUME NEW r \in Ranks, SendReturns(r) PROVE NamesKnown' /\ UNCHANGED Watches!vars
  BY <1>4, ShowsTheSame DEF SendReturns, timerVars
<1>5. ASSUME Deliver \/ Done \/ UNCHANGED vars PROVE NamesKnown' /\ UNCHANGED Watches!vars
  BY <1>5, ShowsTheSame DEF Deliver, Done, vars, timerVars
<1> QED
  BY <1>1, <1>2, <1>3, <1>4, <1>5 DEF Next, Shown

\* The library of rank 0 implements the stopwatches: whatever names, threads
\* and calls there are, the hash table, the handles and the prefixes find the
\* timer of the full name and no other, and what is timed is what lies between
\* the outermost start and its stop.
THEOREM TimersKeepTime == Spec => KeepsTime
<1>1. TimersKnown /\ NamesKnown /\ [Next]_vars => NamesKnown' /\ [Watches!Next]_Watches!vars
  BY StepShown
<1>2. Init => NamesKnown /\ Watches!Init
  BY InitWatches
<1>3. Spec => []TimersKnown
  BY TimersStayKnown
<1>4. Init /\ []TimersKnown /\ [][Next]_vars => []NamesKnown
  BY <1>1, <1>2, PTL
<1> QED
  BY <1>1, <1>2, <1>3, <1>4, PTL DEF Spec, KeepsTime, Watches!Spec
=============================================================================
