-------------------------- MODULE SerialMpi_proofs --------------------------
(***************************************************************************)
(* The handles of mpi-serial, proved for every size of the table, every    *)
(* number of communicators, datatypes and requests, and every program that *)
(* names its own variables: HandlesOwned, from the inductive invariant     *)
(* IInv.  Its part Ledger relates the table, the variables of the program  *)
(* and the lists of the communicators; every call is shown to keep it.     *)
(***************************************************************************)
EXTENDS SerialMpi, FiniteSetTheorems, SequenceTheorems, WellFoundedInduction, TLAPS

(***************************************************************************)
(* Numbers.                                                                *)
(***************************************************************************)
\* A set of natural numbers has a least element.
LEMMA LeastNatural ==
  ASSUME NEW T, T \subseteq Nat, T # {}
  PROVE  \E x \in T : \A y \in T : x <= y
<1> DEFINE R == OpToRel(<, Nat)
<1>1. IsWellFoundedOn(R, Nat)
  BY NatLessThanWellFounded
<1>2. \A x, y \in Nat : <<x, y>> \in R <=> x < y
  BY DEF OpToRel
<1> HIDE DEF R
<1>3. PICK x \in T : \A y \in T : ~ (<<y, x>> \in R)
  BY <1>1, WFMin
<1>4. \A y \in T : ~ (y < x)
  BY <1>2, <1>3
<1> QED
  BY <1>3, <1>4

\* A set that holds 0 and the successor of each of its members holds them all.
LEMMA InductionOnNat ==
  ASSUME NEW S, 0 \in S, \A n \in Nat : n \in S => n + 1 \in S
  PROVE  \A n \in Nat : n \in S
<1> SUFFICES ASSUME Nat \ S # {} PROVE FALSE
  OBVIOUS
<1>1. PICK x \in Nat \ S : \A y \in Nat \ S : x <= y
  BY LeastNatural
<1>2. x - 1 \in Nat /\ x - 1 \in S
  BY <1>1
<1> QED
  BY <1>1, <1>2

\* Min picks the least.
LEMMA MinIsIn ==
  ASSUME NEW T, T \subseteq Nat, T # {}
  PROVE  Min(T) \in T /\ \A x \in T : Min(T) <= x
<1>1. \E x \in T : \A y \in T : x <= y
  BY LeastNatural
<1> QED
  BY <1>1 DEF Min

(***************************************************************************)
(* Lists of handles.                                                       *)
(***************************************************************************)
Handle == Nat \ {0}

\* What Append does to a list without repetitions.
LEMMA AppendedList ==
  ASSUME NEW list \in Seq(Handle), IsInjective(list), NEW n \in Handle, n \notin ToSet(list)
  PROVE  /\ AP_list_append(list, n) \in Seq(Handle) /\ IsInjective(AP_list_append(list, n))
         /\ ToSet(AP_list_append(list, n)) = ToSet(list) \cup {n}
<1> DEFINE new == Append(list, n)
<1>1. /\ new \in Seq(Handle) /\ DOMAIN new = 1 .. Len(list) + 1 /\ DOMAIN list = 1 .. Len(list)
      /\ Len(list) \in Nat
  OBVIOUS
<1>2. \A i \in 1 .. Len(list) : new[i] = list[i] /\ list[i] \in ToSet(list)
  BY DEF ToSet
<1>3. new[Len(list) + 1] = n
  OBVIOUS
<1>4. \A i \in DOMAIN new : i \in 1 .. Len(list) \/ i = Len(list) + 1
  BY <1>1
<1> HIDE DEF new
<1>5. IsInjective(new)
  BY <1>1, <1>2, <1>3, <1>4 DEF IsInjective
<1>6. ToSet(new) = ToSet(list) \cup {n}
  BY <1>1, <1>2, <1>3, <1>4 DEF ToSet
<1> QED
  BY <1>1, <1>5, <1>6 DEF AP_list_append, new

\* What taking an item out does to a list without repetitions.
LEMMA ShortenedList ==
  ASSUME NEW list \in Seq(Handle), IsInjective(list), NEW k \in 1 .. Len(list)
  PROVE  /\ AP_list_delete_item(list, k) \in Seq(Handle)
         /\ IsInjective(AP_list_delete_item(list, k))
         /\ ToSet(AP_list_delete_item(list, k)) = ToSet(list) \ {list[k]}
<1> DEFINE new == RemoveAt(list, k)
           N == Len(list)
<1> DEFINE a == SubSeq(list, 1, k - 1)
           b == SubSeq(list, k + 1, N)
<1>0. N \in Nat /\ k \in Nat /\ k >= 1 /\ k <= N /\ DOMAIN list = 1 .. N
  OBVIOUS
<1>0a. a \in Seq(Handle) /\ Len(a) = k - 1 /\ \A i \in 1 .. k - 1 : a[i] = list[i]
  BY <1>0
<1>0b. b \in Seq(Handle) /\ Len(b) = N - k /\ \A i \in 1 .. N - k : b[i] = list[k + i]
  <2>1. \A i \in k + 1 .. N : list[i] \in Handle
    BY <1>0
  <2>2. /\ b \in Seq(Handle) /\ Len(b) = IF k + 1 <= N THEN N - (k + 1) + 1 ELSE 0
        /\ \A i \in 1 .. N - (k + 1) + 1 : b[i] = list[k + 1 + i - 1]
    <3>1. k + 1 \in Int /\ N \in Int
      BY <1>0
    <3> HIDE DEF N
    <3>2. /\ SubSeq(list, k + 1, N) \in Seq(Handle)
          /\ Len(SubSeq(list, k + 1, N)) = IF k + 1 <= N THEN N - (k + 1) + 1 ELSE 0
          /\ \A i \in 1 .. N - (k + 1) + 1 : SubSeq(list, k + 1, N)[i] = list[k + 1 + i - 1]
      BY <2>1, <3>1, SubSeqProperties
    <3> QED
      BY <3>2
  <2> HIDE DEF b, N
  <2>3. N - (k + 1) + 1 = N - k /\ \A i \in 1 .. N - k : k + 1 + i - 1 = k + i
    BY <1>0
  <2> QED
    BY <1>0, <2>2, <2>3
<1>0c. new = a \o b
  BY DEF RemoveAt
<1> HIDE DEF a, b, new
<1>0d. new \in Seq(Handle) /\ Len(new) = N - 1
  <2> HIDE DEF N
  <2>1. new \in Seq(Handle) /\ Len(new) = Len(a) + Len(b)
    BY <1>0a, <1>0b, <1>0c, ConcatProperties, Zenon
  <2> QED
    BY <1>0, <1>0a, <1>0b, <2>1
<1>1. /\ new \in Seq(Handle) /\ DOMAIN new = 1 .. N - 1 /\ DOMAIN list = 1 .. N
      /\ N \in Nat /\ k \in Nat
  BY <1>0, <1>0d
<1>2. \A i \in 1 .. N - 1 : new[i] = IF i < k THEN list[i] ELSE list[i + 1]
  <2> SUFFICES ASSUME NEW i \in 1 .. N - 1 PROVE new[i] = IF i < k THEN list[i] ELSE list[i + 1]
    OBVIOUS
  <2>1. CASE i < k
    BY <1>0, <1>0a, <1>0b, <1>0c, <2>1
  <2>2. CASE ~ (i < k)
    <3>1. new[i] = b[i - (k - 1)]
      BY <1>0, <1>0a, <1>0b, <1>0c, <2>2
    <3>2. i - (k - 1) \in 1 .. N - k /\ k + (i - (k - 1)) = i + 1
      BY <1>0, <2>2
    <3> QED
      BY <1>0b, <2>2, <3>1, <3>2
  <2> QED
    BY <2>1, <2>2
<1> HIDE DEF new
<1>3. IsInjective(new)
  <2>1. ASSUME NEW i \in 1 .. N - 1, NEW j \in 1 .. N - 1, new[i] = new[j] PROVE i = j
    <3>1. /\ new[i] = IF i < k THEN list[i] ELSE list[i + 1]
          /\ new[j] = IF j < k THEN list[j] ELSE list[j + 1]
      BY <1>2
    <3>2. i \in 1 .. N /\ i + 1 \in 1 .. N /\ j \in 1 .. N /\ j + 1 \in 1 .. N
      BY <1>1
    <3>3. \A x, y \in 1 .. N : list[x] = list[y] => x = y
      BY <1>1 DEF IsInjective
    <3>4. CASE i < k /\ j < k
      BY <2>1, <3>1, <3>2, <3>3, <3>4
    <3>5. CASE i < k /\ ~ (j < k)
      <4>1. i = j + 1
        BY <2>1, <3>1, <3>2, <3>3, <3>5
      <4> QED
        BY <3>5, <4>1, <1>0
    <3>6. CASE ~ (i < k) /\ j < k
      <4>1. i + 1 = j
        BY <2>1, <3>1, <3>2, <3>3, <3>6
      <4> QED
        BY <3>6, <4>1, <1>0
    <3>7. CASE ~ (i < k) /\ ~ (j < k)
      <4>1. i + 1 = j + 1
        BY <2>1, <3>1, <3>2, <3>3, <3>7
      <4> QED
        BY <4>1
    <3> QED
      BY <3>4, <3>5, <3>6, <3>7
  <2> HIDE DEF N
  <2> QED
    BY <1>1, <2>1 DEF IsInjective
<1>4. ToSet(new) \subseteq ToSet(list) \ {list[k]}
  <2> SUFFICES ASSUME NEW i \in 1 .. N - 1 PROVE new[i] \in ToSet(list) /\ new[i] # list[k]
    BY <1>1 DEF ToSet
  <2> QED
    BY <1>1, <1>2 DEF IsInjective, ToSet
<1>5. ToSet(list) \ {list[k]} \subseteq ToSet(new)
  <2> SUFFICES ASSUME NEW j \in 1 .. N, list[j] # list[k] PROVE list[j] \in ToSet(new)
    BY <1>1 DEF ToSet
  <2>1. CASE j < k
    <3>1. j \in 1 .. N - 1 /\ new[j] = list[j]
      BY <1>1, <1>2, <2>1
    <3> QED
      BY <1>1, <3>1 DEF ToSet
  <2>2. CASE j > k
    <3>1. j - 1 \in 1 .. N - 1 /\ new[j - 1] = list[j]
      BY <1>1, <1>2, <2>2
    <3> QED
      BY <1>1, <3>1 DEF ToSet
  <2> QED
    BY <1>1, <2>1, <2>2
<1> QED
  BY <1>1, <1>3, <1>4, <1>5 DEF AP_list_delete_item, new

\* What the search finds.
LEMMA SearchIs ==
  ASSUME NEW list \in Seq(Handle), NEW accepted
  PROVE  LET k == AP_list_search_func(list, accepted)
         IN  IF k = 0 THEN ToSet(list) \cap accepted = {}
             ELSE k \in 1 .. Len(list) /\ list[k] \in accepted
<1> DEFINE I == {i \in 1 .. Len(list) : list[i] \in accepted}
           k == AP_list_search_func(list, accepted)
<1>1. k = IF I # {} THEN Min(I) ELSE 0
  BY DEF AP_list_search_func, SelectInSeq
<1>2. I # {} => Min(I) \in I
  BY MinIsIn
<1> HIDE DEF k
<1>3. CASE I = {}
  <2>1. k = 0
    BY <1>1, <1>3
  <2>2. ToSet(list) \cap accepted = {}
    BY <1>3 DEF ToSet
  <2> QED
    BY <2>1, <2>2 DEF k
<1>4. CASE I # {}
  <2>1. k \in I
    BY <1>1, <1>2, <1>4
  <2>2. k \in 1 .. Len(list) /\ list[k] \in accepted /\ k # 0
    BY <2>1
  <2> QED
    BY <2>2 DEF k
<1> QED
  BY <1>3, <1>4

(***************************************************************************)
(* The table of handles.                                                   *)
(***************************************************************************)
\* Every handle but 0 is either free, once, or in use.
Table(l) ==
  /\ DOMAIN l = {"nblocks", "free", "data"} /\ l.nblocks \in Nat \ {0}
  /\ l.free \in Seq(Handle) /\ IsInjective(l.free)
  /\ DOMAIN l.data \subseteq Handle
  /\ ToSet(l.free) \cap DOMAIN l.data = {}
  /\ ToSet(l.free) \cup DOMAIN l.data = 1 .. l.nblocks * BLOCK_ITEMS - 1

\* What is left of a list without repetitions, of which the head is taken.
LEMMA TailOfList ==
  ASSUME NEW list \in Seq(Handle), IsInjective(list), list # <<>>
  PROVE  /\ Head(list) \in ToSet(list) /\ Tail(list) \in Seq(Handle) /\ IsInjective(Tail(list))
         /\ ToSet(Tail(list)) = ToSet(list) \ {Head(list)}
<1> DEFINE N == Len(list)
           t == Tail(list)
<1>1. N \in Nat /\ N >= 1 /\ DOMAIN list = 1 .. N /\ Head(list) = list[1]
  OBVIOUS
<1>2. t \in Seq(Handle) /\ Len(t) = N - 1 /\ \A i \in 1 .. Len(t) : t[i] = list[i + 1]
  BY HeadTailProperties
<1>3. DOMAIN t = 1 .. N - 1 /\ \A i \in 1 .. N - 1 : t[i] = list[i + 1]
  BY <1>2
<1> HIDE DEF t, N
<1>4. IsInjective(t)
  <2>1. ASSUME NEW i \in 1 .. N - 1, NEW j \in 1 .. N - 1, t[i] = t[j] PROVE i = j
    <3>1. list[i + 1] = list[j + 1] /\ i + 1 \in 1 .. N /\ j + 1 \in 1 .. N
      BY <1>1, <1>3, <2>1
    <3>2. i + 1 = j + 1
      BY <1>1, <3>1 DEF IsInjective
    <3> QED
      BY <3>2
  <2> QED
    BY <1>3, <2>1 DEF IsInjective
<1>5. ToSet(t) \subseteq ToSet(list) \ {list[1]}
  <2> SUFFICES ASSUME NEW i \in 1 .. N - 1 PROVE t[i] \in ToSet(list) /\ t[i] # list[1]
    BY <1>3 DEF ToSet
  <2>1. i + 1 \in 1 .. N /\ 1 \in 1 .. N /\ i + 1 # 1
    BY <1>1
  <2> QED
    BY <1>1, <1>3, <2>1 DEF IsInjective, ToSet
<1>6. ToSet(list) \ {list[1]} \subseteq ToSet(t)
  <2> SUFFICES ASSUME NEW j \in 1 .. N, j # 1 PROVE list[j] \in ToSet(t)
    BY <1>1 DEF ToSet
  <2>1. j - 1 \in 1 .. N - 1 /\ j - 1 + 1 = j
    BY <1>1
  <2> QED
    BY <1>3, <2>1 DEF ToSet
<1> QED
  BY <1>1, <1>2, <1>4, <1>5, <1>6 DEF t, ToSet

\* The handles of a block
LEMMA BlockIs ==
  ASSUME NEW n \in Nat \ {0}
  PROVE  /\ init_block(n) \in Seq(Handle) /\ IsInjective(init_block(n)) /\ init_block(n) # <<>>
         /\ Head(init_block(n)) = HANDLE(n, 0) /\ HANDLE(n, 0) \in Handle
         /\ ToSet(init_block(n)) = n * BLOCK_ITEMS .. (n + 1) * BLOCK_ITEMS - 1
<1> DEFINE B == BLOCK_ITEMS
           m == n * BLOCK_ITEMS
           b == init_block(n)
<1>1. B \in Nat /\ B >= 1 /\ m \in Nat /\ m >= 1
  <2>1. B \in Nat /\ B >= 1
    BY SerialAssumption
  <2> QED
    BY <2>1
<1>2. (n + 1) * BLOCK_ITEMS = m + B
  BY <1>1
<1>3. b = [i \in 1 .. B |-> m + (i - 1)] /\ HANDLE(n, 0) = m
  BY <1>1 DEF init_block, HANDLE
<1> HIDE DEF B, m, b
<1>4. \A i \in 1 .. B : m + (i - 1) \in Handle
  BY <1>1 DEF Handle
<1>5. b \in Seq(Handle) /\ Len(b) = B
  BY <1>1, <1>3, <1>4
<1>6. DOMAIN b = 1 .. B /\ \A i \in 1 .. B : b[i] = m + (i - 1)
  BY <1>3
<1>7. IsInjective(b)
  BY <1>1, <1>6 DEF IsInjective
<1>8. Head(b) = m /\ b # <<>>
  BY <1>1, <1>5, <1>6
<1>9. ToSet(b) = m .. m + B - 1
  <2>1. ASSUME NEW x \in m .. m + B - 1 PROVE \E i \in 1 .. B : b[i] = x
    <3>1. x - m + 1 \in 1 .. B /\ m + (x - m + 1 - 1) = x
      BY <1>1
    <3> DEFINE i == x - m + 1
    <3>2. b[i] = m + (i - 1)
      BY <1>6, <3>1
    <3>3. b[i] = x
      BY <1>1, <3>1, <3>2
    <3> HIDE DEF i
    <3> QED
      BY <3>1, <3>3 DEF i
  <2>2. \A i \in 1 .. B : b[i] \in m .. m + B - 1
    BY <1>1, <1>6
  <2> QED
    BY <1>6, <2>1, <2>2 DEF ToSet
<1> QED
  BY <1>1, <1>2, <1>3, <1>5, <1>7, <1>8, <1>9 DEF b, m, B, Handle

\* mpi_alloc_handle gives out a handle that was not in use, and keeps the
\* others as they are.
LEMMA AllocIs ==
  ASSUME NEW l, Table(l), NEW x
  PROVE  /\ NewHandle(l) \in Handle /\ NewHandle(l) \notin DOMAIN l.data
         /\ Table(mpi_alloc_handle(l, x))
         /\ DOMAIN mpi_alloc_handle(l, x).data = DOMAIN l.data \cup {NewHandle(l)}
         /\ mpi_alloc_handle(l, x).data[NewHandle(l)] = x
         /\ \A h \in DOMAIN l.data : mpi_alloc_handle(l, x).data[h] = l.data[h]
<1> DEFINE n == NewHandle(l)
           L == mpi_alloc_handle(l, x)
           D == DOMAIN l.data
<1>1. /\ L.data = [h \in D \cup {n} |-> IF h = n THEN x ELSE l.data[h]]
      /\ DOMAIN L = {"nblocks", "free", "data"}
  BY DEF mpi_alloc_handle
<1>2. CASE l.free # <<>>
  <2>1. n = Head(l.free) /\ L.free = Tail(l.free) /\ L.nblocks = l.nblocks
    BY <1>2 DEF mpi_alloc_handle, NewHandle
  <2>2. /\ Head(l.free) \in ToSet(l.free) /\ Tail(l.free) \in Seq(Handle)
        /\ IsInjective(Tail(l.free)) /\ ToSet(Tail(l.free)) = ToSet(l.free) \ {Head(l.free)}
    BY <1>2, TailOfList DEF Table
  <2>3. ToSet(l.free) \subseteq Handle
    BY DEF Table, ToSet
  <2> HIDE DEF n, L, D
  <2>4. n \in Handle /\ n \notin D
    BY <2>1, <2>2, <2>3 DEF Table, D
  <2>5. DOMAIN L.data = D \cup {n} /\ L.data[n] = x /\ \A h \in D : L.data[h] = l.data[h]
    BY <1>1, <2>4
  <2>6. Table(L)
    BY <1>1, <2>1, <2>2, <2>4, <2>5 DEF Table, D
  <2> QED
    BY <2>4, <2>5, <2>6 DEF n, L, D
<1>3. CASE l.free = <<>>
  <2> DEFINE b == init_block(l.nblocks)
             m == l.nblocks * BLOCK_ITEMS
             k == (l.nblocks + 1) * BLOCK_ITEMS
  <2>1. n = HANDLE(l.nblocks, 0) /\ L.free = Tail(b) /\ L.nblocks = l.nblocks + 1
    BY <1>3 DEF mpi_alloc_handle, NewHandle
  <2>2. /\ b \in Seq(Handle) /\ IsInjective(b) /\ b # <<>>
        /\ Head(b) = HANDLE(l.nblocks, 0) /\ HANDLE(l.nblocks, 0) \in Handle
        /\ ToSet(b) = m .. k - 1
    BY BlockIs DEF Table
  <2>2a. m \in Nat /\ k \in Nat /\ m < k /\ HANDLE(l.nblocks, 0) = m /\ m >= 1
    <3>1. BLOCK_ITEMS \in Nat /\ BLOCK_ITEMS >= 1 /\ l.nblocks \in Nat
      BY SerialAssumption DEF Table
    <3>2. k = m + BLOCK_ITEMS /\ m \in Nat
      BY <3>1
    <3>3. HANDLE(l.nblocks, 0) = m
      BY <3>2 DEF HANDLE
    <3>4. m >= 1
      BY <2>2, <3>3, <3>2 DEF Handle
    <3> QED
      BY <3>1, <3>2, <3>3, <3>4
  <2> HIDE DEF b, m, k
  <2>3. Tail(b) \in Seq(Handle) /\ IsInjective(Tail(b)) /\ ToSet(Tail(b)) = ToSet(b) \ {Head(b)}
    BY <2>2, TailOfList
  <2> HIDE DEF n, L, D
  <2>4. D = 1 .. m - 1
    <3>1. ToSet(l.free) = {}
      BY <1>3 DEF ToSet
    <3>2. ToSet(l.free) \cup D = 1 .. m - 1
      BY DEF Table, D, m
    <3> QED
      BY <3>1, <3>2
  <2>5. n = m /\ n \in Handle /\ n \notin D
    BY <2>1, <2>2, <2>2a, <2>4
  <2>6. DOMAIN L.data = D \cup {n} /\ L.data[n] = x /\ \A h \in D : L.data[h] = l.data[h]
    BY <1>1, <2>5
  <2>7. ToSet(L.free) = m + 1 .. k - 1
    <3>1. ToSet(L.free) = (m .. k - 1) \ {m}
      BY <2>1, <2>2, <2>2a, <2>3
    <3>2. \A y \in Int : y >= m /\ y # m <=> y >= m + 1
      BY <2>2a
    <3> QED
      BY <2>2a, <3>1, <3>2
  <2>8. ToSet(L.free) \cap DOMAIN L.data = {} /\ ToSet(L.free) \cup DOMAIN L.data = 1 .. k - 1
    BY <2>2a, <2>4, <2>5, <2>6, <2>7
  <2>9. L.nblocks \in Nat \ {0} /\ k = L.nblocks * BLOCK_ITEMS
    BY <2>1 DEF Table, k
  <2>10. Table(L)
    BY <1>1, <2>1, <2>3, <2>4, <2>5, <2>6, <2>8, <2>9 DEF Table, Handle
  <2> QED
    BY <2>5, <2>6, <2>10 DEF n, L, D
<1> QED
  BY <1>2, <1>3

\* mpi_free_handle takes back the handle, and keeps the others as they are.
LEMMA FreeIs ==
  ASSUME NEW l, Table(l), NEW h \in DOMAIN l.data
  PROVE  /\ Table(mpi_free_handle(l, h))
         /\ DOMAIN mpi_free_handle(l, h).data = DOMAIN l.data \ {h}
         /\ \A k \in DOMAIN l.data \ {h} : mpi_free_handle(l, h).data[k] = l.data[k]
         /\ mpi_free_handle(l, h).nblocks = l.nblocks
<1> DEFINE L == mpi_free_handle(l, h)
           D == DOMAIN l.data
           f == <<h>> \o l.free
           N == Len(l.free)
<1>0. h \in Handle /\ h # 0 /\ h \notin ToSet(l.free)
  BY DEF Table, Handle
<1>1. /\ L.free = f /\ L.data = [k \in D \ {h} |-> l.data[k]] /\ L.nblocks = l.nblocks
      /\ DOMAIN L = {"nblocks", "free", "data"}
  BY <1>0 DEF mpi_free_handle, Table
<1>2. N \in Nat /\ DOMAIN l.free = 1 .. N /\ l.free \in Seq(Handle)
  BY DEF Table
<1>3. f \in Seq(Handle) /\ Len(f) = N + 1 /\ f[1] = h /\ \A i \in 2 .. N + 1 : f[i] = l.free[i - 1]
  <2> HIDE DEF D, L
  <2>1. <<h>> \in Seq(Handle) /\ Len(<<h>>) = 1 /\ <<h>>[1] = h
    BY <1>0
  <2>2. /\ f \in Seq(Handle) /\ Len(f) = Len(<<h>>) + Len(l.free)
        /\ \A i \in 1 .. Len(<<h>>) + Len(l.free) :
             f[i] = IF i <= Len(<<h>>) THEN <<h>>[i] ELSE l.free[i - Len(<<h>>)]
    BY <1>2, <2>1, ConcatProperties
  <2> HIDE DEF f, N
  <2> QED
    BY <1>2, <2>1, <2>2 DEF N
<1>4. DOMAIN f = 1 .. N + 1
  BY <1>2, <1>3
<1> HIDE DEF f, L, D, N
<1>5. IsInjective(f)
  <2>1. ASSUME NEW i \in 1 .. N + 1, NEW j \in 1 .. N + 1, f[i] = f[j] PROVE i = j
    <3>0. \A q \in 2 .. N + 1 : q - 1 \in 1 .. N /\ f[q] = l.free[q - 1] /\ f[q] # h
      <4> SUFFICES ASSUME NEW q \in 2 .. N + 1
                   PROVE q - 1 \in 1 .. N /\ f[q] = l.free[q - 1] /\ f[q] # h
        OBVIOUS
      <4>1. q - 1 \in 1 .. N
        BY <1>2
      <4> QED
        BY <1>0, <1>2, <1>3, <4>1 DEF ToSet
    <3>1. CASE i = 1 \/ j = 1
      BY <1>2, <1>3, <2>1, <3>0, <3>1
    <3>2. CASE i # 1 /\ j # 1
      <4>1. i \in 2 .. N + 1 /\ j \in 2 .. N + 1
        BY <1>2, <3>2
      <4>2. i - 1 = j - 1
        BY <1>2, <2>1, <3>0, <4>1 DEF Table, IsInjective
      <4> QED
        BY <4>2
    <3> QED
      BY <3>1, <3>2
  <2> QED
    BY <1>4, <2>1 DEF IsInjective
<1>6. ToSet(f) = {h} \cup ToSet(l.free)
  <2>1. ASSUME NEW i \in 1 .. N + 1 PROVE f[i] \in {h} \cup ToSet(l.free)
    <3>1. CASE i = 1
      BY <1>3, <3>1
    <3>2. CASE i # 1
      <4>1. i \in 2 .. N + 1 /\ i - 1 \in 1 .. N
        BY <1>2, <3>2
      <4> QED
        BY <1>2, <1>3, <4>1 DEF ToSet
    <3> QED
      BY <3>1, <3>2
  <2>2. ASSUME NEW j \in 1 .. N PROVE l.free[j] \in ToSet(f)
    <3>1. j + 1 \in 2 .. N + 1 /\ j + 1 \in 1 .. N + 1 /\ j + 1 - 1 = j
      BY <1>2
    <3> QED
      BY <1>3, <1>4, <3>1 DEF ToSet
  <2>3. h \in ToSet(f)
    <3>1. 1 \in 1 .. N + 1
      BY <1>2
    <3> QED
      BY <1>3, <1>4, <3>1 DEF ToSet
  <2> QED
    BY <1>2, <1>4, <2>1, <2>2, <2>3 DEF ToSet
<1>7. DOMAIN L.data = D \ {h} /\ \A k \in D \ {h} : L.data[k] = l.data[k]
  BY <1>1
<1>8. Table(L)
  BY <1>0, <1>1, <1>3, <1>5, <1>6, <1>7 DEF Table, D
<1> QED
  BY <1>1, <1>7, <1>8 DEF L, D

\* The table as the library starts with it
LEMMA TableFirst ==
  Table(init_handles) /\ DOMAIN init_handles.data = {}
<1> DEFINE B == BLOCK_ITEMS
           b == init_block(0)
           t == Tail(b)
<1>1. B \in Nat /\ B > 1
  BY SerialAssumption
<1>2. b = [i \in 1 .. B |-> i - 1]
  <2>1. 0 * BLOCK_ITEMS = 0
    BY <1>1
  <2>2. \A i \in 1 .. B : HANDLE(0, i - 1) = i - 1
    BY <1>1, <2>1 DEF HANDLE
  <2> QED
    BY <2>2 DEF init_block
<1> HIDE DEF B, b
<1>3. b \in Seq(Nat) /\ Len(b) = B /\ b # <<>>
  BY <1>1, <1>2
<1>4. t \in Seq(Nat) /\ Len(t) = B - 1 /\ \A i \in 1 .. Len(t) : t[i] = b[i + 1]
  BY <1>3, HeadTailProperties
<1>5. DOMAIN t = 1 .. B - 1 /\ \A i \in 1 .. B - 1 : t[i] = i
  BY <1>1, <1>2, <1>4
<1> HIDE DEF t
<1>6. t \in Seq(Handle)
  BY <1>1, <1>4, <1>5 DEF Handle
<1>7. IsInjective(t) /\ ToSet(t) = 1 .. B - 1
  BY <1>5 DEF IsInjective, ToSet
<1>8. init_handles = [nblocks |-> 1, free |-> t, data |-> <<>>] /\ 1 * BLOCK_ITEMS = B
  BY <1>1 DEF init_handles, t, b, B
<1>9. DOMAIN init_handles.data = {}
  BY <1>8
<1> QED
  BY <1>6, <1>7, <1>8, <1>9 DEF Table

(***************************************************************************)
(* Who holds the handles.                                                  *)
(***************************************************************************)
Variables(cm, rq, ty) ==
  cm \in [CommVars -> Nat] /\ rq \in [Slots -> Nat] /\ ty \in [TypeVars -> Nat]

\* No two variables of the program hold one handle.
Distinct(cm, rq, ty) ==
  /\ \A c, d \in CommVars : cm[c] # 0 /\ cm[c] = cm[d] => c = d
  /\ \A s, u \in Slots : rq[s] # 0 /\ rq[s] = rq[u] => s = u
  /\ \A v, w \in TypeVars : ty[v] # 0 /\ ty[v] = ty[w] => v = w
  /\ \A c \in CommVars, s \in Slots : cm[c] # 0 => cm[c] # rq[s]
  /\ \A c \in CommVars, v \in TypeVars : cm[c] # 0 => cm[c] # ty[v]
  /\ \A s \in Slots, v \in TypeVars : rq[s] # 0 => rq[s] # ty[v]

Holding(cm, rq, ty) ==
  ({cm[c] : c \in CommVars} \cup {rq[s] : s \in Slots} \cup {ty[v] : v \in TypeVars}) \ {0}

Owners(cm, rq, ty) == Variables(cm, rq, ty) /\ Distinct(cm, rq, ty)

\* A variable for a communicator takes a handle that no variable holds.
LEMMA CommTaken ==
  ASSUME NEW cm, NEW rq, NEW ty, Owners(cm, rq, ty), NEW c \in CommVars, cm[c] = 0,
         NEW n \in Handle, n \notin Holding(cm, rq, ty),
         NEW after \in [CommVars -> Nat], after[c] = n,
         \A x \in CommVars \ {c} : after[x] = cm[x]
  PROVE  /\ Owners(after, rq, ty)
         /\ Holding(after, rq, ty) = Holding(cm, rq, ty) \cup {n}
<1>1. n \in Nat /\ n # 0
  BY DEF Handle
<1>2. after \in [CommVars -> Nat] /\ after[c] = n /\ \A d \in CommVars \ {c} : after[d] = cm[d]
  OBVIOUS
<1>3. /\ \A d \in CommVars : cm[d] # n
      /\ \A s \in Slots : rq[s] # n
      /\ \A v \in TypeVars : ty[v] # n
  BY <1>1 DEF Holding
<1>4. Distinct(after, rq, ty)
  BY <1>1, <1>2, <1>3 DEF Owners, Distinct
<1>5. Holding(after, rq, ty) = Holding(cm, rq, ty) \cup {n}
  BY <1>1, <1>2 DEF Holding
<1> QED
  BY <1>2, <1>4, <1>5 DEF Owners, Variables

\* It gives its handle up.
LEMMA CommLeft ==
  ASSUME NEW cm, NEW rq, NEW ty, Owners(cm, rq, ty), NEW c \in CommVars, cm[c] # 0,
         NEW after \in [CommVars -> Nat], after[c] = 0,
         \A x \in CommVars \ {c} : after[x] = cm[x]
  PROVE  /\ Owners(after, rq, ty)
         /\ Holding(after, rq, ty) = Holding(cm, rq, ty) \ {cm[c]}
<1>2. after \in [CommVars -> Nat] /\ after[c] = 0 /\ \A d \in CommVars \ {c} : after[d] = cm[d]
  OBVIOUS
<1>4. Distinct(after, rq, ty)
  BY <1>2 DEF Owners, Distinct
<1>5. Holding(after, rq, ty) = Holding(cm, rq, ty) \ {cm[c]}
  BY <1>2 DEF Owners, Distinct, Holding
<1> QED
  BY <1>2, <1>4, <1>5 DEF Owners, Variables

\* A slot takes a handle that no variable holds.
LEMMA SlotTaken ==
  ASSUME NEW cm, NEW rq, NEW ty, Owners(cm, rq, ty), NEW s \in Slots, rq[s] = 0,
         NEW n \in Handle, n \notin Holding(cm, rq, ty),
         NEW after \in [Slots -> Nat], after[s] = n,
         \A x \in Slots \ {s} : after[x] = rq[x]
  PROVE  /\ Owners(cm, after, ty)
         /\ Holding(cm, after, ty) = Holding(cm, rq, ty) \cup {n}
<1>1. n \in Nat /\ n # 0
  BY DEF Handle
<1>2. after \in [Slots -> Nat] /\ after[s] = n /\ \A u \in Slots \ {s} : after[u] = rq[u]
  OBVIOUS
<1>3. /\ \A d \in CommVars : cm[d] # n
      /\ \A u \in Slots : rq[u] # n
      /\ \A v \in TypeVars : ty[v] # n
  BY <1>1 DEF Holding
<1>4. Distinct(cm, after, ty)
  BY <1>1, <1>2, <1>3 DEF Owners, Distinct
<1>5. Holding(cm, after, ty) = Holding(cm, rq, ty) \cup {n}
  BY <1>1, <1>2 DEF Holding
<1> QED
  BY <1>2, <1>4, <1>5 DEF Owners, Variables

\* It gives its handle up.
LEMMA SlotLeft ==
  ASSUME NEW cm, NEW rq, NEW ty, Owners(cm, rq, ty), NEW s \in Slots, rq[s] # 0,
         NEW after \in [Slots -> Nat], after[s] = 0,
         \A x \in Slots \ {s} : after[x] = rq[x]
  PROVE  /\ Owners(cm, after, ty)
         /\ Holding(cm, after, ty) = Holding(cm, rq, ty) \ {rq[s]}
<1>2. after \in [Slots -> Nat] /\ after[s] = 0 /\ \A u \in Slots \ {s} : after[u] = rq[u]
  OBVIOUS
<1>4. Distinct(cm, after, ty)
  BY <1>2 DEF Owners, Distinct
<1>5. Holding(cm, after, ty) = Holding(cm, rq, ty) \ {rq[s]}
  BY <1>2 DEF Owners, Distinct, Holding
<1> QED
  BY <1>2, <1>4, <1>5 DEF Owners, Variables

\* A variable for a datatype takes a handle that no variable holds.
LEMMA TypeTaken ==
  ASSUME NEW cm, NEW rq, NEW ty, Owners(cm, rq, ty), NEW v \in TypeVars, ty[v] = 0,
         NEW n \in Handle, n \notin Holding(cm, rq, ty),
         NEW after \in [TypeVars -> Nat], after[v] = n,
         \A x \in TypeVars \ {v} : after[x] = ty[x]
  PROVE  /\ Owners(cm, rq, after)
         /\ Holding(cm, rq, after) = Holding(cm, rq, ty) \cup {n}
<1>1. n \in Nat /\ n # 0
  BY DEF Handle
<1>2. after \in [TypeVars -> Nat] /\ after[v] = n /\ \A w \in TypeVars \ {v} : after[w] = ty[w]
  OBVIOUS
<1>3. /\ \A d \in CommVars : cm[d] # n
      /\ \A s \in Slots : rq[s] # n
      /\ \A w \in TypeVars : ty[w] # n
  BY <1>1 DEF Holding
<1>4. Distinct(cm, rq, after)
  BY <1>1, <1>2, <1>3 DEF Owners, Distinct
<1>5. Holding(cm, rq, after) = Holding(cm, rq, ty) \cup {n}
  BY <1>1, <1>2 DEF Holding
<1> QED
  BY <1>2, <1>4, <1>5 DEF Owners, Variables

\* It gives its handle up.
LEMMA TypeLeft ==
  ASSUME NEW cm, NEW rq, NEW ty, Owners(cm, rq, ty), NEW v \in TypeVars, ty[v] # 0,
         NEW after \in [TypeVars -> Nat], after[v] = 0,
         \A x \in TypeVars \ {v} : after[x] = ty[x]
  PROVE  /\ Owners(cm, rq, after)
         /\ Holding(cm, rq, after) = Holding(cm, rq, ty) \ {ty[v]}
<1>2. after \in [TypeVars -> Nat] /\ after[v] = 0 /\ \A w \in TypeVars \ {v} : after[w] = ty[w]
  OBVIOUS
<1>4. Distinct(cm, rq, after)
  BY <1>2 DEF Owners, Distinct
<1>5. Holding(cm, rq, after) = Holding(cm, rq, ty) \ {ty[v]}
  BY <1>2 DEF Owners, Distinct, Holding
<1> QED
  BY <1>2, <1>4, <1>5 DEF Owners, Variables

(***************************************************************************)
(* What waits in the lists.                                                *)
(***************************************************************************)
Sends(l, g)   == ToSet(l.data[g].sendlist)
Recvs(l, g)   == ToSet(l.data[g].recvlist)
Waiting(l, g) == Sends(l, g) \cup Recvs(l, g)

\* The request a slot holds is the slot's.
Requests(l, rq) ==
  \A s \in Slots : rq[s] # 0 =>
    /\ {"complete", "tag", "buf"} \subseteq DOMAIN l.data[rq[s]]
    /\ l.data[rq[s]].complete \in BOOLEAN /\ l.data[rq[s]].buf = s

\* The lists of a communicator hold requests of the program that are
\* incomplete, and no send beside a receive that would take it.
HasLists(item) ==
  /\ {"sendlist", "recvlist"} \subseteq DOMAIN item
  /\ item.sendlist \in Seq(Handle) /\ IsInjective(item.sendlist)
  /\ item.recvlist \in Seq(Handle) /\ IsInjective(item.recvlist)

Fits(l, r, h) == l.data[r].tag \in {MPI_ANY_TAG, l.data[h].tag}

IsComm(l, g, rq) ==
  /\ HasLists(l.data[g])
  /\ Sends(l, g) \cap Recvs(l, g) = {}
  /\ \A h \in Waiting(l, g) : \E s \in Slots : rq[s] = h /\ h # 0 /\ ~ l.data[h].complete
  /\ \A h \in Sends(l, g), r \in Recvs(l, g) : ~ Fits(l, r, h)

Queues(l, cm, rq) ==
  /\ \A c \in CommVars : cm[c] # 0 => IsComm(l, cm[c], rq)
  /\ \A c, d \in CommVars : cm[c] # 0 /\ cm[d] # 0 /\ c # d =>
       Waiting(l, cm[c]) \cap Waiting(l, cm[d]) = {}

Ledger(l, cm, rq, ty) ==
  /\ Table(l) /\ Owners(cm, rq, ty)
  /\ DOMAIN l.data = Holding(cm, rq, ty)
  /\ Requests(l, rq) /\ Queues(l, cm, rq)

NewLists(item) ==
  /\ {"sendlist", "recvlist"} \subseteq DOMAIN item
  /\ item.sendlist = <<>> /\ item.recvlist = <<>>

\* A step that leaves alone what waits in the lists.
LEMMA QueuesStay ==
  ASSUME NEW l, NEW cm, NEW rq, NEW ty, Ledger(l, cm, rq, ty),
         NEW l2, NEW cm2, NEW rq2,
         \A c \in CommVars : cm2[c] # 0 =>
            \/ cm2[c] = cm[c] /\ l2.data[cm[c]] = l.data[cm[c]]
            \/ NewLists(l2.data[cm2[c]]),
         \A s \in Slots : rq[s] # 0 /\ ~ l.data[rq[s]].complete =>
            rq2[s] = rq[s] /\ l2.data[rq[s]] = l.data[rq[s]]
  PROVE  Queues(l2, cm2, rq2)
<1>1. ASSUME NEW c \in CommVars, cm2[c] # 0, NewLists(l2.data[cm2[c]])
      PROVE  /\ HasLists(l2.data[cm2[c]])
             /\ Sends(l2, cm2[c]) = {} /\ Recvs(l2, cm2[c]) = {}
  <2>1. <<>> \in Seq(Handle) /\ IsInjective(<<>>) /\ ToSet(<<>>) = {}
    BY DEF IsInjective, ToSet
  <2> QED
    BY <1>1, <2>1 DEF NewLists, HasLists, Sends, Recvs
<1>2. ASSUME NEW c \in CommVars, cm2[c] # 0, ~ NewLists(l2.data[cm2[c]])
      PROVE  /\ cm2[c] = cm[c] /\ IsComm(l, cm[c], rq) /\ HasLists(l2.data[cm2[c]])
             /\ Sends(l2, cm2[c]) = Sends(l, cm[c]) /\ Recvs(l2, cm2[c]) = Recvs(l, cm[c])
  BY <1>2 DEF Ledger, Queues, IsComm, Sends, Recvs
<1>3. ASSUME NEW c \in CommVars, cm2[c] # 0 PROVE IsComm(l2, cm2[c], rq2)
  <2>1. CASE NewLists(l2.data[cm2[c]])
    BY <1>1, <1>3, <2>1 DEF IsComm, Waiting
  <2>2. CASE ~ NewLists(l2.data[cm2[c]])
    <3>1. ASSUME NEW h \in Waiting(l, cm[c])
          PROVE  l2.data[h] = l.data[h] /\ \E s \in Slots : rq2[s] = h /\ h # 0 /\ ~ l2.data[h].complete
      BY <1>2, <1>3, <2>2, <3>1 DEF IsComm
    <3>2. \A h \in Sends(l, cm[c]), r \in Recvs(l, cm[c]) : ~ Fits(l2, r, h)
      BY <1>2, <1>3, <2>2, <3>1 DEF IsComm, Fits, Waiting
    <3> QED
      BY <1>2, <1>3, <2>2, <3>1, <3>2 DEF IsComm, Waiting
  <2> QED
    BY <2>1, <2>2
<1>4. ASSUME NEW c \in CommVars, NEW d \in CommVars, cm2[c] # 0, cm2[d] # 0, c # d
      PROVE  Waiting(l2, cm2[c]) \cap Waiting(l2, cm2[d]) = {}
  <2>1. CASE NewLists(l2.data[cm2[c]]) \/ NewLists(l2.data[cm2[d]])
    BY <1>1, <1>4, <2>1 DEF Waiting
  <2>2. CASE ~ NewLists(l2.data[cm2[c]]) /\ ~ NewLists(l2.data[cm2[d]])
    BY <1>2, <1>4, <2>2 DEF Waiting, Ledger, Queues
  <2> QED
    BY <2>1, <2>2
<1> QED
  BY <1>3, <1>4 DEF Queues

\* What the variables hold is in use.
LEMMA HeldIsInUse ==
  ASSUME NEW l, NEW cm, NEW rq, NEW ty, Ledger(l, cm, rq, ty)
  PROVE  /\ \A c \in CommVars : cm[c] # 0 => cm[c] \in DOMAIN l.data
         /\ \A s \in Slots : rq[s] # 0 => rq[s] \in DOMAIN l.data
         /\ \A v \in TypeVars : ty[v] # 0 => ty[v] \in DOMAIN l.data
BY DEF Ledger, Holding

(***************************************************************************)
(* What a step of the library does to the ledger.                          *)
(***************************************************************************)
\* A new communicator
LEMMA CommMade ==
  ASSUME NEW l, NEW cm, NEW rq, NEW ty, Ledger(l, cm, rq, ty), NEW c \in CommVars, cm[c] = 0
  PROVE  Ledger(mpi_comm_new(l), [cm EXCEPT ![c] = NewHandle(l)], rq, ty)
<1> DEFINE n == NewHandle(l)
           x == [kind |-> "comm", sendlist |-> AP_list_new, recvlist |-> AP_list_new]
           L == mpi_alloc_handle(l, x)
           new == [cm EXCEPT ![c] = n]
<1>1. /\ n \in Handle /\ n \notin DOMAIN l.data /\ Table(L)
      /\ DOMAIN L.data = DOMAIN l.data \cup {n} /\ L.data[n] = x
      /\ \A h \in DOMAIN l.data : L.data[h] = l.data[h]
  BY AllocIs DEF Ledger
<1>2. NewLists(x)
  BY DEF NewLists, AP_list_new
<1>3. mpi_comm_new(l) = L
  BY DEF mpi_comm_new
<1> HIDE DEF n, x, L
<1>3a. Owners(cm, rq, ty) /\ n \notin Holding(cm, rq, ty)
  BY <1>1 DEF Ledger
<1>3b. /\ new \in [CommVars -> Nat] /\ new[c] = n
      /\ \A k \in CommVars \ {c} : new[k] = cm[k]
  BY <1>1 DEF Handle, Ledger, Owners, Variables
<1> HIDE DEF new
<1>4. Owners(new, rq, ty) /\ Holding(new, rq, ty) = Holding(cm, rq, ty) \cup {n}
  BY <1>1, <1>3a, <1>3b, CommTaken
<1> HIDE DEF new
<1>6. /\ \A d \in CommVars : cm[d] # 0 => L.data[cm[d]] = l.data[cm[d]]
      /\ \A s \in Slots : rq[s] # 0 => L.data[rq[s]] = l.data[rq[s]]
  BY <1>1, HeldIsInUse
<1>7. Queues(L, new, rq)
  <2>1. \A d \in CommVars : new[d] # 0 =>
            \/ new[d] = cm[d] /\ L.data[cm[d]] = l.data[cm[d]]
            \/ NewLists(L.data[new[d]])
    BY <1>1, <1>2, <1>3b, <1>6
  <2> QED
    BY <1>6, <2>1, QueuesStay
<1>8. Requests(L, rq)
  BY <1>6 DEF Ledger, Requests
<1> QED
  BY <1>1, <1>3, <1>4, <1>7, <1>8 DEF Ledger, n, new

\* A new datatype
LEMMA TypeMade ==
  ASSUME NEW l, NEW cm, NEW rq, NEW ty, Ledger(l, cm, rq, ty), NEW v \in TypeVars, ty[v] = 0, NEW x
  PROVE  Ledger(mpi_alloc_handle(l, x), cm, rq, [ty EXCEPT ![v] = NewHandle(l)])
<1> DEFINE n == NewHandle(l)
           L == mpi_alloc_handle(l, x)
           new == [ty EXCEPT ![v] = n]
<1>1. /\ n \in Handle /\ n \notin DOMAIN l.data /\ Table(L)
      /\ DOMAIN L.data = DOMAIN l.data \cup {n}
      /\ \A h \in DOMAIN l.data : L.data[h] = l.data[h]
  BY AllocIs DEF Ledger
<1> HIDE DEF n, L
<1>3a. Owners(cm, rq, ty) /\ n \notin Holding(cm, rq, ty)
  BY <1>1 DEF Ledger
<1>3b. /\ new \in [TypeVars -> Nat] /\ new[v] = n
      /\ \A k \in TypeVars \ {v} : new[k] = ty[k]
  BY <1>1 DEF Handle, Ledger, Owners, Variables
<1> HIDE DEF new
<1>4. Owners(cm, rq, new) /\ Holding(cm, rq, new) = Holding(cm, rq, ty) \cup {n}
  BY <1>1, <1>3a, <1>3b, TypeTaken
<1> HIDE DEF new
<1>6. /\ \A d \in CommVars : cm[d] # 0 => L.data[cm[d]] = l.data[cm[d]]
      /\ \A s \in Slots : rq[s] # 0 => L.data[rq[s]] = l.data[rq[s]]
  BY <1>1, HeldIsInUse
<1>7. Queues(L, cm, rq)
  BY <1>6, QueuesStay
<1>8. Requests(L, rq)
  BY <1>6 DEF Ledger, Requests
<1> QED
  BY <1>1, <1>4, <1>7, <1>8 DEF Ledger, n, L, new

\* A new request, not in a list yet
LEMMA RequestMade ==
  ASSUME NEW l, NEW cm, NEW rq, NEW ty, Ledger(l, cm, rq, ty), NEW s \in Slots, rq[s] = 0,
         NEW complete \in BOOLEAN, NEW tag
  PROVE  /\ Ledger(mpi_alloc_handle(l, Request(complete, tag, s)), cm,
                   [rq EXCEPT ![s] = NewHandle(l)], ty)
         /\ \A c \in CommVars : cm[c] # 0 => NewHandle(l) \notin Waiting(l, cm[c])
<1> DEFINE n == NewHandle(l)
           x == Request(complete, tag, s)
           L == mpi_alloc_handle(l, x)
           new == [rq EXCEPT ![s] = n]
<1>1. /\ n \in Handle /\ n \notin DOMAIN l.data /\ Table(L)
      /\ DOMAIN L.data = DOMAIN l.data \cup {n} /\ L.data[n] = x
      /\ \A h \in DOMAIN l.data : L.data[h] = l.data[h]
  BY AllocIs DEF Ledger
<1>2. {"complete", "tag", "buf"} \subseteq DOMAIN x /\ x.complete \in BOOLEAN /\ x.buf = s
  BY DEF Request
<1> HIDE DEF n, L, x
<1>3a. Owners(cm, rq, ty) /\ n \notin Holding(cm, rq, ty)
  BY <1>1 DEF Ledger
<1>3b. /\ new \in [Slots -> Nat] /\ new[s] = n
      /\ \A k \in Slots \ {s} : new[k] = rq[k]
  BY <1>1 DEF Handle, Ledger, Owners, Variables
<1> HIDE DEF new
<1>4. Owners(cm, new, ty) /\ Holding(cm, new, ty) = Holding(cm, rq, ty) \cup {n}
  BY <1>1, <1>3a, <1>3b, SlotTaken
<1> HIDE DEF new
<1>6. /\ \A d \in CommVars : cm[d] # 0 => L.data[cm[d]] = l.data[cm[d]]
      /\ \A u \in Slots : rq[u] # 0 => L.data[rq[u]] = l.data[rq[u]]
  BY <1>1, HeldIsInUse
<1>7. Queues(L, cm, new)
  <2>1. \A u \in Slots : rq[u] # 0 => new[u] = rq[u] /\ L.data[rq[u]] = l.data[rq[u]]
    BY <1>3b, <1>6
  <2> QED
    BY <1>6, <2>1, QueuesStay
<1>8. Requests(L, new)
  <2> SUFFICES ASSUME NEW u \in Slots, new[u] # 0
               PROVE  /\ {"complete", "tag", "buf"} \subseteq DOMAIN L.data[new[u]]
                      /\ L.data[new[u]].complete \in BOOLEAN /\ L.data[new[u]].buf = u
    BY DEF Requests
  <2>1. CASE u = s
    BY <1>1, <1>2, <1>3b, <2>1
  <2>2. CASE u # s
    BY <1>3b, <1>6, <2>2 DEF Ledger, Requests
  <2> QED
    BY <2>1, <2>2
<1>9. \A c \in CommVars : cm[c] # 0 => n \notin Waiting(l, cm[c])
  BY <1>1, HeldIsInUse DEF Ledger, Queues, IsComm
<1> QED
  BY <1>1, <1>4, <1>7, <1>8, <1>9 DEF Ledger, n, L, x, new

\* A communicator nobody waits in is freed
LEMMA CommFreed ==
  ASSUME NEW l, NEW cm, NEW rq, NEW ty, Ledger(l, cm, rq, ty), NEW c \in CommVars, cm[c] # 0
  PROVE  Ledger(mpi_free_handle(l, cm[c]), [cm EXCEPT ![c] = 0], rq, ty)
<1> DEFINE h == cm[c]
           L == mpi_free_handle(l, h)
           new == [cm EXCEPT ![c] = 0]
<1>0. h \in DOMAIN l.data
  BY HeldIsInUse
<1>1. /\ Table(L) /\ DOMAIN L.data = DOMAIN l.data \ {h}
      /\ \A k \in DOMAIN l.data \ {h} : L.data[k] = l.data[k]
  <2> HIDE DEF h
  <2> QED
    BY <1>0, FreeIs DEF Ledger
<1>3a. Owners(cm, rq, ty)
  BY DEF Ledger
<1>3b. /\ new \in [CommVars -> Nat] /\ new[c] = 0
      /\ \A k \in CommVars \ {c} : new[k] = cm[k]
  BY DEF Ledger, Owners, Variables
<1> HIDE DEF new
<1>4. Owners(new, rq, ty) /\ Holding(new, rq, ty) = Holding(cm, rq, ty) \ {h}
  BY <1>3a, <1>3b, CommLeft
<1> HIDE DEF L, new
<1>6. /\ \A d \in CommVars : new[d] # 0 => new[d] = cm[d] /\ L.data[cm[d]] = l.data[cm[d]]
      /\ \A s \in Slots : rq[s] # 0 => L.data[rq[s]] = l.data[rq[s]]
  BY <1>1, <1>3b, HeldIsInUse DEF Ledger, Owners, Distinct
<1>7. Queues(L, new, rq)
  BY <1>6, QueuesStay
<1>8. Requests(L, rq)
  BY <1>6 DEF Ledger, Requests
<1> QED
  BY <1>1, <1>4, <1>7, <1>8 DEF Ledger, h, L, new

\* A datatype is freed
LEMMA TypeFreed ==
  ASSUME NEW l, NEW cm, NEW rq, NEW ty, Ledger(l, cm, rq, ty), NEW v \in TypeVars, ty[v] # 0
  PROVE  Ledger(mpi_free_handle(l, ty[v]), cm, rq, [ty EXCEPT ![v] = 0])
<1> DEFINE h == ty[v]
           L == mpi_free_handle(l, h)
           new == [ty EXCEPT ![v] = 0]
<1>0. h \in DOMAIN l.data
  BY HeldIsInUse
<1>1. /\ Table(L) /\ DOMAIN L.data = DOMAIN l.data \ {h}
      /\ \A k \in DOMAIN l.data \ {h} : L.data[k] = l.data[k]
  <2> HIDE DEF h
  <2> QED
    BY <1>0, FreeIs DEF Ledger
<1>3a. Owners(cm, rq, ty)
  BY DEF Ledger
<1>3b. /\ new \in [TypeVars -> Nat] /\ new[v] = 0
      /\ \A k \in TypeVars \ {v} : new[k] = ty[k]
  BY DEF Ledger, Owners, Variables
<1> HIDE DEF new
<1>4. Owners(cm, rq, new) /\ Holding(cm, rq, new) = Holding(cm, rq, ty) \ {h}
  BY <1>3a, <1>3b, TypeLeft
<1> HIDE DEF L, new
<1>6. /\ \A d \in CommVars : cm[d] # 0 => L.data[cm[d]] = l.data[cm[d]]
      /\ \A s \in Slots : rq[s] # 0 => L.data[rq[s]] = l.data[rq[s]]
  BY <1>1, HeldIsInUse DEF Ledger, Owners, Distinct
<1>7. Queues(L, cm, rq)
  BY <1>6, QueuesStay
<1>8. Requests(L, rq)
  BY <1>6 DEF Ledger, Requests
<1> QED
  BY <1>1, <1>4, <1>7, <1>8 DEF Ledger, h, L, new

\* A request that is complete is freed
LEMMA RequestFreed ==
  ASSUME NEW l, NEW cm, NEW rq, NEW ty, Ledger(l, cm, rq, ty), NEW s \in Slots, rq[s] # 0,
         l.data[rq[s]].complete
  PROVE  Ledger(mpi_free_handle(l, rq[s]), cm, [rq EXCEPT ![s] = 0], ty)
<1> DEFINE h == rq[s]
           L == mpi_free_handle(l, h)
           new == [rq EXCEPT ![s] = 0]
<1>0. h \in DOMAIN l.data
  BY HeldIsInUse
<1>1. /\ Table(L) /\ DOMAIN L.data = DOMAIN l.data \ {h}
      /\ \A k \in DOMAIN l.data \ {h} : L.data[k] = l.data[k]
  <2> HIDE DEF h
  <2> QED
    BY <1>0, FreeIs DEF Ledger
<1>3a. Owners(cm, rq, ty)
  BY DEF Ledger
<1>3b. /\ new \in [Slots -> Nat] /\ new[s] = 0
      /\ \A k \in Slots \ {s} : new[k] = rq[k]
  BY DEF Ledger, Owners, Variables
<1> HIDE DEF new
<1>4. Owners(cm, new, ty) /\ Holding(cm, new, ty) = Holding(cm, rq, ty) \ {h}
  BY <1>3a, <1>3b, SlotLeft
<1> HIDE DEF L, new
<1>6. /\ \A d \in CommVars : cm[d] # 0 => L.data[cm[d]] = l.data[cm[d]]
      /\ \A u \in Slots \ {s} : rq[u] # 0 => L.data[rq[u]] = l.data[rq[u]]
  BY <1>1, HeldIsInUse DEF Ledger, Owners, Distinct
<1>7. Queues(L, cm, new)
  <2>1. \A u \in Slots : rq[u] # 0 /\ ~ l.data[rq[u]].complete =>
           new[u] = rq[u] /\ L.data[rq[u]] = l.data[rq[u]]
    BY <1>3b, <1>6
  <2> QED
    BY <1>6, <2>1, QueuesStay
<1>8. Requests(L, new)
  BY <1>3b, <1>6 DEF Ledger, Requests
<1> QED
  BY <1>1, <1>4, <1>7, <1>8 DEF Ledger, h, L, new

SameTable(L, l) ==
  /\ DOMAIN L = {"nblocks", "free", "data"} /\ DOMAIN L.data = DOMAIN l.data
  /\ L.nblocks = l.nblocks /\ L.free = l.free

\* L is the table l after the request of slot s has joined the lists of the
\* communicator c, or has left them.
Moves(L, l, cm, rq, c, s) ==
  LET g == cm[c]
      h == rq[s]
  IN  /\ SameTable(L, l) /\ g # 0 /\ h # 0
      /\ \A k \in DOMAIN l.data \ {g, h} : L.data[k] = l.data[k]
      /\ {"complete", "tag", "buf"} \subseteq DOMAIN L.data[h]
      /\ L.data[h].complete \in BOOLEAN /\ L.data[h].buf = s
      /\ HasLists(L.data[g])
      /\ Sends(L, g) \subseteq Sends(l, g) \cup {h}
      /\ Recvs(L, g) \subseteq Recvs(l, g) \cup {h}
      /\ h \in Waiting(L, g) =>
           /\ ~ L.data[h].complete
           /\ \A x \in Sends(L, g), y \in Recvs(L, g) : h \in {x, y} => x # y /\ ~ Fits(L, y, x)
      /\ \A d \in CommVars \ {c} : cm[d] # 0 => h \notin Waiting(l, cm[d])

\* A request that is put into a list or taken from it leaves the ledger right.
LEMMA Relisted ==
  ASSUME NEW l, NEW cm, NEW rq, NEW ty, Ledger(l, cm, rq, ty),
         NEW L, NEW c \in CommVars, NEW s \in Slots, Moves(L, l, cm, rq, c, s)
  PROVE  Ledger(L, cm, rq, ty)
<1> DEFINE g == cm[c]
           h == rq[s]
<1>0. /\ SameTable(L, l) /\ g # 0 /\ h # 0
      /\ \A k \in DOMAIN l.data \ {g, h} : L.data[k] = l.data[k]
      /\ {"complete", "tag", "buf"} \subseteq DOMAIN L.data[h]
      /\ L.data[h].complete \in BOOLEAN /\ L.data[h].buf = s
      /\ HasLists(L.data[g])
      /\ Sends(L, g) \subseteq Sends(l, g) \cup {h}
      /\ Recvs(L, g) \subseteq Recvs(l, g) \cup {h}
      /\ h \in Waiting(L, g) =>
           /\ ~ L.data[h].complete
           /\ \A x \in Sends(L, g), y \in Recvs(L, g) : h \in {x, y} => x # y /\ ~ Fits(L, y, x)
      /\ \A d \in CommVars \ {c} : cm[d] # 0 => h \notin Waiting(l, cm[d])
  BY DEF Moves
<1>1. /\ g \in DOMAIN l.data /\ h \in DOMAIN l.data /\ g # h
      /\ \A d \in CommVars : cm[d] # 0 => cm[d] \in DOMAIN l.data /\ cm[d] # h
      /\ \A d \in CommVars \ {c} : cm[d] # 0 => cm[d] # g
      /\ \A u \in Slots : rq[u] # 0 => rq[u] \in DOMAIN l.data /\ rq[u] # g
      /\ \A u \in Slots \ {s} : rq[u] # 0 => rq[u] # h
  BY <1>0, HeldIsInUse DEF Ledger, Owners, Distinct
<1> HIDE DEF g, h
<1>2. Table(L) /\ DOMAIN L.data = Holding(cm, rq, ty) /\ Owners(cm, rq, ty)
  BY <1>0 DEF SameTable, Ledger, Table
<1>3. \A k \in DOMAIN l.data \ {g, h} : L.data[k] = l.data[k]
  BY <1>0
<1>4. Requests(L, rq)
  <2> SUFFICES ASSUME NEW u \in Slots, rq[u] # 0
               PROVE  /\ {"complete", "tag", "buf"} \subseteq DOMAIN L.data[rq[u]]
                      /\ L.data[rq[u]].complete \in BOOLEAN /\ L.data[rq[u]].buf = u
    BY DEF Requests
  <2>1. CASE u = s
    BY <1>0, <2>1 DEF h
  <2>2. CASE u # s
    BY <1>1, <1>3, <2>2 DEF Ledger, Requests
  <2> QED
    BY <2>1, <2>2
<1>5. ASSUME NEW d \in CommVars, cm[d] # 0
      PROVE  IsComm(l, cm[d], rq)
  BY <1>5 DEF Ledger, Queues
\* What waits besides h is as it was
<1>6. ASSUME NEW d \in CommVars, cm[d] # 0, NEW k \in Waiting(l, cm[d]), k # h
      PROVE  L.data[k] = l.data[k] /\ \E u \in Slots : rq[u] = k /\ k # 0 /\ ~ L.data[k].complete
  BY <1>1, <1>3, <1>5, <1>6 DEF IsComm
<1>7. ASSUME NEW d \in CommVars, cm[d] # 0, d # c
      PROVE  /\ IsComm(L, cm[d], rq)
             /\ Sends(L, cm[d]) = Sends(l, cm[d]) /\ Recvs(L, cm[d]) = Recvs(l, cm[d])
             /\ h \notin Waiting(l, cm[d])
  <2>1. h \notin Waiting(l, cm[d])
    BY <1>0, <1>7
  <2>2. L.data[cm[d]] = l.data[cm[d]]
    BY <1>1, <1>3, <1>7
  <2>3. Sends(L, cm[d]) = Sends(l, cm[d]) /\ Recvs(L, cm[d]) = Recvs(l, cm[d])
    BY <2>2 DEF Sends, Recvs
  <2>4. HasLists(L.data[cm[d]]) /\ Sends(L, cm[d]) \cap Recvs(L, cm[d]) = {}
    BY <1>5, <1>7, <2>2, <2>3 DEF IsComm
  <2>5. \A x \in Sends(L, cm[d]), y \in Recvs(L, cm[d]) : ~ Fits(L, y, x)
    BY <1>5, <1>6, <1>7, <2>1, <2>3 DEF IsComm, Fits, Waiting
  <2>6. \A k \in Waiting(L, cm[d]) : \E u \in Slots : rq[u] = k /\ k # 0 /\ ~ L.data[k].complete
    BY <1>6, <1>7, <2>1, <2>3 DEF Waiting
  <2> QED
    BY <2>1, <2>3, <2>4, <2>5, <2>6 DEF IsComm
<1>8. IsComm(L, g, rq)
  <2>0. Sends(L, g) \subseteq Sends(l, g) \cup {h} /\ Recvs(L, g) \subseteq Recvs(l, g) \cup {h}
    BY <1>0
  <2>1. h \in Waiting(L, g) =>
           /\ ~ L.data[h].complete
           /\ \A x \in Sends(L, g), y \in Recvs(L, g) : h \in {x, y} => x # y /\ ~ Fits(L, y, x)
    BY <1>0
  <2>2. /\ Sends(l, g) \cap Recvs(l, g) = {}
        /\ \A x \in Sends(l, g), y \in Recvs(l, g) : ~ Fits(l, y, x)
    BY <1>0, <1>5 DEF IsComm, g
  <2>3. \A k \in Waiting(l, g) : k # h =>
           L.data[k] = l.data[k] /\ \E u \in Slots : rq[u] = k /\ k # 0 /\ ~ L.data[k].complete
    BY <1>0, <1>6 DEF g
  <2>4. Sends(L, g) \cap Recvs(L, g) = {} /\ HasLists(L.data[g])
    BY <1>0, <2>0, <2>1, <2>2 DEF Waiting
  <2>5. \A x \in Sends(L, g), y \in Recvs(L, g) : ~ Fits(L, y, x)
    <3> SUFFICES ASSUME NEW x \in Sends(L, g), NEW y \in Recvs(L, g) PROVE ~ Fits(L, y, x)
      OBVIOUS
    <3>1. CASE h \in {x, y}
      BY <2>1, <3>1 DEF Waiting
    <3>2. CASE h \notin {x, y}
      <4>1. x \in Sends(l, g) /\ y \in Recvs(l, g)
        BY <2>0, <3>2
      <4> QED
        BY <2>2, <2>3, <3>2, <4>1 DEF Fits, Waiting
    <3> QED
      BY <3>1, <3>2
  <2>6. ASSUME NEW k \in Waiting(L, g)
        PROVE  \E u \in Slots : rq[u] = k /\ k # 0 /\ ~ L.data[k].complete
    <3>1. CASE k = h
      BY <1>0, <2>1, <2>6, <3>1 DEF h
    <3>2. CASE k # h
      BY <2>0, <2>3, <2>6, <3>2 DEF Waiting
    <3> QED
      BY <3>1, <3>2
  <2> QED
    BY <2>4, <2>5, <2>6 DEF IsComm, g
<1>9. ASSUME NEW d \in CommVars, NEW e \in CommVars, cm[d] # 0, cm[e] # 0, d # e
      PROVE  Waiting(L, cm[d]) \cap Waiting(L, cm[e]) = {}
  <2>1. Waiting(l, cm[d]) \cap Waiting(l, cm[e]) = {}
    BY <1>9 DEF Ledger, Queues
  <2>2. \A b \in CommVars \ {c} : cm[b] # 0 =>
           Waiting(L, cm[b]) = Waiting(l, cm[b]) /\ h \notin Waiting(l, cm[b])
    BY <1>7 DEF Waiting
  <2>3. Waiting(L, cm[c]) \subseteq Waiting(l, cm[c]) \cup {h}
    BY <1>0 DEF Waiting, g
  <2> QED
    BY <1>9, <2>1, <2>2, <2>3
<1> QED
  BY <1>2, <1>4, <1>7, <1>8, <1>9 DEF Ledger, Queues, g

RecvTaken(l, g, k, tag) ==
  LET r == l.data[g].recvlist[k]
  IN  [l EXCEPT !.data[g].recvlist = AP_list_delete_item(@, k),
                !.data[r].complete = TRUE, !.data[r].tag = tag]
SendTaken(l, g, k) ==
  LET r == l.data[g].sendlist[k]
  IN  [l EXCEPT !.data[g].sendlist = AP_list_delete_item(@, k), !.data[r].complete = TRUE]
SendAdded(l, g, h) == [l EXCEPT !.data[g].sendlist = AP_list_append(@, h)]
RecvAdded(l, g, h) == [l EXCEPT !.data[g].recvlist = AP_list_append(@, h)]

\* A send finds a receive that waits for it.
LEMMA SendMet ==
  ASSUME NEW l, NEW cm, NEW rq, NEW ty, Ledger(l, cm, rq, ty), NEW c \in CommVars, cm[c] # 0,
         NEW k \in 1 .. Len(l.data[cm[c]].recvlist), NEW tag
  PROVE  /\ Ledger(RecvTaken(l, cm[c], k, tag), cm, rq, ty)
         /\ NewHandle(RecvTaken(l, cm[c], k, tag)) = NewHandle(l)
<1> DEFINE g == cm[c]
           list == l.data[g].recvlist
           r == list[k]
           L == RecvTaken(l, cm[c], k, tag)
<1> HIDE DEF r, L
<1>1. IsComm(l, g, rq) /\ HasLists(l.data[g])
  BY DEF Ledger, Queues, IsComm
<1>2. list \in Seq(Handle) /\ IsInjective(list)
  BY <1>1 DEF HasLists
<1>3. r \in ToSet(list)
  BY <1>2 DEF ToSet, r
<1>4. PICK s \in Slots : rq[s] = r /\ r # 0 /\ ~ l.data[r].complete
  BY <1>1, <1>3 DEF IsComm, Waiting, Recvs
<1>5. g \in DOMAIN l.data /\ r \in DOMAIN l.data /\ g # r
  BY <1>4, HeldIsInUse DEF Ledger, Owners, Distinct
<1>6. DOMAIN l = {"nblocks", "free", "data"}
  BY DEF Ledger, Table
<1>7. /\ DOMAIN L = {"nblocks", "free", "data"}
      /\ L.nblocks = l.nblocks /\ L.free = l.free
      /\ DOMAIN L.data = DOMAIN l.data
      /\ \A h \in DOMAIN l.data \ {g, r} : L.data[h] = l.data[h]
      /\ L.data[g] = [l.data[g] EXCEPT !.recvlist = AP_list_delete_item(@, k)]
      /\ L.data[r] = [l.data[r] EXCEPT !.complete = TRUE, !.tag = tag]
  BY <1>5, <1>6 DEF RecvTaken, L, r
<1>8. SameTable(L, l)
  BY <1>7 DEF SameTable
<1>9. /\ {"complete", "tag", "buf"} \subseteq DOMAIN l.data[r] /\ l.data[r].buf = s
  BY <1>4 DEF Ledger, Requests
<1>10. /\ {"complete", "tag", "buf"} \subseteq DOMAIN L.data[r] /\ L.data[r].buf = s
       /\ L.data[r].complete = TRUE
  BY <1>7, <1>9
<1>11. /\ {"sendlist", "recvlist"} \subseteq DOMAIN L.data[g]
       /\ L.data[g].sendlist = l.data[g].sendlist
       /\ L.data[g].recvlist = AP_list_delete_item(list, k)
  BY <1>1, <1>7 DEF HasLists
<1>12. /\ AP_list_delete_item(list, k) \in Seq(Handle) /\ IsInjective(AP_list_delete_item(list, k))
       /\ ToSet(AP_list_delete_item(list, k)) = ToSet(list) \ {r}
  <2>1. k \in 1 .. Len(list) /\ r = list[k]
    BY DEF r
  <2> HIDE DEF list
  <2> QED
    BY <1>2, <2>1, ShortenedList
<1>13. HasLists(L.data[g])
  BY <1>1, <1>11, <1>12 DEF HasLists
<1>14. Sends(L, g) = Sends(l, g) /\ Recvs(L, g) = Recvs(l, g) \ {r} /\ r \notin Sends(l, g)
  BY <1>1, <1>3, <1>11, <1>12 DEF Sends, Recvs, IsComm
<1>15. \A d \in CommVars \ {c} : cm[d] # 0 => r \notin Waiting(l, cm[d])
  BY <1>3 DEF Ledger, Queues, Waiting, Recvs
<1>16. NewHandle(L) = NewHandle(l)
  BY <1>7 DEF NewHandle
<1>17. r \notin Waiting(L, g)
  BY <1>14 DEF Waiting
<1>18. Moves(L, l, cm, rq, c, s)
  BY <1>4, <1>7, <1>8, <1>10, <1>13, <1>14, <1>15, <1>17 DEF Moves
<1> QED
  BY <1>16, <1>18, Relisted DEF L

\* A receive finds a send that waits for it.
LEMMA RecvMet ==
  ASSUME NEW l, NEW cm, NEW rq, NEW ty, Ledger(l, cm, rq, ty), NEW c \in CommVars, cm[c] # 0,
         NEW k \in 1 .. Len(l.data[cm[c]].sendlist)
  PROVE  /\ Ledger(SendTaken(l, cm[c], k), cm, rq, ty)
         /\ NewHandle(SendTaken(l, cm[c], k)) = NewHandle(l)
<1> DEFINE g == cm[c]
           list == l.data[g].sendlist
           r == list[k]
           L == SendTaken(l, cm[c], k)
<1> HIDE DEF r, L
<1>1. IsComm(l, g, rq) /\ HasLists(l.data[g])
  BY DEF Ledger, Queues, IsComm
<1>2. list \in Seq(Handle) /\ IsInjective(list)
  BY <1>1 DEF HasLists
<1>3. r \in ToSet(list)
  BY <1>2 DEF ToSet, r
<1>4. PICK s \in Slots : rq[s] = r /\ r # 0 /\ ~ l.data[r].complete
  BY <1>1, <1>3 DEF IsComm, Waiting, Sends
<1>5. g \in DOMAIN l.data /\ r \in DOMAIN l.data /\ g # r
  BY <1>4, HeldIsInUse DEF Ledger, Owners, Distinct
<1>6. DOMAIN l = {"nblocks", "free", "data"}
  BY DEF Ledger, Table
<1>7. /\ DOMAIN L = {"nblocks", "free", "data"}
      /\ L.nblocks = l.nblocks /\ L.free = l.free
      /\ DOMAIN L.data = DOMAIN l.data
      /\ \A h \in DOMAIN l.data \ {g, r} : L.data[h] = l.data[h]
      /\ L.data[g] = [l.data[g] EXCEPT !.sendlist = AP_list_delete_item(@, k)]
      /\ L.data[r] = [l.data[r] EXCEPT !.complete = TRUE]
  BY <1>5, <1>6 DEF SendTaken, L, r
<1>8. SameTable(L, l)
  BY <1>7 DEF SameTable
<1>9. /\ {"complete", "tag", "buf"} \subseteq DOMAIN l.data[r] /\ l.data[r].buf = s
  BY <1>4 DEF Ledger, Requests
<1>10. /\ {"complete", "tag", "buf"} \subseteq DOMAIN L.data[r] /\ L.data[r].buf = s
       /\ L.data[r].complete = TRUE
  BY <1>7, <1>9
<1>11. /\ {"sendlist", "recvlist"} \subseteq DOMAIN L.data[g]
       /\ L.data[g].recvlist = l.data[g].recvlist
       /\ L.data[g].sendlist = AP_list_delete_item(list, k)
  BY <1>1, <1>7 DEF HasLists
<1>12. /\ AP_list_delete_item(list, k) \in Seq(Handle) /\ IsInjective(AP_list_delete_item(list, k))
       /\ ToSet(AP_list_delete_item(list, k)) = ToSet(list) \ {r}
  <2>1. k \in 1 .. Len(list) /\ r = list[k]
    BY DEF r
  <2> HIDE DEF list
  <2> QED
    BY <1>2, <2>1, ShortenedList
<1>13. HasLists(L.data[g])
  BY <1>1, <1>11, <1>12 DEF HasLists
<1>14. Recvs(L, g) = Recvs(l, g) /\ Sends(L, g) = Sends(l, g) \ {r} /\ r \notin Recvs(l, g)
  BY <1>1, <1>3, <1>11, <1>12 DEF Sends, Recvs, IsComm
<1>15. \A d \in CommVars \ {c} : cm[d] # 0 => r \notin Waiting(l, cm[d])
  BY <1>3 DEF Ledger, Queues, Waiting, Sends
<1>16. NewHandle(L) = NewHandle(l)
  BY <1>7 DEF NewHandle
<1>17. r \notin Waiting(L, g)
  BY <1>14 DEF Waiting
<1>18. Moves(L, l, cm, rq, c, s)
  BY <1>4, <1>7, <1>8, <1>10, <1>13, <1>14, <1>15, <1>17 DEF Moves
<1> QED
  BY <1>16, <1>18, Relisted DEF L

\* A send finds no receive and waits.
LEMMA SendListed ==
  ASSUME NEW l, NEW cm, NEW rq, NEW ty, Ledger(l, cm, rq, ty), NEW c \in CommVars, cm[c] # 0,
         NEW s \in Slots, rq[s] = 0, NEW tag,
         \A r \in Recvs(l, cm[c]) : l.data[r].tag \notin {MPI_ANY_TAG, tag},
         NEW L0, L0 = SendAdded(l, cm[c], NewHandle(l))
  PROVE  Ledger(mpi_alloc_handle(L0, Request(FALSE, tag, s)), cm,
                [rq EXCEPT ![s] = NewHandle(l)], ty)
<1> DEFINE g == cm[c]
           n == NewHandle(l)
           x == Request(FALSE, tag, s)
           l1 == mpi_alloc_handle(l, x)
           L == mpi_alloc_handle(L0, x)
           rq1 == [rq EXCEPT ![s] = n]
           list == l.data[g].sendlist
<1>1. /\ Ledger(l1, cm, rq1, ty)
      /\ \A d \in CommVars : cm[d] # 0 => n \notin Waiting(l, cm[d])
  BY RequestMade
<1>2. /\ n \in Handle /\ n \notin DOMAIN l.data
      /\ DOMAIN l1.data = DOMAIN l.data \cup {n} /\ l1.data[n] = x
      /\ \A h \in DOMAIN l.data : l1.data[h] = l.data[h]
  BY AllocIs DEF Ledger
<1>3. g \in DOMAIN l.data /\ DOMAIN l = {"nblocks", "free", "data"}
  BY HeldIsInUse DEF Ledger, Table
<1>4. /\ DOMAIN L0 = {"nblocks", "free", "data"} /\ L0.nblocks = l.nblocks /\ L0.free = l.free
      /\ DOMAIN L0.data = DOMAIN l.data
      /\ \A h \in DOMAIN l.data \ {g} : L0.data[h] = l.data[h]
      /\ L0.data[g] = [l.data[g] EXCEPT !.sendlist = AP_list_append(@, n)]
  BY <1>3 DEF SendAdded
<1>5. Table(L0) /\ NewHandle(L0) = n
  BY <1>4 DEF Ledger, Table, NewHandle
<1>6. /\ DOMAIN L.data = DOMAIN L0.data \cup {n} /\ L.data[n] = x
      /\ \A h \in DOMAIN L0.data : L.data[h] = L0.data[h]
  <2> HIDE DEF n, x
  <2> QED
    BY <1>5, AllocIs
<1>7. DOMAIN L = {"nblocks", "free", "data"} /\ L.nblocks = l1.nblocks /\ L.free = l1.free
  BY <1>4 DEF mpi_alloc_handle
<1>8. x.complete = FALSE /\ x.tag = tag /\ x.buf = s /\ {"complete", "tag", "buf"} \subseteq DOMAIN x
  BY DEF Request
<1>9. rq1[s] = n /\ n # 0
  BY <1>2 DEF Ledger, Owners, Variables, Handle
<1> HIDE DEF n, x, l1, L, rq1
<1>10. SameTable(L, l1) /\ \A k \in DOMAIN l1.data \ {g, n} : L.data[k] = l1.data[k]
  BY <1>2, <1>4, <1>6, <1>7 DEF SameTable
<1>11. IsComm(l, g, rq) /\ HasLists(l.data[g]) /\ n \notin Waiting(l, g)
  BY <1>1 DEF Ledger, Queues, IsComm
<1>12. /\ {"sendlist", "recvlist"} \subseteq DOMAIN L.data[g]
       /\ L.data[g].recvlist = l.data[g].recvlist
       /\ L.data[g].sendlist = AP_list_append(list, n)
  BY <1>3, <1>4, <1>6, <1>11 DEF HasLists
<1>13. /\ AP_list_append(list, n) \in Seq(Handle) /\ IsInjective(AP_list_append(list, n))
       /\ ToSet(AP_list_append(list, n)) = ToSet(list) \cup {n}
  <2>1. list \in Seq(Handle) /\ IsInjective(list) /\ n \notin ToSet(list)
    BY <1>11 DEF HasLists, Waiting, Sends
  <2> HIDE DEF list
  <2> QED
    BY <1>2, <2>1, AppendedList
<1>14. HasLists(L.data[g])
  BY <1>11, <1>12, <1>13 DEF HasLists
<1>15. /\ Sends(l1, g) = Sends(l, g) /\ Recvs(l1, g) = Recvs(l, g)
       /\ Sends(L, g) = Sends(l, g) \cup {n} /\ Recvs(L, g) = Recvs(l, g)
  BY <1>2, <1>3, <1>12, <1>13 DEF Sends, Recvs
<1>16. \A d \in CommVars \ {c} : cm[d] # 0 => n \notin Waiting(l1, cm[d])
  <2> SUFFICES ASSUME NEW d \in CommVars \ {c}, cm[d] # 0 PROVE n \notin Waiting(l1, cm[d])
    OBVIOUS
  <2>1. l1.data[cm[d]] = l.data[cm[d]]
    BY <1>2, HeldIsInUse
  <2> QED
    BY <1>1, <2>1 DEF Waiting, Sends, Recvs
<1>17. ASSUME NEW y \in Recvs(L, g) PROVE n # y /\ ~ Fits(L, y, n)
  <2>1. y \in Recvs(l, g) /\ y # n
    BY <1>11, <1>15, <1>17 DEF Waiting
  <2>2. y \in DOMAIN l.data /\ y # g
    <3>1. PICK u \in Slots : rq[u] = y /\ y # 0
      BY <1>11, <2>1 DEF IsComm, Waiting
    <3> QED
      BY <3>1, HeldIsInUse DEF Ledger, Owners, Distinct
  <2>3. L.data[y] = l.data[y]
    BY <1>4, <1>6, <2>2
  <2>4. l.data[y].tag \notin {MPI_ANY_TAG, tag}
    BY <2>1
  <2> QED
    BY <1>6, <1>8, <2>1, <2>3, <2>4 DEF Fits
<1>18. \A xx \in Sends(L, g), y \in Recvs(L, g) : n \in {xx, y} => xx # y /\ ~ Fits(L, y, xx)
  BY <1>17
<1>19. /\ {"complete", "tag", "buf"} \subseteq DOMAIN L.data[n] /\ L.data[n].buf = s
       /\ L.data[n].complete = FALSE
  BY <1>6, <1>8
<1>20. Moves(L, l1, cm, rq1, c, s)
  BY <1>9, <1>10, <1>14, <1>15, <1>16, <1>18, <1>19 DEF Moves
<1>21. Ledger(L, cm, rq1, ty)
  BY <1>1, <1>20, Relisted
<1> QED
  BY <1>21 DEF L, x, rq1, n

\* A receive finds no send and waits.
LEMMA RecvListed ==
  ASSUME NEW l, NEW cm, NEW rq, NEW ty, Ledger(l, cm, rq, ty), NEW c \in CommVars, cm[c] # 0,
         NEW s \in Slots, rq[s] = 0, NEW tag,
         \A h \in Sends(l, cm[c]) : tag \notin {MPI_ANY_TAG, l.data[h].tag},
         NEW L0, L0 = RecvAdded(l, cm[c], NewHandle(l))
  PROVE  Ledger(mpi_alloc_handle(L0, Request(FALSE, tag, s)), cm,
                [rq EXCEPT ![s] = NewHandle(l)], ty)
<1> DEFINE g == cm[c]
           n == NewHandle(l)
           x == Request(FALSE, tag, s)
           l1 == mpi_alloc_handle(l, x)
           L == mpi_alloc_handle(L0, x)
           rq1 == [rq EXCEPT ![s] = n]
           list == l.data[g].recvlist
<1>1. /\ Ledger(l1, cm, rq1, ty)
      /\ \A d \in CommVars : cm[d] # 0 => n \notin Waiting(l, cm[d])
  BY RequestMade
<1>2. /\ n \in Handle /\ n \notin DOMAIN l.data
      /\ DOMAIN l1.data = DOMAIN l.data \cup {n} /\ l1.data[n] = x
      /\ \A h \in DOMAIN l.data : l1.data[h] = l.data[h]
  BY AllocIs DEF Ledger
<1>3. g \in DOMAIN l.data /\ DOMAIN l = {"nblocks", "free", "data"}
  BY HeldIsInUse DEF Ledger, Table
<1>4. /\ DOMAIN L0 = {"nblocks", "free", "data"} /\ L0.nblocks = l.nblocks /\ L0.free = l.free
      /\ DOMAIN L0.data = DOMAIN l.data
      /\ \A h \in DOMAIN l.data \ {g} : L0.data[h] = l.data[h]
      /\ L0.data[g] = [l.data[g] EXCEPT !.recvlist = AP_list_append(@, n)]
  BY <1>3 DEF RecvAdded
<1>5. Table(L0) /\ NewHandle(L0) = n
  BY <1>4 DEF Ledger, Table, NewHandle
<1>6. /\ DOMAIN L.data = DOMAIN L0.data \cup {n} /\ L.data[n] = x
      /\ \A h \in DOMAIN L0.data : L.data[h] = L0.data[h]
  <2> HIDE DEF n, x
  <2> QED
    BY <1>5, AllocIs
<1>7. DOMAIN L = {"nblocks", "free", "data"} /\ L.nblocks = l1.nblocks /\ L.free = l1.free
  BY <1>4 DEF mpi_alloc_handle
<1>8. x.complete = FALSE /\ x.tag = tag /\ x.buf = s /\ {"complete", "tag", "buf"} \subseteq DOMAIN x
  BY DEF Request
<1>9. rq1[s] = n /\ n # 0
  BY <1>2 DEF Ledger, Owners, Variables, Handle
<1> HIDE DEF n, x, l1, L, rq1
<1>10. SameTable(L, l1) /\ \A k \in DOMAIN l1.data \ {g, n} : L.data[k] = l1.data[k]
  BY <1>2, <1>4, <1>6, <1>7 DEF SameTable
<1>11. IsComm(l, g, rq) /\ HasLists(l.data[g]) /\ n \notin Waiting(l, g)
  BY <1>1 DEF Ledger, Queues, IsComm
<1>12. /\ {"sendlist", "recvlist"} \subseteq DOMAIN L.data[g]
       /\ L.data[g].sendlist = l.data[g].sendlist
       /\ L.data[g].recvlist = AP_list_append(list, n)
  BY <1>3, <1>4, <1>6, <1>11 DEF HasLists
<1>13. /\ AP_list_append(list, n) \in Seq(Handle) /\ IsInjective(AP_list_append(list, n))
       /\ ToSet(AP_list_append(list, n)) = ToSet(list) \cup {n}
  <2>1. list \in Seq(Handle) /\ IsInjective(list) /\ n \notin ToSet(list)
    BY <1>11 DEF HasLists, Waiting, Recvs
  <2> HIDE DEF list
  <2> QED
    BY <1>2, <2>1, AppendedList
<1>14. HasLists(L.data[g])
  BY <1>11, <1>12, <1>13 DEF HasLists
<1>15. /\ Sends(l1, g) = Sends(l, g) /\ Recvs(l1, g) = Recvs(l, g)
       /\ Recvs(L, g) = Recvs(l, g) \cup {n} /\ Sends(L, g) = Sends(l, g)
  BY <1>2, <1>3, <1>12, <1>13 DEF Sends, Recvs
<1>16. \A d \in CommVars \ {c} : cm[d] # 0 => n \notin Waiting(l1, cm[d])
  <2> SUFFICES ASSUME NEW d \in CommVars \ {c}, cm[d] # 0 PROVE n \notin Waiting(l1, cm[d])
    OBVIOUS
  <2>1. l1.data[cm[d]] = l.data[cm[d]]
    BY <1>2, HeldIsInUse
  <2> QED
    BY <1>1, <2>1 DEF Waiting, Sends, Recvs
<1>17. ASSUME NEW y \in Sends(L, g) PROVE n # y /\ ~ Fits(L, n, y)
  <2>1. y \in Sends(l, g) /\ y # n
    BY <1>11, <1>15, <1>17 DEF Waiting
  <2>2. y \in DOMAIN l.data /\ y # g
    <3>1. PICK u \in Slots : rq[u] = y /\ y # 0
      BY <1>11, <2>1 DEF IsComm, Waiting
    <3> QED
      BY <3>1, HeldIsInUse DEF Ledger, Owners, Distinct
  <2>3. L.data[y] = l.data[y]
    BY <1>4, <1>6, <2>2
  <2>4. tag \notin {MPI_ANY_TAG, l.data[y].tag}
    BY <2>1
  <2> QED
    BY <1>6, <1>8, <2>1, <2>3, <2>4 DEF Fits
<1>18. \A y \in Sends(L, g), xx \in Recvs(L, g) : n \in {y, xx} => y # xx /\ ~ Fits(L, xx, y)
  BY <1>17
<1>19. /\ {"complete", "tag", "buf"} \subseteq DOMAIN L.data[n] /\ L.data[n].buf = s
       /\ L.data[n].complete = FALSE
  BY <1>6, <1>8
<1>20. Moves(L, l1, cm, rq1, c, s)
  BY <1>9, <1>10, <1>14, <1>15, <1>16, <1>18, <1>19 DEF Moves
<1>21. Ledger(L, cm, rq1, ty)
  BY <1>1, <1>20, Relisted
<1> QED
  BY <1>21 DEF L, x, rq1, n

(***************************************************************************)
(* Tests, one after the other.                                             *)
(***************************************************************************)
\* What tests make of the requests
TestedOK(w) ==
  /\ DOMAIN w = {"lib", "req", "flag"} /\ w.flag \in BOOLEAN
  /\ Ledger(w.lib, comm, w.req, type)
  /\ \A s \in Slots : w.req[s] # 0 =>
       w.req[s] = req[s] /\ w.lib.data[w.req[s]] = lib.data[w.req[s]]

\* One MPI_Test keeps what the tests of a call have come to.
LEMMA TestKeeps ==
  ASSUME NEW w, TestedOK(w), NEW s \in Slots
  PROVE  TestedOK(MPI_Test(w, s))
<1>1. CASE w.req[s] = 0
  <2>1. MPI_Test(w, s) = [w EXCEPT !.flag = TRUE]
    BY <1>1 DEF MPI_Test
  <2> QED
    BY <2>1 DEF TestedOK
<1>2. CASE w.req[s] # 0 /\ lib.data[w.req[s]].complete
  <2> DEFINE h == w.req[s]
             L == mpi_free_handle(w.lib, h)
             after == [w.req EXCEPT ![s] = 0]
             W == MPI_Test(w, s)
  <2>1. W = [lib |-> L, req |-> after, flag |-> TRUE]
    BY <1>2 DEF MPI_Test
  <2>2. w.lib.data[h].complete /\ Ledger(w.lib, comm, w.req, type)
    BY <1>2 DEF TestedOK
  <2>3. Ledger(L, comm, after, type)
    BY <1>2, <2>2, RequestFreed
  <2>4. Table(w.lib) /\ h \in DOMAIN w.lib.data
    BY <1>2, <2>2, HeldIsInUse DEF Ledger
  <2>5. \A k \in DOMAIN w.lib.data \ {h} : L.data[k] = w.lib.data[k]
    <3> HIDE DEF h
    <3> QED
      BY <2>4, FreeIs
  <2>6. \A u \in Slots : after[u] = IF u = s THEN 0 ELSE w.req[u]
    BY <2>2 DEF Ledger, Owners, Variables
  <2> HIDE DEF L, after, W
  <2>7. ASSUME NEW u \in Slots, after[u] # 0
        PROVE  after[u] = req[u] /\ L.data[after[u]] = lib.data[after[u]]
    <3>1. after[u] = w.req[u] /\ u # s
      BY <2>6, <2>7
    <3>2. w.req[u] = req[u] /\ w.lib.data[w.req[u]] = lib.data[w.req[u]]
      BY <2>7, <3>1 DEF TestedOK
    <3>3. w.req[u] # h /\ w.req[u] \in DOMAIN w.lib.data
      BY <1>2, <2>2, <2>7, <3>1, HeldIsInUse DEF Ledger, Owners, Distinct
    <3> QED
      BY <2>5, <3>1, <3>2, <3>3
  <2>8. DOMAIN W = {"lib", "req", "flag"} /\ W.flag \in BOOLEAN /\ W.lib = L /\ W.req = after
    BY <2>1
  <2> QED
    BY <2>3, <2>7, <2>8 DEF TestedOK, W
<1>3. CASE w.req[s] # 0 /\ ~ lib.data[w.req[s]].complete
  <2>1. MPI_Test(w, s) = [w EXCEPT !.flag = FALSE]
    BY <1>3 DEF MPI_Test
  <2> QED
    BY <2>1 DEF TestedOK
<1> QED
  BY <1>1, <1>2, <1>3

\* Before the first test of a call
LEMMA UntestedOK ==
  ASSUME Ledger(lib, comm, req, type), NEW flag \in BOOLEAN
  PROVE  TestedOK(Untested(flag))
BY DEF TestedOK, Untested

\* One step of TestEach
TestOne(w, s, slots, goesOn) ==
  IF s \in slots /\ w.flag \in goesOn THEN MPI_Test(w, s) ELSE w

\* f[t] is what the tests of the slots t make of base.
Folds(f, n, base, slots, goesOn) ==
  f = [t \in SUBSET (1 .. n) |->
         IF t = {} THEN base ELSE TestOne(f[t \ {Max(t)}], Max(t), slots, goesOn)]

\* Max is in a set of numbers between 0 and n, and is above the others.
LEMMA MaxIsIn ==
  ASSUME NEW n \in Nat, NEW s \in SUBSET (0 .. n), s # {}
  PROVE  Max(s) \in s /\ \A x \in s : x <= Max(s)
<1> DEFINE T == {x \in Nat : \E y \in s : x = n - y}
<1>1. \A y \in s : y \in Int /\ 0 <= y /\ y <= n /\ n - y \in T
  OBVIOUS
<1>2. PICK x \in T : \A y \in T : x <= y
  BY <1>1, LeastNatural
<1>3. PICK z \in s : x = n - z
  BY <1>2
<1>4. \A y \in s : z >= y
  BY <1>1, <1>2, <1>3
<1>5. \E q \in s : \A y \in s : q >= y
  BY <1>4
<1> QED
  BY <1>1, <1>5 DEF Max

\* The largest of a set of places that holds the last one
LEMMA MaxOfUpTo ==
  ASSUME NEW n \in Nat, NEW s \in SUBSET (1 .. n), n \in s
  PROVE  Max(s) = n
<1>1. \A y \in s : y \in Int /\ n >= y
  OBVIOUS
<1>2. \A x \in s : (\A y \in s : x >= y) => x = n
  BY <1>1
<1> QED
  BY <1>1, <1>2 DEF Max

\* The fold exists for every number of slots.
LEMMA FoldExists ==
  ASSUME NEW N \in Nat, NEW base, NEW slots, NEW goesOn
  PROVE  \E f : Folds(f, N, base, slots, goesOn)
<1> DEFINE Some(m) == \E f : Folds(f, m, base, slots, goesOn)
           S == {m \in Nat : Some(m)}
<1>1. Some(0)
  <2> DEFINE f == [t \in SUBSET (1 .. 0) |-> base]
  <2>1. \A t \in SUBSET (1 .. 0) : t = {}
    OBVIOUS
  <2>2. f = [t \in SUBSET (1 .. 0) |->
               IF t = {} THEN base ELSE TestOne(f[t \ {Max(t)}], Max(t), slots, goesOn)]
    BY <2>1
  <2> HIDE DEF f
  <2>3. Folds(f, 0, base, slots, goesOn)
    BY <2>2 DEF Folds
  <2> QED
    BY <2>3
<1>2. ASSUME NEW m \in Nat, Some(m) PROVE Some(m + 1)
  <2>1. PICK f : Folds(f, m, base, slots, goesOn)
    BY <1>2
  <2> HIDE DEF Some
  <2> DEFINE fn == [t \in SUBSET (1 .. m + 1) |->
                      IF m + 1 \in t THEN TestOne(f[t \ {m + 1}], m + 1, slots, goesOn) ELSE f[t]]
  <2>2. ASSUME NEW t \in SUBSET (1 .. m + 1)
        PROVE  fn[t] = IF t = {} THEN base ELSE TestOne(fn[t \ {Max(t)}], Max(t), slots, goesOn)
    <3>1. CASE m + 1 \in t
      <4>1. m + 1 \in Nat
        OBVIOUS
      <4>2. Max(t) = m + 1
        BY <3>1, <4>1, MaxOfUpTo
      <4>3. t \ {m + 1} \in SUBSET (1 .. m + 1)
        OBVIOUS
      <4>4. fn[t \ {m + 1}] = f[t \ {m + 1}]
        BY <4>3
      <4>5. fn[t] = TestOne(f[t \ {m + 1}], m + 1, slots, goesOn)
        BY <3>1
      <4> HIDE DEF fn
      <4> QED
        BY <3>1, <4>2, <4>4, <4>5
    <3>2. CASE m + 1 \notin t
      <4>1. \A x \in t : x \in 1 .. m
        BY <3>2
      <4>2. t \in SUBSET (1 .. m)
        BY <4>1
      <4>3. fn[t] = f[t]
        BY <3>2
      <4>4. f[t] = IF t = {} THEN base ELSE TestOne(f[t \ {Max(t)}], Max(t), slots, goesOn)
        BY <2>1, <4>2 DEF Folds
      <4>5. ASSUME t # {} PROVE fn[t \ {Max(t)}] = f[t \ {Max(t)}]
        <5>1. t \ {Max(t)} \in SUBSET (1 .. m + 1) /\ m + 1 \notin t \ {Max(t)}
          BY <3>2
        <5> QED
          BY <5>1
      <4> HIDE DEF fn
      <4> QED
        BY <4>3, <4>4, <4>5
    <3> QED
      BY <3>1, <3>2
  <2>3. fn = [t \in SUBSET (1 .. m + 1) |-> fn[t]]
    OBVIOUS
  <2> HIDE DEF fn
  <2>4. Folds(fn, m + 1, base, slots, goesOn)
    BY <2>2, <2>3 DEF Folds
  <2> QED
    BY <2>4 DEF Some
<1> HIDE DEF Some
<1>3. \A m \in Nat : m \in S => m + 1 \in S
  BY <1>2
<1>4. 0 \in S
  BY <1>1
<1> HIDE DEF S
<1>5. N \in S
  BY <1>3, <1>4, InductionOnNat
<1> QED
  BY <1>5 DEF S, Some

\* However many slots are tested, and wherever the tests stop, the ledger is right.
LEMMA TestEachKeeps ==
  ASSUME Ledger(lib, comm, req, type), NEW slots, NEW flag \in BOOLEAN, NEW goesOn
  PROVE  TestedOK(TestEach(slots, flag, goesOn))
<1> DEFINE N == Cardinality(Slots)
           base == Untested(flag)
           Is(f) == f = [t \in SUBSET DOMAIN InOrder |->
                           IF t = {} THEN base
                           ELSE LET x == Max(t)
                                IN  IF InOrder[x] \in slots /\ f[t \ {x}].flag \in goesOn
                                    THEN MPI_Test(f[t \ {x}], InOrder[x]) ELSE f[t \ {x}]]
           iter == CHOOSE f : Is(f)
<1>1. N \in Nat /\ Slots = 1 .. N /\ DOMAIN InOrder = 1 .. N /\ \A x \in 1 .. N : InOrder[x] = x
  BY SerialAssumption, FS_CardinalityType DEF InOrder
<1>2. TestEach(slots, flag, goesOn) = iter[DOMAIN InOrder]
  BY DEF TestEach, FoldLeft, MapThenFoldSet
<1>3. TestedOK(base)
  BY UntestedOK
<1> HIDE DEF base, N
<1>4. PICK f : Folds(f, N, base, slots, goesOn)
  BY <1>1, FoldExists
<1>5. Is(f)
  <2>1. ASSUME NEW t \in SUBSET (1 .. N)
        PROVE  f[t] = IF t = {} THEN base
                      ELSE IF InOrder[Max(t)] \in slots /\ f[t \ {Max(t)}].flag \in goesOn
                           THEN MPI_Test(f[t \ {Max(t)}], InOrder[Max(t)]) ELSE f[t \ {Max(t)}]
    <3>1. f[t] = IF t = {} THEN base ELSE TestOne(f[t \ {Max(t)}], Max(t), slots, goesOn)
      BY <1>4 DEF Folds
    <3>2. ASSUME t # {} PROVE InOrder[Max(t)] = Max(t)
      <4>1. t \in SUBSET (0 .. N)
        BY <1>1
      <4>2. Max(t) \in 1 .. N
        BY <1>1, <3>2, <4>1, MaxIsIn
      <4> QED
        BY <1>1, <4>2
    <3> QED
      BY <3>1, <3>2 DEF TestOne
  <2>2. f = [t \in SUBSET (1 .. N) |-> f[t]]
    <3>1. f = [t \in SUBSET (1 .. N) |->
                 IF t = {} THEN base ELSE TestOne(f[t \ {Max(t)}], Max(t), slots, goesOn)]
      BY <1>4 DEF Folds
    <3> QED
      BY <3>1
  <2> QED
    BY <2>1, <2>2, <1>1
<1>6. Is(iter)
  <2> HIDE DEF Is
  <2> QED
    BY <1>5
<1> HIDE DEF iter
<1>7. ASSUME NEW t \in SUBSET (1 .. N)
      PROVE  iter[t] = IF t = {} THEN base
                       ELSE IF InOrder[Max(t)] \in slots /\ iter[t \ {Max(t)}].flag \in goesOn
                            THEN MPI_Test(iter[t \ {Max(t)}], InOrder[Max(t)])
                            ELSE iter[t \ {Max(t)}]
  BY <1>1, <1>6
<1> HIDE DEF Is
<1> DEFINE S == {k \in Nat : k <= N => TestedOK(iter[1 .. k])}
<1>8. 0 \in S
  <2>1. 1 .. 0 = {} /\ 1 .. 0 \in SUBSET (1 .. N)
    OBVIOUS
  <2>2. iter[1 .. 0] = base
    BY <1>7, <2>1
  <2> QED
    BY <1>3, <2>2
<1>9. ASSUME NEW k \in Nat, k \in S PROVE k + 1 \in S
  <2> SUFFICES ASSUME k + 1 <= N PROVE TestedOK(iter[1 .. k + 1])
    OBVIOUS
  <2> DEFINE t == 1 .. k + 1
  <2>1. t \in SUBSET (1 .. N) /\ t # {} /\ k + 1 \in t /\ k + 1 \in Nat /\ k + 1 \in 1 .. N
    <3>1. N \in Nat /\ k \in Nat /\ k + 1 <= N
      BY <1>1
    <3>2. \A x \in t : x \in 1 .. N
      BY <3>1
    <3>3. t \in SUBSET (1 .. N)
      BY <3>2
    <3>4. k + 1 \in t /\ k + 1 \in Nat /\ k + 1 \in 1 .. N
      BY <3>1
    <3> QED
      BY <3>3, <3>4
  <2>2. Max(t) = k + 1
    BY <2>1, MaxOfUpTo
  <2>3. t \ {k + 1} = 1 .. k
    OBVIOUS
  <2>4. TestedOK(iter[1 .. k])
    <3>1. k <= N
      BY <1>1
    <3> QED
      BY <1>9, <3>1
  <2>5. k + 1 \in Slots /\ InOrder[k + 1] = k + 1
    BY <1>1, <2>1
  <2> HIDE DEF t
  <2>6. iter[t] = IF k + 1 \in slots /\ iter[1 .. k].flag \in goesOn
                  THEN MPI_Test(iter[1 .. k], k + 1) ELSE iter[1 .. k]
    BY <1>7, <2>1, <2>2, <2>3, <2>5
  <2>7. TestedOK(MPI_Test(iter[1 .. k], k + 1))
    BY <2>4, <2>5, TestKeeps
  <2> QED
    BY <2>4, <2>6, <2>7 DEF t
<1> HIDE DEF S
<1>10. N \in S
  BY <1>1, <1>8, <1>9, InductionOnNat
<1> QED
  BY <1>1, <1>2, <1>10 DEF S

(***************************************************************************)
(* The calls.                                                              *)
(***************************************************************************)
Requesting == {"MPI_Isend", "MPI_Irsend", "MPI_Irecv"}

\* The variables a call names are there for it.
Ready(op, cm, rq) ==
  /\ op.op \in Requesting =>
       op.c \in CommVars /\ cm[op.c] # 0 /\ op.s \in Slots /\ rq[op.s] = 0
  /\ op.op \in {"MPI_Test", "MPI_Wait", "MPI_Request_free"} => op.s \in Slots
  /\ op.op = "MPI_Comm_free" => op.c \in CommVars
  /\ Into(op) => op.new \in CommVars
  /\ op.op \in Constructors \cup {"MPI_Type_commit", "MPI_Type_free"} => op.new \in TypeVars

Now == Ledger(lib, comm, req, type)
Posts(op) == op.c \in CommVars /\ comm[op.c] # 0 /\ op.s \in Slots /\ req[op.s] = 0

\* A call that ends the program changes no handle.
LEMMA AbortKeeps ==
  ASSUME Now, Abort
  PROVE  Now'
BY DEF Now, Abort, commVars, typeVars, slotVars

\* The lists of a communicator that is there
LEMMA ListsThere ==
  ASSUME Now, NEW c \in CommVars, comm[c] # 0
  PROVE  lib.data[comm[c]].sendlist \in Seq(Handle) /\ lib.data[comm[c]].recvlist \in Seq(Handle)
BY DEF Now, Ledger, Queues, IsComm, HasLists

\* The place a send finds in the list of receives, if none is found there is none
LEMMA WantingIs ==
  ASSUME Now, NEW op, op.c \in CommVars, comm[op.c] # 0
  PROVE  IF Wanting(op) = 0
         THEN \A r \in Recvs(lib, comm[op.c]) : lib.data[r].tag \notin {MPI_ANY_TAG, op.tag}
         ELSE Wanting(op) \in 1 .. Len(lib.data[comm[op.c]].recvlist)
<1> DEFINE list == lib.data[comm[op.c]].recvlist
           accepted == {h \in ToSet(list) : mpi_match_recv(h, op.tag)}
<1>1. list \in Seq(Handle)
  BY ListsThere
<1>2. Wanting(op) = AP_list_search_func(list, accepted)
  BY DEF Wanting
<1>3. ToSet(list) = Recvs(lib, comm[op.c])
  BY DEF Recvs
<1>4. \A h \in ToSet(list) : h \notin accepted => lib.data[h].tag \notin {MPI_ANY_TAG, op.tag}
  BY DEF mpi_match_recv
<1> HIDE DEF list, accepted
<1>5. IF Wanting(op) = 0 THEN ToSet(list) \cap accepted = {} ELSE Wanting(op) \in 1 .. Len(list)
  BY <1>1, <1>2, SearchIs
<1> QED
  BY <1>3, <1>4, <1>5 DEF list

\* The place a receive finds in the list of sends, if none is found there is none
LEMMA SentIs ==
  ASSUME Now, NEW op, op.c \in CommVars, comm[op.c] # 0
  PROVE  IF Sent(op) = 0
         THEN \A h \in Sends(lib, comm[op.c]) : op.tag \notin {MPI_ANY_TAG, lib.data[h].tag}
         ELSE Sent(op) \in 1 .. Len(lib.data[comm[op.c]].sendlist)
<1> DEFINE list == lib.data[comm[op.c]].sendlist
           accepted == {h \in ToSet(list) : mpi_match_send(h, op.tag)}
<1>1. list \in Seq(Handle)
  BY ListsThere
<1>2. Sent(op) = AP_list_search_func(list, accepted)
  BY DEF Sent
<1>3. ToSet(list) = Sends(lib, comm[op.c])
  BY DEF Sends
<1>4. \A h \in ToSet(list) : h \notin accepted => op.tag \notin {MPI_ANY_TAG, lib.data[h].tag}
  BY DEF mpi_match_send
<1> HIDE DEF list, accepted
<1>5. IF Sent(op) = 0 THEN ToSet(list) \cap accepted = {} ELSE Sent(op) \in 1 .. Len(list)
  BY <1>1, <1>2, SearchIs
<1> QED
  BY <1>3, <1>4, <1>5 DEF list

\* A receive that waits is taken out of the list.
LEMMA MeetsRecv ==
  ASSUME Now, NEW c \in CommVars, comm[c] # 0,
         NEW k \in 1 .. Len(lib.data[comm[c]].recvlist), NEW tag
  PROVE  /\ Ledger(RecvTaken(lib, comm[c], k, tag), comm, req, type)
         /\ NewHandle(RecvTaken(lib, comm[c], k, tag)) = NewHandle(lib)
BY SendMet DEF Now

\* A send: listed, or met by a receive that waited, or to nobody
LEMMA PostSendKeeps ==
  ASSUME Now, NEW op, Posts(op), PostSend(op)
  PROVE  Now'
<1> DEFINE g == comm[op.c]
           k == Wanting(op)
           r == lib.data[g].recvlist[k]
           n == NewHandle(lib)
           rq1 == [req EXCEPT ![op.s] = n]
<1>1. req' = rq1 /\ comm' = comm /\ type' = type
  BY DEF PostSend, commVars, typeVars
<1>2. op.c \in CommVars /\ g # 0 /\ op.s \in Slots /\ req[op.s] = 0
  BY DEF Posts
<1>3. Ledger(lib, comm, req, type)
  BY DEF Now
<1>4. CASE op.rank = MPI_PROC_NULL
  <2>1. lib' = mpi_alloc_handle(lib, Request(TRUE, Stale, op.s))
    BY <1>4 DEF PostSend, AtOnce
  <2>2. Ledger(lib', comm, rq1, type)
    BY <1>2, <1>3, <2>1, RequestMade
  <2> QED
    BY <1>1, <2>2 DEF Now
<1>5. CASE op.rank # MPI_PROC_NULL /\ k = 0
  <2> DEFINE L0 == SendAdded(lib, g, n)
  <2>1. lib' = mpi_alloc_handle(L0, Request(FALSE, op.tag, op.s))
    BY <1>5 DEF PostSend, SendAdded
  <2>2. \A h \in Recvs(lib, g) : lib.data[h].tag \notin {MPI_ANY_TAG, op.tag}
    BY <1>2, <1>5, WantingIs
  <2> HIDE DEF L0
  <2>3. Ledger(lib', comm, rq1, type)
    BY <1>2, <1>3, <2>1, <2>2, SendListed DEF L0
  <2> QED
    BY <1>1, <2>3 DEF Now
<1>6. CASE op.rank # MPI_PROC_NULL /\ k # 0
  <2> DEFINE L0 == RecvTaken(lib, g, k, op.tag)
  <2>1. lib' = mpi_alloc_handle(L0, Request(TRUE, Stale, op.s))
    BY <1>6 DEF PostSend, RecvTaken
  <2>2. k \in 1 .. Len(lib.data[g].recvlist)
    BY <1>2, <1>6, WantingIs
  <2>3. Ledger(L0, comm, req, type) /\ NewHandle(L0) = n
    BY <1>2, <2>2, MeetsRecv DEF Now
  <2> HIDE DEF L0
  <2>4. Ledger(lib', comm, [req EXCEPT ![op.s] = NewHandle(L0)], type)
    BY <1>2, <2>1, <2>3, RequestMade
  <2> QED
    BY <1>1, <2>3, <2>4 DEF Now
<1> QED
  BY <1>4, <1>5, <1>6

\* A receive: listed, or met by a send that waited, or from nobody
LEMMA IrecvKeeps ==
  ASSUME Now, NEW op, Posts(op), MPI_Irecv(op)
  PROVE  Now'
<1> DEFINE g == comm[op.c]
           k == Sent(op)
           r == lib.data[g].sendlist[k]
           n == NewHandle(lib)
           rq1 == [req EXCEPT ![op.s] = n]
<1>0. CASE Refuses(op, k)
  BY <1>0, AbortKeeps DEF MPI_Irecv
<1> SUFFICES ASSUME ~ Refuses(op, k) PROVE Now'
  BY <1>0
<1>1. req' = rq1 /\ comm' = comm /\ type' = type
  BY DEF MPI_Irecv, commVars, typeVars
<1>2. op.c \in CommVars /\ g # 0 /\ op.s \in Slots /\ req[op.s] = 0
  BY DEF Posts
<1>3. Ledger(lib, comm, req, type)
  BY DEF Now
<1>4. CASE op.rank = MPI_PROC_NULL
  <2>1. lib' = mpi_alloc_handle(lib, Request(TRUE, MPI_ANY_TAG, op.s))
    BY <1>4 DEF MPI_Irecv, AtOnce
  <2>2. Ledger(lib', comm, rq1, type)
    BY <1>2, <1>3, <2>1, RequestMade
  <2> QED
    BY <1>1, <2>2 DEF Now
<1>5. CASE op.rank # MPI_PROC_NULL /\ k = 0
  <2> DEFINE L0 == RecvAdded(lib, g, n)
  <2>1. lib' = mpi_alloc_handle(L0, Request(FALSE, op.tag, op.s))
    BY <1>5 DEF MPI_Irecv, RecvAdded
  <2>2. \A h \in Sends(lib, g) : op.tag \notin {MPI_ANY_TAG, lib.data[h].tag}
    BY <1>2, <1>5, SentIs
  <2> HIDE DEF L0
  <2>3. Ledger(lib', comm, rq1, type)
    BY <1>2, <1>3, <2>1, <2>2, RecvListed DEF L0
  <2> QED
    BY <1>1, <2>3 DEF Now
<1>6. CASE op.rank # MPI_PROC_NULL /\ k # 0
  <2> DEFINE L0 == SendTaken(lib, g, k)
  <2>1. lib' = mpi_alloc_handle(L0, Request(TRUE, lib.data[r].tag, op.s))
    BY <1>6 DEF MPI_Irecv, SendTaken
  <2>2. k \in 1 .. Len(lib.data[g].sendlist)
    BY <1>2, <1>6, SentIs
  <2>3. Ledger(L0, comm, req, type) /\ NewHandle(L0) = n
    <3> HIDE DEF k
    <3> QED
      BY <1>2, <1>3, <2>2, RecvMet
  <2> HIDE DEF L0
  <2>4. Ledger(lib', comm, [req EXCEPT ![op.s] = NewHandle(L0)], type)
    BY <1>2, <2>1, <2>3, RequestMade
  <2> QED
    BY <1>1, <2>3, <2>4 DEF Now
<1> QED
  BY <1>4, <1>5, <1>6

\* The tests of a call, taken over
LEMMA TestedKeeps ==
  ASSUME Now, NEW w, TestedOK(w), NEW how, NEW slots, NEW waits, Tested(w, how, slots, waits)
  PROVE  Now'
BY DEF Now, TestedOK, Tested, commVars, typeVars

\* Tests, waits and MPI_Request_free
LEMMA LooksKeep ==
  ASSUME Now, NEW op, Ready(op, comm, req),
         \/ MPI_Wait(op) \/ MPI_Waitany(op) \/ Testall(op) \/ Waitall(op) \/ MPI_Waitsome(op)
         \/ MPI_Request_free(op)
  PROVE  Now'
<1>0. Ledger(lib, comm, req, type)
  BY DEF Now
<1>1. CASE MPI_Wait(op)
  <2>1. op.s \in Slots /\ TestedOK(Untested(FALSE))
    BY <1>0, <1>1, UntestedOK DEF Ready, MPI_Wait
  <2>2. TestedOK(MPI_Test(Untested(FALSE), op.s))
    BY <2>1, TestKeeps
  <2> QED
    BY <1>1, <2>2, TestedKeeps DEF MPI_Wait
<1>2. CASE MPI_Waitany(op)
  <2>1. TestedOK(MPI_Testany(op.slots))
    BY <1>0, TestEachKeeps DEF MPI_Testany
  <2> QED
    BY <1>2, <2>1, TestedKeeps DEF MPI_Waitany
<1>3. CASE Testall(op)
  <2>1. TestedOK(MPI_Testall(op.slots))
    BY <1>0, TestEachKeeps DEF MPI_Testall
  <2> QED
    BY <1>3, <2>1, TestedKeeps DEF Testall
<1>4. CASE Waitall(op)
  <2>1. TestedOK(MPI_Waitall(op.slots))
    BY <1>0, TestEachKeeps DEF MPI_Waitall
  <2> QED
    BY <1>4, <2>1, TestedKeeps DEF Waitall
<1>5. CASE MPI_Waitsome(op)
  <2>1. TestedOK(MPI_Testsome(op.slots))
    BY <1>0, TestEachKeeps DEF MPI_Testsome
  <2> QED
    BY <1>5, <2>1, TestedKeeps DEF MPI_Waitsome
<1>6. CASE MPI_Request_free(op)
  <2>1. op.s \in Slots
    BY <1>6 DEF Ready, MPI_Request_free
  <2>2. /\ lib' = mpi_free_handle(lib, req[op.s]) /\ req' = [req EXCEPT ![op.s] = 0]
        /\ comm' = comm /\ type' = type
        /\ req[op.s] # 0 => lib.data[req[op.s]].complete
    BY <1>6 DEF MPI_Request_free, Tested, commVars, typeVars
  <2>3. CASE req[op.s] = 0
    <3>1. lib' = lib /\ req' = req
      BY <1>0, <2>1, <2>2, <2>3 DEF mpi_free_handle, Ledger, Owners, Variables
    <3> QED
      BY <2>2, <3>1 DEF Now
  <2>4. CASE req[op.s] # 0
    <3>1. Ledger(mpi_free_handle(lib, req[op.s]), comm, [req EXCEPT ![op.s] = 0], type)
      BY <1>0, <2>1, <2>2, <2>4, RequestFreed
    <3> QED
      BY <2>2, <3>1 DEF Now
  <2> QED
    BY <2>3, <2>4
<1> QED
  BY <1>1, <1>2, <1>3, <1>4, <1>5, <1>6

\* Communicators made and freed
LEMMA CommsKeep ==
  ASSUME Now, NEW op, Ready(op, comm, req), MPI_Comm_create(op) \/ MPI_Comm_free(op)
  PROVE  Now'
<1>0. Ledger(lib, comm, req, type)
  BY DEF Now
<1>1. CASE MPI_Comm_create(op)
  <2>1. op.new \in CommVars /\ comm[op.new] = 0
    BY <1>1 DEF Ready, MPI_Comm_create
  <2>2. CASE Abort
    BY <2>2, AbortKeeps
  <2>3. CASE ~ Abort /\ Creates(op)
    <3>1. /\ lib' = mpi_comm_new(lib) /\ comm' = [comm EXCEPT ![op.new] = NewHandle(lib)]
          /\ req' = req /\ type' = type
      BY <1>1, <2>3 DEF MPI_Comm_create, typeVars, slotVars
    <3>2. Ledger(mpi_comm_new(lib), [comm EXCEPT ![op.new] = NewHandle(lib)], req, type)
      BY <1>0, <2>1, CommMade
    <3> QED
      BY <3>1, <3>2 DEF Now
  <2>4. CASE ~ Abort /\ ~ Creates(op)
    <3>1. lib' = lib /\ comm' = [comm EXCEPT ![op.new] = 0] /\ req' = req /\ type' = type
      BY <1>1, <2>4 DEF MPI_Comm_create, typeVars, slotVars
    <3>2. comm' = comm
      BY <1>0, <2>1, <3>1 DEF Ledger, Owners, Variables
    <3> QED
      BY <3>1, <3>2 DEF Now
  <2> QED
    BY <2>2, <2>3, <2>4
<1>2. CASE MPI_Comm_free(op)
  <2>1. op.c \in CommVars /\ comm[op.c] # 0
    BY <1>2 DEF Ready, MPI_Comm_free
  <2>2. /\ lib' = mpi_free_handle(lib, comm[op.c]) /\ comm' = [comm EXCEPT ![op.c] = 0]
        /\ req' = req /\ type' = type
    BY <1>2 DEF MPI_Comm_free, typeVars, slotVars
  <2>3. Ledger(mpi_free_handle(lib, comm[op.c]), [comm EXCEPT ![op.c] = 0], req, type)
    BY <1>0, <2>1, CommFreed
  <2> QED
    BY <2>2, <2>3 DEF Now
<1> QED
  BY <1>1, <1>2

\* A datatype is marked as committed: nothing of a communicator or a request
LEMMA CommitKeeps ==
  ASSUME Now, NEW op, op.new \in TypeVars, MPI_Type_commit(op)
  PROVE  Now'
<1> DEFINE h == type[op.new]
<1>0. Ledger(lib, comm, req, type)
  BY DEF Now
<1>1. h # 0 /\ h \in DOMAIN lib.data /\ DOMAIN lib = {"nblocks", "free", "data"}
  BY <1>0, HeldIsInUse DEF MPI_Type_commit, Ledger, Table
<1>2. /\ lib' = [lib EXCEPT !.data[h].type.committed = TRUE]
      /\ comm' = comm /\ req' = req /\ type' = type
  BY DEF MPI_Type_commit, commVars, typeVars, slotVars
<1>3. /\ SameTable(lib', lib) /\ \A k \in DOMAIN lib.data \ {h} : lib'.data[k] = lib.data[k]
  BY <1>1, <1>2 DEF SameTable
<1>4. Table(lib') /\ DOMAIN lib'.data = DOMAIN lib.data
  BY <1>0, <1>3 DEF SameTable, Ledger, Table
<1>5. /\ \A c \in CommVars : comm[c] # 0 => comm[c] \in DOMAIN lib.data \ {h}
      /\ \A s \in Slots : req[s] # 0 => req[s] \in DOMAIN lib.data \ {h}
  BY <1>0, <1>1, HeldIsInUse DEF Ledger, Owners, Distinct
<1> HIDE DEF h
<1>6. Queues(lib', comm, req)
  BY <1>0, <1>3, <1>5, QueuesStay
<1>7. Requests(lib', req)
  BY <1>0, <1>3, <1>5 DEF Ledger, Requests
<1> QED
  BY <1>0, <1>2, <1>4, <1>6, <1>7 DEF Now, Ledger

\* Datatypes made, committed and freed
LEMMA TypesKeep ==
  ASSUME Now, NEW op, Ready(op, comm, req),
         \/ \E stale \in Garbage : MPI_Type_make(op, stale)
         \/ MPI_Type_commit(op) \/ MPI_Type_free(op)
  PROVE  Now'
<1>0. Ledger(lib, comm, req, type)
  BY DEF Now
<1>1. ASSUME NEW stale \in Garbage, MPI_Type_make(op, stale) PROVE Now'
  <2>1. op.new \in TypeVars /\ type[op.new] = 0
    BY <1>1 DEF Ready, MPI_Type_make
  <2>2. CASE Abort
    BY <2>2, AbortKeeps
  <2>3. CASE ~ Abort
    <3> DEFINE x == [kind |-> "type", type |-> Constructed(op, stale)]
    <3>1. /\ lib' = mpi_alloc_handle(lib, x)
          /\ type' = [type EXCEPT ![op.new] = NewHandle(lib)]
          /\ comm' = comm /\ req' = req
      BY <1>1, <2>3 DEF MPI_Type_make, commVars, slotVars
    <3> HIDE DEF x
    <3>2. Ledger(mpi_alloc_handle(lib, x), comm, req, [type EXCEPT ![op.new] = NewHandle(lib)])
      BY <1>0, <2>1, TypeMade
    <3> QED
      BY <3>1, <3>2 DEF Now
  <2> QED
    BY <2>2, <2>3
<1>2. CASE MPI_Type_commit(op)
  <2>1. op.new \in TypeVars
    BY <1>2 DEF Ready, MPI_Type_commit
  <2> QED
    BY <1>2, <2>1, CommitKeeps
<1>3. CASE MPI_Type_free(op)
  <2>1. op.new \in TypeVars /\ type[op.new] # 0
    BY <1>3 DEF Ready, MPI_Type_free
  <2>2. /\ lib' = mpi_free_handle(lib, type[op.new]) /\ type' = [type EXCEPT ![op.new] = 0]
        /\ comm' = comm /\ req' = req
    BY <1>3 DEF MPI_Type_free, commVars, slotVars
  <2>3. Ledger(mpi_free_handle(lib, type[op.new]), comm, req, [type EXCEPT ![op.new] = 0])
    BY <1>0, <2>1, TypeFreed
  <2> QED
    BY <2>2, <2>3 DEF Now
<1> QED
  BY <1>1, <1>2, <1>3

\* The other calls leave the table and the variables alone.
LEMMA OthersKeep ==
  ASSUME Now, NEW op,
         \/ MPI_Iprobe(op) \/ Collective(op) \/ MPI_Pack(op) \/ MPI_Unpack(op) \/ Take(op)
         \/ MPI_Group(op)
  PROVE  Now'
<1>1. Abort \/ (lib' = lib /\ comm' = comm /\ req' = req /\ type' = type)
  <2>1. CASE MPI_Iprobe(op)
    BY <2>1 DEF MPI_Iprobe, commVars, typeVars, slotVars
  <2>2. CASE Collective(op)
    BY <2>2 DEF Collective, commVars, typeVars
  <2>3. CASE MPI_Pack(op)
    BY <2>3 DEF MPI_Pack, commVars, typeVars
  <2>4. CASE MPI_Unpack(op)
    BY <2>4 DEF MPI_Unpack, commVars, typeVars
  <2>5. CASE Take(op)
    BY <2>5 DEF Take, commVars, typeVars
  <2>6. CASE MPI_Group(op)
    BY <2>6 DEF MPI_Group, typeVars, slotVars
  <2> QED
    BY <2>1, <2>2, <2>3, <2>4, <2>5, <2>6
<1> QED
  BY <1>1, AbortKeeps DEF Now

\* Every call keeps the ledger.
LEMMA PerformKeeps ==
  ASSUME Now, NEW op, Ready(op, comm, req), Perform(op)
  PROVE  Now'
<1>1. CASE MPI_Isend(op)
  <2>1. Posts(op)
    BY <1>1 DEF MPI_Isend, Ready, Requesting, Posts
  <2> QED
    BY <1>1, <2>1, AbortKeeps, PostSendKeeps DEF MPI_Isend
<1>2. CASE MPI_Irsend(op)
  <2>1. Posts(op)
    BY <1>2 DEF MPI_Irsend, Ready, Requesting, Posts
  <2> QED
    BY <1>2, <2>1, AbortKeeps, PostSendKeeps DEF MPI_Irsend
<1>3. CASE MPI_Irecv(op)
  <2>1. Posts(op)
    BY <1>3 DEF MPI_Irecv, Ready, Requesting, Posts
  <2> QED
    BY <1>3, <2>1, IrecvKeeps
<1>4. CASE \/ MPI_Iprobe(op) \/ Collective(op) \/ MPI_Pack(op) \/ MPI_Unpack(op) \/ Take(op)
           \/ MPI_Group(op)
  BY <1>4, OthersKeep
<1>5. CASE \/ MPI_Wait(op) \/ MPI_Waitany(op) \/ Testall(op) \/ Waitall(op) \/ MPI_Waitsome(op)
           \/ MPI_Request_free(op)
  BY <1>5, LooksKeep
<1>6. CASE MPI_Comm_create(op) \/ MPI_Comm_free(op)
  BY <1>6, CommsKeep
<1>7. CASE \/ \E stale \in Garbage : MPI_Type_make(op, stale)
           \/ MPI_Type_commit(op) \/ MPI_Type_free(op)
  BY <1>7, TypesKeep
<1> QED
  BY <1>1, <1>2, <1>3, <1>4, <1>5, <1>6, <1>7 DEF Perform

(***************************************************************************)
(* The program.                                                            *)
(***************************************************************************)
\* The calls that follow in a composite one
Rest == {Taken} \cup {WaitFor(s) : s \in Slots}

TodoOK(td, cm, rq) ==
  \/ td \in Seq(Rest)
  \/ Head(td).op = "MPI_Isend" /\ Ready(Head(td), cm, rq) /\ Tail(td) \in Seq(Rest)

PlanOK == "offered" \in DOMAIN plan /\ \A op \in plan.offered : \E p \in Plans : op \in p.offered

IInv == Now /\ PlanOK /\ TodoOK(todo, comm, req)

\* The first idle slots are idle slots, if there are as many.
LEMMA IdleSlots ==
  /\ Cardinality(Idle) >= 1 => First \in Slots /\ req[First] = 0
  /\ Cardinality(Idle) >= 2 => Second \in Slots /\ req[Second] = 0 /\ Second # First
<1>1. Idle \subseteq Nat /\ IsFiniteSet(Idle)
  <2>1. Cardinality(Slots) \in Nat
    BY SerialAssumption, FS_CardinalityType
  <2>2. Slots \subseteq Nat /\ IsFiniteSet(Slots)
    BY <2>1, SerialAssumption
  <2>3. Idle \in SUBSET Slots
    BY DEF Idle
  <2> QED
    BY <2>2, <2>3, FS_Subset
<1>2. Cardinality(Idle) \in Nat
  BY <1>1, FS_CardinalityType
<1>3. ASSUME Cardinality(Idle) >= 1 PROVE First \in Idle
  <2>1. Idle # {}
    BY <1>3, FS_EmptySet
  <2> QED
    BY <1>1, <2>1, MinIsIn DEF First
<1>4. ASSUME Cardinality(Idle) >= 2 PROVE Second \in Idle \ {First}
  <2>1. First \in Idle
    BY <1>2, <1>3, <1>4
  <2>2. Cardinality(Idle \ {First}) = Cardinality(Idle) - 1
    BY <1>1, <2>1, FS_RemoveElement
  <2>3. Idle \ {First} # {}
    <3>1. Cardinality(Idle \ {First}) # 0
      BY <1>2, <1>4, <2>2
    <3> QED
      BY <3>1, FS_EmptySet
  <2> QED
    BY <1>1, <2>3, MinIsIn DEF Second
<1> QED
  BY <1>3, <1>4 DEF Idle

\* A call with its slot filled in
LEMMA AtIs ==
  ASSUME NEW op, "op" \in DOMAIN op, NEW name, NEW s
  PROVE  /\ At(name, s, op).op = name /\ At(name, s, op).s = s
         /\ "c" \in DOMAIN op => At(name, s, op).c = op.c
         /\ {"op", "s"} \cup DOMAIN op \subseteq DOMAIN At(name, s, op)
BY DEF At, With

\* A wait for a slot and the end of a use of a buffer can always be carried out.
LEMMA RestIs ==
  /\ \A s \in Slots : WaitFor(s) \in Rest
  /\ Taken \in Rest /\ <<>> \in Seq(Rest)
  /\ \A op \in Rest : \A cm, rq : Ready(op, cm, rq)
<1>1. Taken \in Rest /\ \A s \in Slots : WaitFor(s) \in Rest
  BY DEF Rest
<1>2. \A cm, rq : Ready(Taken, cm, rq)
  BY DEF Ready, Requesting, Into, Constructors, Taken
<1>3. \A s \in Slots : \A cm, rq : Ready(WaitFor(s), cm, rq)
  BY DEF Ready, Requesting, Into, Constructors, WaitFor
<1> QED
  BY <1>1, <1>2, <1>3 DEF Rest

\* What a call is made of can be carried out.
ScriptOK(op) ==
  /\ Ready(Head(Script(op)), comm, req)
  /\ \/ Tail(Script(op)) \in Seq(Rest)
     \/ LET first == Head(Script(op))
            second == Head(Tail(Script(op)))
        IN  /\ first.op = "MPI_Irecv"
            /\ second.op = "MPI_Isend" /\ Ready(second, comm, req) /\ second.s # first.s
            /\ Tail(Tail(Script(op))) \in Seq(Rest)

\* Every call of a plan is made of calls that can be carried out.
LEMMA ScriptIs ==
  ASSUME PlanOK, NEW op \in plan.offered, Fit(op)
  PROVE  ScriptOK(op)
<1>1. PICK p \in Plans : op \in p.offered
  BY DEF PlanOK
<1>2. /\ "op" \in DOMAIN op
      /\ op.op \in Posting => "c" \in DOMAIN op /\ op.c \in CommVars
      /\ op.op \in {"MPI_Test", "MPI_Wait", "MPI_Request_free"} => op.s \in Slots
      /\ op.op = "MPI_Comm_free" => op.c \in CommVars
      /\ Into(op) => op.new \in CommVars
      /\ op.op \in Constructors \cup {"MPI_Type_commit", "MPI_Type_free"} => op.new \in TypeVars
  BY <1>1, PlansAssumption
<1>3. ASSUME op.op \in Posting
      PROVE  /\ "c" \in DOMAIN op /\ op.c \in CommVars /\ comm[op.c] # 0
             /\ First \in Slots /\ req[First] = 0
             /\ op.op = "MPI_Sendrecv" => Second \in Slots /\ req[Second] = 0 /\ Second # First
  <2>1. op.op \notin Collectives
    BY <1>3 DEF Posting, Collectives, Copying, Reducing
  <2>2. Needs(op) = IF op.op = "MPI_Sendrecv" THEN 2 ELSE 1
    BY <1>3, <2>1 DEF Needs
  <2>3. Cardinality(Idle) >= Needs(op) /\ ("c" \in DOMAIN op => comm[op.c] # 0)
    BY <2>2 DEF Fit
  <2>4. Cardinality(Idle) \in Nat
    <3>1. Idle \in SUBSET Slots
      BY DEF Idle
    <3> QED
      BY <3>1, SerialAssumption, FS_Subset, FS_CardinalityType
  <2>5. Cardinality(Idle) >= 1 /\ (op.op = "MPI_Sendrecv" => Cardinality(Idle) >= 2)
    BY <2>2, <2>3, <2>4
  <2> QED
    BY <1>2, <1>3, <2>3, <2>5, IdleSlots
<1>4. ASSUME op.op \in Posting, NEW name \in Requesting, NEW s \in Slots, req[s] = 0
      PROVE  Ready(At(name, s, op), comm, req)
  <2>1. /\ At(name, s, op).op = name /\ At(name, s, op).s = s /\ At(name, s, op).c = op.c
    BY <1>2, <1>3, <1>4, AtIs
  <2> QED
    BY <1>3, <1>4, <2>1 DEF Ready, Requesting, Into, Constructors
<1>5. \A a, b : Head(<<a, b>>) = a /\ Tail(<<a, b>>) = <<b>>
  OBVIOUS
<1>6. \A a : Head(<<a>>) = a /\ Tail(<<a>>) = <<>>
  OBVIOUS
<1>7. CASE op.op \in {"MPI_Send", "MPI_Ssend", "MPI_Rsend"}
  <2>1. Script(op) = <<At("MPI_Isend", First, op), WaitFor(First)>>
    BY <1>7 DEF Script, MPI_Send, Collectives, Copying, Reducing
  <2>2. op.op \in Posting
    BY <1>7 DEF Posting
  <2>3. Ready(At("MPI_Isend", First, op), comm, req) /\ <<WaitFor(First)>> \in Seq(Rest)
    BY <1>3, <1>4, <2>2, RestIs DEF Requesting
  <2> QED
    BY <1>5, <2>1, <2>3 DEF ScriptOK
<1>8. CASE op.op = "MPI_Recv"
  <2>1. Script(op) = <<At("MPI_Irecv", First, op), WaitFor(First)>>
    BY <1>8 DEF Script, MPI_Recv, Collectives, Copying, Reducing
  <2>2. op.op \in Posting
    BY <1>8 DEF Posting
  <2>3. Ready(At("MPI_Irecv", First, op), comm, req) /\ <<WaitFor(First)>> \in Seq(Rest)
    BY <1>3, <1>4, <2>2, RestIs DEF Requesting
  <2> QED
    BY <1>5, <2>1, <2>3 DEF ScriptOK
<1>9. CASE op.op = "MPI_Sendrecv"
  <2> DEFINE a == [At("MPI_Irecv", First, op) EXCEPT !.rank = op.from, !.tag = op.rtag]
             b == At("MPI_Isend", Second, op)
             c == WaitFor(Second)
             d == WaitFor(First)
  <2>1. Script(op) = <<a, b, c, d>>
    BY <1>9 DEF Script, MPI_Sendrecv, Collectives, Copying, Reducing
  <2>2. op.op \in Posting
    BY <1>9 DEF Posting
  <2>3. /\ At("MPI_Irecv", First, op).op = "MPI_Irecv" /\ At("MPI_Irecv", First, op).s = First
        /\ At("MPI_Irecv", First, op).c = op.c
        /\ {"op", "s", "c"} \subseteq DOMAIN At("MPI_Irecv", First, op)
    BY <1>2, <1>3, <2>2, AtIs
  <2>4. a.op = "MPI_Irecv" /\ a.s = First /\ a.c = op.c
    BY <2>3
  <2>5. b.op = "MPI_Isend" /\ b.s = Second /\ Ready(b, comm, req)
    BY <1>2, <1>3, <1>4, <1>9, <2>2, AtIs DEF Requesting
  <2>6. c \in Rest /\ d \in Rest
    BY <1>3, <1>9, <2>2, RestIs
  <2> HIDE DEF a, b, c, d
  <2>7. Ready(a, comm, req)
    BY <1>3, <2>2, <2>4 DEF Ready, Requesting, Into, Constructors
  <2>8. /\ Head(<<a, b, c, d>>) = a /\ Tail(<<a, b, c, d>>) = <<b, c, d>>
        /\ Head(<<b, c, d>>) = b /\ Tail(<<b, c, d>>) = <<c, d>>
    OBVIOUS
  <2>9. <<c, d>> \in Seq(Rest)
    BY <2>6
  <2> QED
    BY <1>3, <1>9, <2>1, <2>2, <2>4, <2>5, <2>7, <2>8, <2>9 DEF ScriptOK
<1>10. CASE op.op \in {"MPI_Isend", "MPI_Irsend", "MPI_Irecv"}
  <2>1. Script(op) = <<At(op.op, First, op)>>
    BY <1>10 DEF Script, Collectives, Copying, Reducing
  <2>2. op.op \in Posting
    BY <1>10 DEF Posting
  <2>3. Ready(At(op.op, First, op), comm, req)
    BY <1>3, <1>4, <1>10, <2>2 DEF Requesting
  <2> QED
    BY <1>6, <2>1, <2>3, RestIs DEF ScriptOK
<1>11. <<Taken>> \in Seq(Rest)
  BY RestIs
<1>12. CASE op.op \in {"MPI_Pack", "MPI_Unpack"}
  <2>1. Script(op) = <<At(op.op, First, op), Taken>>
    BY <1>12 DEF Script, Collectives, Copying, Reducing
  <2>2. At(op.op, First, op).op = op.op
    BY <1>2, AtIs
  <2>3. Ready(At(op.op, First, op), comm, req)
    BY <1>12, <2>2 DEF Ready, Requesting, Into, Constructors
  <2> QED
    BY <1>5, <1>11, <2>1, <2>3 DEF ScriptOK
<1>13. CASE op.op \in Collectives
  <2> DEFINE a == With(At(op.op, First, op), "to", Second)
  <2>1. Script(op) = <<a, Taken>>
    BY <1>13 DEF Script, Collectives, Copying, Reducing
  <2>2. At(op.op, First, op).op = op.op /\ "op" \in DOMAIN At(op.op, First, op)
    BY <1>2, AtIs
  <2>3. a.op = op.op
    BY <2>2 DEF With
  <2> HIDE DEF a
  <2>4. Ready(a, comm, req)
    BY <1>13, <2>3 DEF Ready, Requesting, Into, Constructors, Collectives, Copying, Reducing
  <2> QED
    BY <1>5, <1>11, <2>1, <2>4 DEF ScriptOK
<1>14. CASE /\ op.op \notin {"MPI_Send", "MPI_Ssend", "MPI_Rsend", "MPI_Recv", "MPI_Sendrecv",
                             "MPI_Pack", "MPI_Unpack"}
            /\ op.op \notin Requesting /\ op.op \notin Collectives
  <2>1. Script(op) = <<op>>
    BY <1>14 DEF Script, Requesting
  <2>2. Ready(op, comm, req)
    BY <1>2, <1>14 DEF Ready
  <2> QED
    BY <1>6, <2>1, <2>2, RestIs DEF ScriptOK
<1> QED
  BY <1>7, <1>8, <1>9, <1>10, <1>12, <1>13, <1>14 DEF Requesting

\* MPI_Irecv takes one slot, and leaves the communicators alone.
LEMMA IrecvTakes ==
  ASSUME Now, NEW op, Ready(op, comm, req), op.op = "MPI_Irecv", Perform(op)
  PROVE  comm' = comm /\ \A u \in Slots : u # op.s => req'[u] = req[u]
<1>1. MPI_Irecv(op)
  BY DEF Perform, MPI_Isend, MPI_Irsend, MPI_Iprobe, MPI_Wait, MPI_Waitany, Testall, Waitall,
         MPI_Waitsome, MPI_Request_free, Collectives, Copying, Reducing, MPI_Pack, MPI_Unpack, Take,
         MPI_Comm_create, Into, MPI_Comm_free, MPI_Group, Groups, MPI_Type_make, Constructors,
         MPI_Type_commit, MPI_Type_free
<1>2. req \in [Slots -> Nat]
  BY DEF Now, Ledger, Owners, Variables
<1>3. CASE Refuses(op, Sent(op))
  BY <1>1, <1>3 DEF MPI_Irecv, Abort, commVars, slotVars
<1>4. CASE ~ Refuses(op, Sent(op))
  <2>1. comm' = comm /\ req' = [req EXCEPT ![op.s] = NewHandle(lib)]
    BY <1>1, <1>4 DEF MPI_Irecv, commVars
  <2> QED
    BY <1>2, <2>1
<1> QED
  BY <1>3, <1>4

\* The program makes a call.
LEMMA BeginKeeps ==
  ASSUME IInv, Begin
  PROVE  IInv'
<1>1. PICK op \in plan.offered :
        /\ Fit(op) /\ Perform(Head(Script(op)))
        /\ todo' = IF dead' THEN <<>> ELSE Tail(Script(op))
  BY DEF Begin
<1>2. Now /\ PlanOK /\ ScriptOK(op)
  BY <1>1, ScriptIs DEF IInv
<1>3. Now'
  BY <1>1, <1>2, PerformKeeps DEF ScriptOK
<1>4. PlanOK'
  BY <1>2 DEF Begin, PlanOK
<1>5. CASE dead' \/ Tail(Script(op)) \in Seq(Rest)
  BY <1>1, <1>3, <1>4, <1>5, RestIs DEF IInv, TodoOK
<1>6. CASE ~ dead' /\ Tail(Script(op)) \notin Seq(Rest)
  <2> DEFINE first == Head(Script(op))
             second == Head(Tail(Script(op)))
  <2>1. /\ Ready(first, comm, req) /\ first.op = "MPI_Irecv"
        /\ second.op = "MPI_Isend" /\ Ready(second, comm, req) /\ second.s # first.s
        /\ Tail(Tail(Script(op))) \in Seq(Rest)
    BY <1>2, <1>6 DEF ScriptOK
  <2>2. Perform(first) /\ todo' = Tail(Script(op))
    BY <1>1, <1>6
  <2> HIDE DEF first
  <2>3. comm' = comm /\ \A u \in Slots : u # first.s => req'[u] = req[u]
    BY <1>2, <2>1, <2>2, IrecvTakes
  <2>4. Head(todo').op = "MPI_Isend" /\ Tail(todo') \in Seq(Rest) /\ Head(todo') = second
    BY <2>1, <2>2
  <2> HIDE DEF second
  <2>5. Ready(second, comm', req')
    BY <2>1, <2>3 DEF Ready, Requesting, Into, Constructors
  <2> QED
    BY <1>3, <1>4, <2>4, <2>5 DEF IInv, TodoOK
<1> QED
  BY <1>5, <1>6

\* It goes on with a call made of others.
LEMMA ContinueKeeps ==
  ASSUME IInv, Continue
  PROVE  IInv'
<1>1. todo # <<>> /\ Perform(Head(todo)) /\ todo' = (IF dead' THEN <<>> ELSE Tail(todo)) /\ plan' = plan
  BY DEF Continue
<1>2. Ready(Head(todo), comm, req) /\ Tail(todo) \in Seq(Rest)
  <2>1. CASE todo \in Seq(Rest)
    <3>1. Head(todo) \in Rest /\ Tail(todo) \in Seq(Rest)
      BY <1>1, <2>1, HeadTailProperties
    <3> QED
      BY <3>1, RestIs
  <2>2. CASE todo \notin Seq(Rest)
    BY <2>2 DEF IInv, TodoOK
  <2> QED
    BY <2>1, <2>2
<1>3. Now'
  BY <1>1, <1>2, PerformKeeps DEF IInv
<1>4. PlanOK'
  BY <1>1 DEF IInv, PlanOK
<1>5. todo' \in Seq(Rest)
  BY <1>1, <1>2, RestIs
<1> QED
  BY <1>3, <1>4, <1>5 DEF IInv, TodoOK

\* MPI_Init makes MPI_COMM_WORLD.
LEMMA InitKeeps ==
  ASSUME IInv, MPI_Init
  PROVE  IInv'
<1> DEFINE after == [comm EXCEPT ![MPI_COMM_WORLD] = NewHandle(lib)]
<1>1. /\ comm[MPI_COMM_WORLD] = 0 /\ MPI_COMM_WORLD \in CommVars
      /\ lib' = mpi_comm_new(lib) /\ comm' = after
      /\ req' = req /\ type' = type /\ todo' = todo /\ plan' = plan
  BY SerialAssumption DEF MPI_Init, typeVars, slotVars, MPI_COMM_WORLD
<1>2. Ledger(lib, comm, req, type)
  BY DEF IInv, Now
<1>3. Ledger(mpi_comm_new(lib), after, req, type)
  BY <1>1, <1>2, CommMade
<1>4. \A c \in CommVars : comm[c] # 0 => after[c] = comm[c]
  BY <1>1, <1>2 DEF Ledger, Owners, Variables
<1> HIDE DEF after
<1>5. TodoOK(todo, after, req)
  BY <1>4 DEF IInv, TodoOK, Ready
<1> QED
  BY <1>1, <1>3, <1>5 DEF IInv, Now, PlanOK

\* Before MPI_Init, and after MPI_Finalize
LEMMA NothingHeld ==
  ASSUME NEW cm \in [CommVars -> Nat], NEW rq \in [Slots -> Nat], NEW ty \in [TypeVars -> Nat],
         \A c \in CommVars : cm[c] = 0, \A s \in Slots : rq[s] = 0, \A v \in TypeVars : ty[v] = 0
  PROVE  Ledger(init_handles, cm, rq, ty)
<1>1. Owners(cm, rq, ty) /\ Holding(cm, rq, ty) = {}
  BY DEF Owners, Variables, Distinct, Holding
<1>2. Requests(init_handles, rq) /\ Queues(init_handles, cm, rq)
  BY DEF Requests, Queues
<1> QED
  BY <1>1, <1>2, TableFirst DEF Ledger

\* MPI_Finalize finds only MPI_COMM_WORLD in use, and starts again.
LEMMA FinalizeKeeps ==
  ASSUME IInv, MPI_Finalize
  PROVE  IInv'
<1>1. /\ DOMAIN lib.data = {comm[MPI_COMM_WORLD]} /\ lib' = init_handles
      /\ comm' = [comm EXCEPT ![MPI_COMM_WORLD] = 0]
      /\ req' = req /\ type' = type /\ todo' = <<>> /\ plan' = [plan EXCEPT !.offered = {}]
      /\ comm[MPI_COMM_WORLD] # 0 /\ MPI_COMM_WORLD \in CommVars
  BY SerialAssumption DEF MPI_Finalize, typeVars, slotVars, MPI_COMM_WORLD
<1>2. Ledger(lib, comm, req, type)
  BY DEF IInv, Now
<1>3. /\ \A c \in CommVars : c # MPI_COMM_WORLD => comm[c] = 0
      /\ \A s \in Slots : req[s] = 0
      /\ \A v \in TypeVars : type[v] = 0
  BY <1>1, <1>2, HeldIsInUse DEF Ledger, Owners, Distinct
<1>4. comm' \in [CommVars -> Nat] /\ req \in [Slots -> Nat] /\ type \in [TypeVars -> Nat]
  BY <1>1, <1>2 DEF Ledger, Owners, Variables
<1>5. \A c \in CommVars : comm'[c] = 0
  BY <1>1, <1>2, <1>3 DEF Ledger, Owners, Variables
<1>6. Ledger(init_handles, comm', req, type)
  BY <1>3, <1>4, <1>5, NothingHeld
<1>7. PlanOK'
  BY <1>1 DEF IInv, PlanOK
<1> QED
  BY <1>1, <1>6, <1>7, RestIs DEF IInv, Now, TodoOK

\* The invariant holds at the start.
LEMMA InitIInv ==
  ASSUME Init
  PROVE  IInv
<1>1. /\ lib = init_handles /\ comm = [c \in CommVars |-> 0] /\ req = [s \in Slots |-> 0]
      /\ type = [v \in TypeVars |-> 0] /\ todo = <<>> /\ plan \in Plans
  BY DEF Init
<1>2. /\ comm \in [CommVars -> Nat] /\ req \in [Slots -> Nat] /\ type \in [TypeVars -> Nat]
      /\ \A c \in CommVars : comm[c] = 0
      /\ \A s \in Slots : req[s] = 0
      /\ \A v \in TypeVars : type[v] = 0
  BY <1>1
<1>3. Now
  BY <1>1, <1>2, NothingHeld DEF Now
<1>4. PlanOK
  BY <1>1, PlansAssumption DEF PlanOK
<1> QED
  BY <1>1, <1>3, <1>4, RestIs DEF IInv, TodoOK

\* Every step keeps it.
LEMMA StepKeeps ==
  IInv /\ [Next]_vars => IInv'
<1> SUFFICES ASSUME IInv, [Next]_vars PROVE IInv'
  OBVIOUS
<1>1. CASE UNCHANGED vars
  BY <1>1 DEF vars, commVars, typeVars, slotVars, IInv, Now, PlanOK, TodoOK
<1> QED
  BY <1>1, InitKeeps, BeginKeeps, ContinueKeeps, FinalizeKeeps DEF Next

(***************************************************************************)
(* The property.                                                           *)
(***************************************************************************)
\* Two lists without repetitions that have nothing in common, one after the other
LEMMA JoinedLists ==
  ASSUME NEW a \in Seq(Handle), NEW b \in Seq(Handle), IsInjective(a), IsInjective(b),
         ToSet(a) \cap ToSet(b) = {}
  PROVE  IsInjective(a \o b) /\ ToSet(a \o b) = ToSet(a) \cup ToSet(b)
<1> DEFINE m == Len(a)
           n == Len(b)
           ab == a \o b
<1>1. /\ m \in Nat /\ n \in Nat /\ DOMAIN a = 1 .. m /\ DOMAIN b = 1 .. n
      /\ ab \in Seq(Handle) /\ Len(ab) = m + n
      /\ \A i \in 1 .. m + n : ab[i] = IF i <= m THEN a[i] ELSE b[i - m]
  BY ConcatProperties
<1>2. DOMAIN ab = 1 .. m + n
  BY <1>1
<1>3. ToSet(a) = {a[i] : i \in 1 .. m} /\ ToSet(b) = {b[i] : i \in 1 .. n}
  BY <1>1 DEF ToSet
<1> HIDE DEF m, n, ab
<1>4. \A i \in 1 .. m + n : /\ i <= m => i \in 1 .. m /\ ab[i] = a[i]
                            /\ ~(i <= m) => i - m \in 1 .. n /\ ab[i] = b[i - m]
  BY <1>1
<1>5. ASSUME NEW i \in 1 .. n PROVE i + m \in 1 .. m + n /\ ab[i + m] = b[i]
  <2>1. i + m \in 1 .. m + n /\ ~(i + m <= m) /\ (i + m) - m = i
    BY <1>1
  <2> QED
    BY <1>1, <2>1
<1>6. \A i \in 1 .. m : i \in 1 .. m + n /\ ab[i] = a[i]
  BY <1>1
<1>7. ASSUME NEW i \in 1 .. m + n, NEW j \in 1 .. m + n, ab[i] = ab[j] PROVE i = j
  <2>1. CASE i <= m /\ j <= m
    BY <1>1, <1>4, <1>7, <2>1 DEF IsInjective
  <2>2. CASE ~(i <= m) /\ ~(j <= m)
    <3>1. i - m \in 1 .. n /\ j - m \in 1 .. n /\ b[i - m] = b[j - m]
      BY <1>4, <1>7, <2>2
    <3>2. i - m = j - m
      BY <1>1, <3>1 DEF IsInjective
    <3> QED
      BY <1>1, <3>2
  <2>3. CASE i <= m /\ ~(j <= m)
    <3>1. i \in 1 .. m /\ ab[i] = a[i] /\ j - m \in 1 .. n /\ ab[j] = b[j - m]
      BY <1>4, <2>3
    <3>2. ab[i] \in ToSet(a) /\ ab[j] \in ToSet(b)
      BY <1>3, <3>1
    <3> QED
      BY <1>7, <3>2
  <2>4. CASE ~(i <= m) /\ j <= m
    <3>1. j \in 1 .. m /\ ab[j] = a[j] /\ i - m \in 1 .. n /\ ab[i] = b[i - m]
      BY <1>4, <2>4
    <3>2. ab[j] \in ToSet(a) /\ ab[i] \in ToSet(b)
      BY <1>3, <3>1
    <3> QED
      BY <1>7, <3>2
  <2> QED
    BY <2>1, <2>2, <2>3, <2>4
<1>8. IsInjective(ab)
  BY <1>2, <1>7 DEF IsInjective
<1>9. ToSet(ab) = {ab[i] : i \in 1 .. m + n}
  BY <1>2 DEF ToSet
<1>10. ToSet(ab) \subseteq ToSet(a) \cup ToSet(b)
  BY <1>3, <1>4, <1>9
<1>11. ToSet(a) \subseteq ToSet(ab)
  BY <1>3, <1>6, <1>9
<1>12. ToSet(b) \subseteq ToSet(ab)
  BY <1>3, <1>5, <1>9
<1> QED
  BY <1>8, <1>10, <1>11, <1>12 DEF ab

\* As many variables that hold something as things held, when no two hold the same
LEMMA Counted ==
  ASSUME NEW X, IsFiniteSet(X), NEW f \in [X -> Nat],
         \A x, y \in X : f[x] # 0 /\ f[x] = f[y] => x = y
  PROVE  /\ IsFiniteSet({f[x] : x \in X} \ {0})
         /\ Cardinality({f[x] : x \in X} \ {0}) = Cardinality({x \in X : f[x] # 0})
<1> DEFINE U == {x \in X : f[x] # 0}
           V == {f[x] : x \in X} \ {0}
           g == [x \in U |-> f[x]]
<1>1. IsFiniteSet(U)
  BY FS_Subset
<1>2. g \in [U -> V]
  OBVIOUS
<1>3. IsInjective(g)
  BY DEF IsInjective
<1>4. \A v \in V : \E x \in U : g[x] = v
  OBVIOUS
<1>5. g \in Bijection(U, V)
  BY <1>2, <1>3, <1>4 DEF Bijection, Injection, Surjection
<1>6. ExistsBijection(U, V)
  BY <1>5 DEF ExistsBijection
<1> HIDE DEF U, V, g
<1>7. IsFiniteSet(V) /\ Cardinality(V) = Cardinality(U)
  BY <1>1, <1>6, FS_Bijection
<1> QED
  BY <1>7 DEF U, V

\* As many variables hold a handle as there are handles in use.
LEMMA HoldersAre ==
  ASSUME Now
  PROVE  Held = Live /\ Holders = Cardinality(Live)
<1> DEFINE A == {comm[c] : c \in CommVars} \ {0}
           B == {req[s] : s \in Slots} \ {0}
           C == {type[v] : v \in TypeVars} \ {0}
<1>1. Owners(comm, req, type) /\ DOMAIN lib.data = Holding(comm, req, type)
  BY DEF Now, Ledger
<1>2. Held = Live
  BY <1>1 DEF Held, Live, Holding
<1>3. Live = A \cup B \cup C
  BY <1>1 DEF Live, Holding
<1>4. comm \in [CommVars -> Nat] /\ req \in [Slots -> Nat] /\ type \in [TypeVars -> Nat]
  BY <1>1 DEF Owners, Variables
<1>5. IsFiniteSet(CommVars) /\ IsFiniteSet(Slots) /\ IsFiniteSet(TypeVars)
  BY SerialAssumption
<1>6. A \cap B = {} /\ (A \cup B) \cap C = {}
  BY <1>1 DEF Owners, Distinct
<1>61. /\ \A c, d \in CommVars : comm[c] # 0 /\ comm[c] = comm[d] => c = d
       /\ \A s, u \in Slots : req[s] # 0 /\ req[s] = req[u] => s = u
       /\ \A v, w \in TypeVars : type[v] # 0 /\ type[v] = type[w] => v = w
  BY <1>1 DEF Owners, Distinct
<1>7. IsFiniteSet(A) /\ Cardinality(A) = Cardinality({c \in CommVars : comm[c] # 0})
  BY <1>4, <1>5, <1>61, Counted
<1>8. IsFiniteSet(B) /\ Cardinality(B) = Cardinality({s \in Slots : req[s] # 0})
  BY <1>4, <1>5, <1>61, Counted
<1>9. IsFiniteSet(C) /\ Cardinality(C) = Cardinality({v \in TypeVars : type[v] # 0})
  BY <1>4, <1>5, <1>61, Counted
<1> HIDE DEF A, B, C
<1>10. /\ IsFiniteSet(A \cup B)
       /\ Cardinality(A \cup B) = Cardinality(A) + Cardinality(B) - Cardinality({})
  BY <1>6, <1>7, <1>8, FS_Union
<1>11. Cardinality(A \cup B \cup C) = Cardinality(A \cup B) + Cardinality(C) - Cardinality({})
  BY <1>6, <1>9, <1>10, FS_Union
<1>12. Cardinality({}) = 0 /\ Cardinality(A) \in Nat /\ Cardinality(B) \in Nat /\ Cardinality(C) \in Nat
  BY <1>7, <1>8, <1>9, FS_EmptySet, FS_CardinalityType
<1>13. Cardinality(A \cup B \cup C) = Cardinality(A) + Cardinality(B) + Cardinality(C)
  BY <1>10, <1>11, <1>12
<1> QED
  BY <1>2, <1>3, <1>7, <1>8, <1>9, <1>13 DEF Holders

\* What waits in the lists of a communicator are requests of the program that
\* are incomplete, each once, and no send waits beside a receive that would take it.
LEMMA ListsAre ==
  ASSUME Now, NEW c \in CommVars, comm[c] # 0
  PROVE  LET sends == lib.data[comm[c]].sendlist
             recvs == lib.data[comm[c]].recvlist
         IN  /\ IsInjective(sends \o recvs)
             /\ \A h \in ToSet(sends \o recvs) :
                  \E s \in Slots : req[s] = h /\ ~lib.data[h].complete /\ lib.data[h].buf = s
             /\ \A h \in ToSet(sends) : \A r \in ToSet(recvs) :
                  ~mpi_match_recv(r, lib.data[h].tag)
<1> DEFINE sends == lib.data[comm[c]].sendlist
           recvs == lib.data[comm[c]].recvlist
<1>1. IsComm(lib, comm[c], req) /\ Requests(lib, req)
  BY DEF Now, Ledger, Queues
<1>2. /\ sends \in Seq(Handle) /\ recvs \in Seq(Handle) /\ IsInjective(sends) /\ IsInjective(recvs)
      /\ ToSet(sends) \cap ToSet(recvs) = {}
  BY <1>1 DEF IsComm, HasLists, Sends, Recvs
<1>3. \A h \in ToSet(sends) \cup ToSet(recvs) :
        \E s \in Slots : req[s] = h /\ ~lib.data[h].complete /\ lib.data[h].buf = s
  BY <1>1 DEF IsComm, Requests, Waiting, Sends, Recvs
<1>4. \A h \in ToSet(sends), r \in ToSet(recvs) : ~mpi_match_recv(r, lib.data[h].tag)
  BY <1>1 DEF IsComm, Fits, mpi_match_recv, Sends, Recvs
<1> HIDE DEF sends, recvs
<1>5. IsInjective(sends \o recvs) /\ ToSet(sends \o recvs) = ToSet(sends) \cup ToSet(recvs)
  BY <1>2, JoinedLists
<1> QED
  BY <1>3, <1>4, <1>5 DEF sends, recvs

\* The ledger says what HandlesOwned says.
LEMMA NowIsOwned ==
  ASSUME Now
  PROVE  HandlesOwned
<1>1. Table(lib)
  BY DEF Now, Ledger
<1>2. IsInjective(lib.free) /\ ToSet(lib.free) \cap Live = {}
  BY <1>1 DEF Table, Live
<1>3. ToSet(lib.free) \cup Live = 1 .. lib.nblocks * BLOCK_ITEMS - 1
  BY <1>1 DEF Table, Live
<1> QED
  BY <1>2, <1>3, HoldersAre, ListsAre DEF HandlesOwned

\* Every handle of mpi-serial is free, once, or in one variable of the program
\* (handles.c), and the lists of sends and receives that wait are right.
THEOREM HandlesAlwaysOwned == Spec => []HandlesOwned
<1>1. Init => IInv
  BY InitIInv
<1>2. IInv /\ [Next]_vars => IInv'
  BY StepKeeps
<1>3. IInv => HandlesOwned
  BY NowIsOwned DEF IInv
<1> QED
  BY <1>1, <1>2, <1>3, PTL DEF Spec
=============================================================================
