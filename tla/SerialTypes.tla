----------------------------- MODULE SerialTypes -----------------------------
(***************************************************************************)
(* Datatypes of mpi-serial, the MPI library of one process that a model    *)
(* built without MPI is linked with (type.c, type_const.c, copy.c, pack.c).*)
(*                                                                         *)
(* A datatype is a flattened typemap, "pairs" of a displacement and a      *)
(* simple type, with its bounds and two flags that say whether the bounds  *)
(* were set by the markers MPI_LB and MPI_UB.  A buffer is a function from *)
(* byte offsets to bytes.  Of the simple types three lengths are kept.     *)
(***************************************************************************)
EXTENDS Integers, Sequences, FiniteSetsExt, SequencesExt

Simpletype_length == [char |-> 1, short |-> 2, int |-> 4]

Pair(disp, type) == [disp |-> disp, type |-> type]

Predefined(pairs, ub) ==
  [pairs |-> pairs, lb |-> 0, ub |-> ub, o_lb |-> FALSE, o_ub |-> FALSE, committed |-> TRUE]

simpletypes ==
  [MPI_CHAR  |-> Predefined(<<Pair(0, "char")>>, 1),
   MPI_SHORT |-> Predefined(<<Pair(0, "short")>>, 2),
   MPI_INT   |-> Predefined(<<Pair(0, "int")>>, 4),
   MPI_LB    |-> Predefined(<<Pair(0, "lower")>>, 0),
   MPI_UB    |-> Predefined(<<Pair(0, "upper")>>, 0),
   MPI_SHORT_INT |-> Predefined(<<Pair(0, "short"), Pair(4, "int")>>, 8)]

Lengths(t)  == {Simpletype_length[t.pairs[k].type] : k \in DOMAIN t.pairs}
Disps(t)    == {t.pairs[k].disp : k \in DOMAIN t.pairs}

calc_padding(t) == Max(Lengths(t))
calc_lb(t)      == Min(Disps(t))
calc_ub(t)      == Max({p.disp + Simpletype_length[p.type] : p \in ToSet(t.pairs)})

\* What is missing to a multiple of the longest simple type
Padded(length, t) == length + ((-length) % calc_padding(t))

Type_extent(t) == IF ~(t.o_lb \/ t.o_ub) THEN Padded(t.ub - t.lb, t) ELSE t.ub - t.lb

Type_size(t) == FoldLeft(LAMBDA n, p : n + Simpletype_length[p.type], 0, t.pairs)

IsLower(t) == t.pairs[1].type = "lower"
IsUpper(t) == t.pairs[1].type = "upper"
Marker(t)  == IsLower(t) \/ IsUpper(t)

(***************************************************************************)
(* The constructors: all of them end in Type_struct.  The flags of a bound *)
(* that is not overridden stay as malloc left them: "stale" says how.      *)
(***************************************************************************)
\* The copies a struct is made of: member i, block j, in order
Copies(blocklens, olds) ==
  FlattenSeq([i \in DOMAIN olds |->
    IF Marker(olds[i]) THEN <<>> ELSE [j \in 1 .. blocklens[i] |-> <<i, j - 1>>]])

Moved(pairs, by) == [k \in DOMAIN pairs |-> [pairs[k] EXCEPT !.disp = @ + by]]

\* (mutant) blocks one after the other, without the padding between them
Type_struct_packed(blocklens, displacements, olds, stale) ==
  LET at(c) == displacements[c[1]] + c[2] * Type_size(olds[c[1]])
      copies == Copies(blocklens, olds)
      new == [pairs |-> FlattenSeq([n \in DOMAIN copies |->
                           Moved(olds[copies[n][1]].pairs, at(copies[n]))]),
              o_lb |-> FALSE, o_ub |-> FALSE, committed |-> FALSE]
  IN  new @@ [lb |-> calc_lb(new), ub |-> calc_ub(new)]

Type_struct(blocklens, displacements, olds, stale) ==
  LET copies == Copies(blocklens, olds)
      at(c)  == displacements[c[1]] + c[2] * Type_extent(olds[c[1]])
      plain  == {i \in DOMAIN olds : ~Marker(olds[i])}
      lowers == {displacements[i] : i \in {j \in DOMAIN olds : IsLower(olds[j])}}
                \cup {olds[c[1]].lb + at(c) : c \in {d \in ToSet(copies) : olds[d[1]].o_lb}}
      uppers == {displacements[i] : i \in {j \in DOMAIN olds : IsUpper(olds[j])}}
                \cup {olds[c[1]].ub + at(c) : c \in {d \in ToSet(copies) : olds[d[1]].o_ub}}
      new == [pairs |-> FlattenSeq([n \in DOMAIN copies |->
                           Moved(olds[copies[n][1]].pairs, at(copies[n]))])]
  IN  [pairs |-> new.pairs, committed |-> FALSE,
       o_lb  |-> lowers # {} \/ stale.lb,
       o_ub  |-> uppers # {} \/ stale.ub,
       lb    |-> IF lowers # {} THEN Min(lowers) ELSE calc_lb(new),
       ub    |-> IF uppers # {} THEN Max(uppers) ELSE calc_ub(new)]

Times(count, x) == [i \in 1 .. count |-> x]

Type_hindexed(blocklens, displacements, old, stale) ==
  Type_struct(blocklens, displacements, Times(Len(blocklens), old), stale)

Type_indexed(blocklens, displacements, old, stale) ==
  Type_hindexed(blocklens,
                [i \in DOMAIN displacements |-> displacements[i] * Type_extent(old)], old, stale)

Type_create_indexed_block(blocklen, displacements, old, stale) ==
  Type_indexed(Times(Len(displacements), blocklen), displacements, old, stale)

Type_hvector(count, blocklen, stride, old, stale) ==
  Type_struct(Times(count, blocklen), [i \in 1 .. count |-> stride * (i - 1)],
              Times(count, old), stale)

Type_vector(count, blocklen, stride, old, stale) ==
  Type_hvector(count, blocklen, stride * Type_extent(old), old, stale)

Type_contiguous(count, old, stale) ==
  Type_struct(Times(count, 1), [i \in 1 .. count |-> Type_extent(old) * (i - 1)],
              Times(count, old), stale)

(***************************************************************************)
(* Moving data.                                                            *)
(***************************************************************************)
\* memcpy of n bytes into a buffer
memcpy(to, doffset, from, soffset, n) ==
  [b \in DOMAIN to |-> IF b \in doffset .. doffset + n - 1
                       THEN from[soffset + b - doffset] ELSE to[b]]

\* The i-th simple element of consecutive items of type t, counted from 0
Element(t, i)  == t.pairs[(i % Len(t.pairs)) + 1]
OffsetOf(t, i) == Element(t, i).disp + (i \div Len(t.pairs)) * Type_extent(t)
Count(t, n)    == n * Len(t.pairs)

\* "Type not committed" and "Trying to over-receive" end the program
Copyable(n1, t1, n2, t2) ==
  t1.committed /\ t2.committed /\ Count(t1, n1) >= Count(t2, n2)

\* (mutant) items without their extent
Pcopy_data2_tight(source, soff, src_type, dest, doff, dest_count, dest_type) ==
  FoldLeft(LAMBDA buf, i :
             memcpy(buf, doff + Element(dest_type, i).disp
                           + (i \div Len(dest_type.pairs)) * Type_size(dest_type),
                    source, soff + OffsetOf(src_type, i),
                    Simpletype_length[Element(dest_type, i).type]),
           dest, [i \in 1 .. Count(dest_type, dest_count) |-> i - 1])

Pcopy_data2(source, soff, src_type, dest, doff, dest_count, dest_type) ==
  FoldLeft(LAMBDA buf, i :
             memcpy(buf, doff + OffsetOf(dest_type, i), source, soff + OffsetOf(src_type, i),
                    Simpletype_length[Element(dest_type, i).type]),
           dest, [i \in 1 .. Count(dest_type, dest_count) |-> i - 1])

\* The bytes of items of a type, in the order of the typemap
Pack(inbuf, incount, t) ==
  FlattenSeq([i \in 1 .. Count(t, incount) |->
    [b \in 1 .. Simpletype_length[Element(t, i - 1).type] |-> inbuf[OffsetOf(t, i - 1) + b - 1]]])

Pack_size(incount, t) == incount * Type_size(t)

\* Where an element lies in the packed bytes
PlaceOf(t, i) == (i \div Len(t.pairs)) * Type_size(t)
                 + FoldLeft(LAMBDA n, p : n + Simpletype_length[p.type], 0,
                            SubSeq(t.pairs, 1, i % Len(t.pairs)))

Unpack(inbuf, position, outbuf, outcount, t) ==
  FoldLeft(LAMBDA buf, i :
             memcpy(buf, OffsetOf(t, i), inbuf, position + PlaceOf(t, i) + 1,
                    Simpletype_length[Element(t, i).type]),
           outbuf, [i \in 1 .. Count(t, outcount) |-> i - 1])
=============================================================================
