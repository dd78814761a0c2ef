------------------------------ MODULE Typemaps ------------------------------
(***************************************************************************)
(* What the MPI standard says a datatype is: a typemap, the sequence of    *)
(* its entries [disp, size], in which the bound markers are entries of     *)
(* size 0 named "lower" and "upper".  A marker overrides the bound that    *)
(* the data give; without markers the extent is rounded up to a multiple   *)
(* of the longest entry.  Nothing is said of flags or of flattening.       *)
(***************************************************************************)
EXTENDS Integers, Sequences, FiniteSetsExt, SequencesExt

Entry(disp, size, name) == [disp |-> disp, size |-> size, name |-> name]

Of(map, names) == {e \in ToSet(map) : e.name \in names}
Data(map) == SelectSeq(map, LAMBDA e : e.name = "data")

LowerBound(map) ==
  LET set == Of(map, {"lower"})
  IN  Min({e.disp : e \in IF set # {} THEN set ELSE Of(map, {"data"})})

UpperBound(map) ==
  LET set == Of(map, {"upper"})
  IN  Max({e.disp + e.size : e \in IF set # {} THEN set ELSE Of(map, {"data"})})

Rounded(length, by) == CHOOSE n \in length .. length + by - 1 : n % by = 0

Extent(map) ==
  LET length == UpperBound(map) - LowerBound(map)
  IN  IF Of(map, {"lower", "upper"}) # {} THEN length
      ELSE Rounded(length, Max({e.size : e \in Of(map, {"data"})}))

Shifted(map, by) == [k \in DOMAIN map |-> [map[k] EXCEPT !.disp = @ + by]]

\* Block i: blocklens[i] items of maps[i], the first at disps[i]
Struct(blocklens, disps, maps) ==
  FlattenSeq([i \in DOMAIN maps |->
    FlattenSeq([j \in 1 .. blocklens[i] |->
      Shifted(maps[i], disps[i] + (IF j = 1 THEN 0 ELSE (j - 1) * Extent(maps[i])))])])
=============================================================================
