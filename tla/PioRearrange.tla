---------------------------- MODULE PioRearrange ----------------------------
(***************************************************************************)
(* Decompositions of the parallel I/O library: where each element that the *)
(* compute tasks hold goes on the I/O tasks and from there in the file     *)
(* (pioc_sc.c, pio_rearrange.c, PIOc_InitDecomp in pioc.c).  All tasks     *)
(* compute; the I/O tasks are some of them.  Positions in arrays are       *)
(* counted from 1 here and offsets in regions and buffers from 0; places   *)
(* of the grid are counted from 1 as in the maps, 0 being no place.        *)
(***************************************************************************)
EXTENDS Integers, Sequences, FiniteSets, FiniteSetsExt, SequencesExt

CONSTANTS
    NTasks,     \* the number of tasks
    ioranks,    \* the ranks of the I/O tasks, in their order
    blocksize,  \* the least number of bytes worth an I/O task
    Margin,     \* what blocksize has in reserve; 256 in the code, less for small grids
    TypeSize    \* bytes of an element

Task == 0..(NTasks - 1)
IOTask == DOMAIN ioranks
num_iotasks == Len(ioranks)

Product(s) == FoldLeft(LAMBDA a, b : a * b, 1, s)
Positions(s) == [i \in DOMAIN s |-> i]
MaxOf(f) == Max({f[x] : x \in DOMAIN f})

-----------------------------------------------------------------------------
(***************************************************************************)
(* Places and coordinates.                                                 *)
(***************************************************************************)
idx_to_dim_list(gdims, idx) ==
    [d \in DOMAIN gdims |-> (idx \div Product(SubSeq(gdims, d + 1, Len(gdims)))) % gdims[d]]

coord_to_lindex(coord, count) ==
    FoldLeft(LAMBDA at, d : at * count[d] + coord[d], 0, Positions(count))

\* The place in the grid of the element at an offset of a region.
PlaceAt(gdims, region, offset) ==
    LET at == idx_to_dim_list(region.count, offset)
    IN  1 + coord_to_lindex([d \in DOMAIN gdims |-> region.start[d] + at[d]], gdims)

Size(region) == Product(region.count)
TotalSize(regions) == FoldLeft(LAMBDA n, r : n + Size(r), 0, regions)

-----------------------------------------------------------------------------
(***************************************************************************)
(* How the box rearranger shares the grid out.                             *)
(***************************************************************************)
compute_one_dim(gdim, ioprocs, rank) ==
    LET irank == rank % ioprocs
        remainder == gdim % ioprocs
        adds == irank + remainder - ioprocs
    IN  [start |-> (gdim \div ioprocs) * irank + (IF adds > 0 THEN adds ELSE 0),
         count |-> (gdim \div ioprocs) + (IF adds >= 0 THEN 1 ELSE 0)]

\* The tasks to use and the last dimension to split, given that many tasks.
Adjusted(gdims, use, maxbytes) ==
    LET large == {d \in DOMAIN gdims :
                     (TypeSize * Product(SubSeq(gdims, d, Len(gdims)))) \div use > maxbytes}
        last == IF large = {} THEN Len(gdims) ELSE Max(large)
    IN  CASE gdims[last] >= use -> [use |-> use, last |-> last]
          [] gdims[last] < use /\ last > 1 /\ gdims[last - 1] > use -> [use |-> use, last |-> last - 1]
          [] OTHER -> [use |-> use - (use % gdims[last]), last |-> last]

\* The box of an I/O task.  Dimensions that are shorter than the number of
\* tasks left share them out, the next dimension is split among the rest.
Box(gdims, plan, iorank) ==
    LET Split(s, d) ==
            LET g == gdims[d]
                few == (iorank * g) \div s.ioprocs
                one == IF g >= s.ioprocs THEN compute_one_dim(g, s.ioprocs, s.tiorank)
                       ELSE compute_one_dim(g, g, few)
                left == s.ioprocs \div g
            IN  CASE d > plan.last \/ (g < s.ioprocs /\ g <= 1) ->
                       [s EXCEPT !.start = Append(@, 0), !.count = Append(@, g)]
                  [] d <= plan.last /\ g >= s.ioprocs ->
                       [s EXCEPT !.start = Append(@, one.start), !.count = Append(@, one.count)]
                  [] OTHER ->
                       [start |-> Append(s.start, one.start), count |-> Append(s.count, one.count),
                        ioprocs |-> left, tiorank |-> iorank % left]
        box == FoldLeft(Split, [start |-> <<>>, count |-> <<>>, ioprocs |-> plan.use, tiorank |-> iorank],
                        Positions(gdims))
    IN  [start |-> box.start, count |-> box.count]

\* The pass s with a box more.
WithBox(s, gdims, use, box) ==
    LET size == s.size + Size(box)
    IN  [use |-> use, size |-> size, boxes |-> Append(s.boxes, box),
         stop |-> size >= Product(gdims),
         converged |-> size = Product(gdims) /\ use = Len(s.boxes) + 1]

\* One pass over the I/O tasks with so many of them in use.
Pass(gdims, use, maxbytes) ==
    LET Add(s, iorank, plan) == WithBox(s, gdims, plan.use, Box(gdims, plan, iorank))
        One(s, iorank) == IF s.stop \/ iorank >= s.use THEN s
                          ELSE Add(s, iorank, Adjusted(gdims, s.use, maxbytes))
    IN  FoldLeft(One, [use |-> use, size |-> 0, boxes |-> <<>>, stop |-> FALSE, converged |-> FALSE],
                 [i \in 1..use |-> i - 1])

\* Fewer tasks are tried until the boxes add up to the grid; the others get nothing.
CalcStartandCount(gdims) ==
    LET minblocksize == (blocksize - Margin) \div TypeSize
        rounded == (2 * Product(gdims) + minblocksize) \div (2 * minblocksize)
        use == Max({1, Min({rounded, num_iotasks})})
        maxbytes == Max({blocksize, (Product(gdims) * TypeSize) \div use}) + Margin
        From[n \in 0..use] ==
            LET Boxed(pass) == IF pass.converged THEN pass.boxes ELSE From[pass.use - 1]
            IN  Boxed(Pass(gdims, n, maxbytes))
        none == [start |-> [d \in DOMAIN gdims |-> 0], count |-> [d \in DOMAIN gdims |-> 0]]
    IN  SubSeq(From[use] \o [i \in IOTask |-> none], 1, num_iotasks)

-----------------------------------------------------------------------------
(***************************************************************************)
(* Regions: the rectangles that a sorted list of places is cut into.       *)
(***************************************************************************)
\* Whether the i-th group of places lies a fixed stride behind the first.
Continues(map, i, size, stride) ==
    \A j \in 1..size : j + i * size <= Len(map) /\ map[j + i * size] = map[j] + i * stride

\* The counts of the region that the map begins with, from the last dimension to the first.
expand_region(gdims, map, max_size) ==
    LET Expand(d, counts) ==
            LET size == Product(counts)
                stride == Product(SubSeq(gdims, d + 1, Len(gdims)))
            IN  <<Min({i \in 1..max_size[d] : ~Continues(map, i, size, stride)} \cup {max_size[d]})>>
                \o counts
    IN  FoldRight(Expand, Positions(gdims), <<>>)

find_region(gdims, map) ==
    LET start == idx_to_dim_list(gdims, map[1] - 1)
    IN  [start |-> start,
         count |-> expand_region(gdims, map, [d \in DOMAIN gdims |-> gdims[d] - start[d]])]

get_regions(gdims, map) ==
    LET Regions[n \in 0..Len(map)] ==
            IF n = Len(map) THEN <<>>
            ELSE LET r == find_region(gdims, SubSeq(map, n + 1, Len(map)))
                 IN  <<[start |-> r.start, count |-> r.count, loffset |-> n]>> \o Regions[n + Size(r)]
    IN  Regions[0]

-----------------------------------------------------------------------------
(***************************************************************************)
(* Messages between compute and I/O tasks as MPI data types.               *)
(***************************************************************************)
\* The largest block length that divides every run of consecutive indices.
GCDblocksize(list) ==
    LET breaks == {0, Len(list)} \cup {i \in 1..(Len(list) - 1) : list[i + 1] - list[i] # 1}
        runs == {b - a : <<a, b>> \in {<<a, b>> \in breaks \X breaks :
                                          a < b /\ ~\E c \in breaks : a < c /\ c < b}}
    IN  Max({n \in 1..Len(list) : \A r \in runs : r % n = 0})

lgcd_array(sizes) == IF sizes = {} THEN 1 ELSE Max({n \in 1..Min(sizes) : \A s \in sizes : s % n = 0})

\* The messages' indices, in blocks of the length common to all of them.
create_mpi_datatypes(mindex) ==
    LET size == lgcd_array({GCDblocksize(mindex[i]) : i \in {i \in DOMAIN mindex : mindex[i] # <<>>}})
    IN  [i \in DOMAIN mindex |->
            [j \in DOMAIN mindex[i] |->
                mindex[i][((j - 1) \div size) * size + 1] + ((j - 1) % size)]]

\* What goes from where to where: the elements of the two ends of each message in their order.
Moves(stype, rtype) ==
    [i \in IOTask |->
        UNION {{[task |-> t, from |-> stype[t][i][j], to |-> rtype[i][t][j]] : j \in DOMAIN stype[t][i]}
               : t \in Task}]

-----------------------------------------------------------------------------
(***************************************************************************)
(* The box rearranger: each element goes to the box that its place is in.  *)
(***************************************************************************)
InBox(coord, box) ==
    \A d \in DOMAIN coord : coord[d] >= box.start[d] /\ coord[d] < box.start[d] + box.count[d]

\* The first I/O task whose box has the place; 0 if there is none.
dest_ioproc(gdims, boxes, place) ==
    LET has == {i \in IOTask : Size(boxes[i]) > 0 /\ InBox(idx_to_dim_list(gdims, place - 1), boxes[i])}
    IN  IF place <= 0 \/ has = {} THEN 0 ELSE Min(has)

dest_ioindex(gdims, box, place) ==
    LET coord == idx_to_dim_list(gdims, place - 1)
    IN  coord_to_lindex([d \in DOMAIN gdims |-> coord[d] - box.start[d]], box.count)

\* Some element has a place that no box has: the decomposition is refused.
NoBoxFor(gdims, boxes, map) ==
    \E t \in Task : \E k \in DOMAIN map[t] : map[t][k] > 0 /\ dest_ioproc(gdims, boxes, map[t][k]) = 0

\* Which elements of a task go to which I/O task,
sindex(gdims, boxes, map) ==
    [t \in Task |-> [i \in IOTask |->
        SelectSeq(Positions(map[t]), LAMBDA k : dest_ioproc(gdims, boxes, map[t][k]) = i)]]

\* and where they belong in its box, as the tasks tell it.
rindex(gdims, boxes, map, s) ==
    [i \in IOTask |-> [t \in Task |->
        [j \in DOMAIN s[t][i] |-> dest_ioindex(gdims, boxes[i], map[t][s[t][i][j]])]]]

\* The number of elements that have a place, those that share one included.
MappedPlaces(map) == MapThenSumSet(LAMBDA t : Cardinality({k \in DOMAIN map[t] : map[t][k] > 0}), Task)

determine_fill(gdims, map) == MappedPlaces(map) < Product(gdims)

box_rearrange_create(gdims, boxes, map) ==
    LET s == sindex(gdims, boxes, map)
        r == rindex(gdims, boxes, map, s)
        llen == [i \in IOTask |-> Size(boxes[i])]
    IN  [regions |-> [i \in IOTask |-> <<[start |-> boxes[i].start, count |-> boxes[i].count, loffset |-> 0]>>],
         fillregions |-> [i \in IOTask |-> <<>>],
         llen |-> llen, maxiobuflen |-> MaxOf(llen),
         holegridsize |-> [i \in IOTask |-> 0],
         needsfill |-> determine_fill(gdims, map),
         moves |-> Moves([t \in Task |-> create_mpi_datatypes(s[t])],
                         [i \in IOTask |-> create_mpi_datatypes(r[i])])]

-----------------------------------------------------------------------------
(***************************************************************************)
(* The subset rearranger: each task sends all it has to one I/O task.      *)
(***************************************************************************)
IsIO(t) == t \in Range(ioranks)
IORank(t) == CHOOSE i \in IOTask : ioranks[i] = t

\* The subset a task belongs to, and its rank key there.
default_subset_partition(t) ==
    LET taskratio == Max({1, NTasks \div num_iotasks})
    IN  IF IsIO(t) THEN [color |-> IORank(t), key |-> 0]
        ELSE [color |-> Min({num_iotasks, (t \div taskratio) + 1}), key |-> Max({1, (t % taskratio) + 1})]

Members(i) ==
    LET part == [t \in Task |-> default_subset_partition(t)]
    IN  SetToSortSeq({t \in Task : part[t].color = i},
                     LAMBDA a, b : part[a].key < part[b].key \/ (part[a].key = part[b].key /\ a < b))

\* The elements that an I/O task gets, in the order of their places.
Gathered(i, map) ==
    LET Of(t) == LET mine == SelectSeq(Positions(map[t]), LAMBDA k : map[t][k] > 0)
                 IN  [j \in DOMAIN mine |-> [rfrom |-> t, soffset |-> mine[j], iomap |-> map[t][mine[j]]]]
        all == FlattenSeq([j \in DOMAIN Members(i) |-> Of(Members(i)[j])])
    IN  SortSeq(all, LAMBDA a, b : a.iomap < b.iomap)

\* The places an I/O task holds, each once.
iomap(gathered) == SetToSortSeq({e.iomap : e \in Range(gathered)}, LAMBDA a, b : a < b)

\* The i-th share of the grid in which an I/O task looks for holes.
Share(total, i) ==
    LET size == total \div num_iotasks
        xtra == total - size * num_iotasks
        longer(n) == Max({0, n + xtra - num_iotasks})
    IN  ((i - 1) * size + longer(i - 1) + 1)..(i * size + longer(i))

Holes(gdims, map, i) ==
    SetToSortSeq(Share(Product(gdims), i) \ UNION {Range(map[t]) : t \in Task}, LAMBDA a, b : a < b)

\* What a task sends, in the order in which its I/O task has it,
subset_sindex(gathered, t) ==
    LET mine == SelectSeq(gathered, LAMBDA e : e.rfrom = t)
    IN  [j \in DOMAIN mine |-> mine[j].soffset]

\* and the slots there: elements with one place share one.
subset_rindex(gathered, t) ==
    LET from == SelectSeq(gathered, LAMBDA e : e.rfrom = t)
        slot(place) == Cardinality({a \in Range(iomap(gathered)) : a < place})
    IN  [j \in DOMAIN from |-> slot(from[j].iomap)]

compute_maxIObuffersize(regions) == MaxOf([i \in IOTask |-> TotalSize(regions[i])])

\* The decomposition from what each I/O task gathers and the holes it finds.
SubsetDecomp(gdims, gathered, holes, needsfill) ==
    LET regions == [i \in IOTask |-> get_regions(gdims, iomap(gathered[i]))]
        stype(t, i) == IF i = default_subset_partition(t).color
                       THEN create_mpi_datatypes(<<subset_sindex(gathered[i], t)>>)[1] ELSE <<>>
    IN  [regions |-> regions,
         fillregions |-> [i \in IOTask |-> get_regions(gdims, holes[i])],
         llen |-> [i \in IOTask |-> Len(gathered[i])],
         maxiobuflen |-> compute_maxIObuffersize(regions),
         holegridsize |-> [i \in IOTask |-> Len(holes[i])],
         needsfill |-> needsfill,
         moves |-> Moves([t \in Task |-> [i \in IOTask |-> stype(t, i)]],
                         [i \in IOTask |-> [t \in Task |-> subset_rindex(gathered[i], t)]])]

subset_rearrange_create(gdims, map, readonly) ==
    LET needsfill == ~readonly /\ determine_fill(gdims, map)
    IN  SubsetDecomp(gdims, [i \in IOTask |-> Gathered(i, map)],
                     [i \in IOTask |-> IF needsfill THEN Holes(gdims, map, i) ELSE <<>>], needsfill)

-----------------------------------------------------------------------------
(***************************************************************************)
(* PIOc_InitDecomp.                                                        *)
(***************************************************************************)
\* An element behind a larger one (elements without a place aside) calls for sorting.
needssort(compmap) == \E m \in 2..Len(compmap) : compmap[m] > 0 /\ compmap[m] < compmap[m - 1]

remap(compmap) ==
    IF needssort(compmap)
    THEN SortSeq(Positions(compmap), LAMBDA a, b : compmap[a] < compmap[b])
    ELSE Positions(compmap)

Sorted(compmap) == [m \in DOMAIN compmap |-> compmap[remap(compmap)[m]]]

\* The boxes are computed unless the caller gives them.
Boxes(d) == IF d.iobox = <<>> THEN CalcStartandCount(d.gdims) ELSE d.iobox

\* Decompositions of which elements share a place are for reading only, and are
\* only made by the subset rearranger.
Refused(d) ==
    IF d.readonly THEN d.rearranger # "subset"
    ELSE d.rearranger = "box" /\ NoBoxFor(d.gdims, Boxes(d), [t \in Task |-> Sorted(d.compmap[t])])

\* What every task knows of its own part.
Described(d) ==
    [map |-> [t \in Task |-> Sorted(d.compmap[t])],
     remap |-> [t \in Task |-> remap(d.compmap[t])],
     needssort |-> [t \in Task |-> needssort(d.compmap[t])],
     gdims |-> d.gdims, rearranger |-> d.rearranger, readonly |-> d.readonly]

PIOc_InitDecomp(d) ==
    LET map == Described(d).map
        io == IF d.rearranger = "box" THEN box_rearrange_create(d.gdims, Boxes(d), map)
              ELSE subset_rearrange_create(d.gdims, map, FALSE)
    IN  Described(d) @@ io

PIOc_InitDecomp_ReadOnly(d) ==
    Described(d) @@ subset_rearrange_create(d.gdims, Described(d).map, TRUE)

-----------------------------------------------------------------------------
(***************************************************************************)
(* Other ways to come by a decomposition: a map counted from 0, a block of *)
(* the grid for each task, and files that an earlier program wrote, as     *)
(* text (PIOc_writemap) or in netCDF (PIOc_write_nc_decomp).  What the     *)
(* files say besides the map is left out, and so is their layout as text.  *)
(***************************************************************************)
(***************************************************************************)
(* All of these end in a call of PIOc_InitDecomp; they are given here by   *)
(* the arguments that they call it with.                                   *)
(***************************************************************************)
\* Maps that come from a caller are counted from 0, those of the library from 1.
PIOc_init_decomp(d) == [d EXCEPT !.compmap = [t \in Task |-> [m \in DOMAIN @[t] |-> @[t][m] + 1]]]

-----------------------------------------------------------------------------
\* The block of a task, the last dimension varying fastest.
BlockMap(gdims, block) == [m \in 1..Size(block) |-> PlaceAt(gdims, block, m - 1)]

PIOc_InitDecomp_bc(d) ==
    [d EXCEPT !.compmap = [t \in Task |-> BlockMap(d.gdims, d.blocks[t])], !.rearranger = "subset"]

-----------------------------------------------------------------------------
(***************************************************************************)
(* Maps as text: a line for each task, in the order of their ranks.  It    *)
(* may be read by more tasks than wrote it.                                *)
(***************************************************************************)
PIOc_writemap(gdims, maps) ==
    [npes |-> Len(maps), gdims |-> gdims,
     lines |-> [i \in DOMAIN maps |-> [rank |-> i - 1, map |-> maps[i]]]]

\* The map of a decomposition is saved as the library has it, sorted.
PIOc_write_decomp(iodesc) ==
    PIOc_writemap(iodesc.gdims, [i \in 1..NTasks |-> iodesc.map[i - 1]])

MapReadable(text) == text.npes \in 1..NTasks /\ \A i \in DOMAIN text.lines : text.lines[i].rank = i - 1

PIOc_readmap(text) ==
    IF MapReadable(text) THEN [t \in Task |-> IF t < text.npes THEN text.lines[t + 1].map ELSE <<>>] ELSE <<>>

-----------------------------------------------------------------------------
(***************************************************************************)
(* Decomposition files: a row of the same length for each task, counted    *)
(* from 0 and filled up, and the length of each.                           *)
(***************************************************************************)
NC_FILL_INT == "fill"

pioc_write_nc_decomp_int(gdims, task_maplen, map) ==
    [dim |-> Len(gdims), task |-> NTasks, map_element |-> MaxOf(task_maplen),
     global_size |-> gdims, maplen |-> task_maplen, map |-> map, max_maplen |-> MaxOf(task_maplen)]

PIOc_write_nc_decomp(iodesc) ==
    LET task_maplen == [t \in Task |-> Len(iodesc.map[t])]
        width == MaxOf(task_maplen)
        full_map == [i \in 0..(NTasks * width - 1) |->
                        LET t == i \div width
                            e == i % width
                        IN  IF e < task_maplen[t] THEN iodesc.map[t][e + 1] - 1 ELSE NC_FILL_INT]
    IN  pioc_write_nc_decomp_int(iodesc.gdims, task_maplen, full_map)

pioc_read_nc_decomp_int(nc) ==
    [gdims |-> nc.global_size, num_tasks |-> nc.task, task_maplen |-> nc.maplen,
     max_maplen |-> nc.max_maplen, map |-> nc.map]

\* As many tasks as wrote it; the rearranger is the default one and computes its boxes.
PIOc_read_nc_decomp(nc, rearranger) ==
    LET in == pioc_read_nc_decomp_int(nc)
    IN  IF in.num_tasks # NTasks THEN <<>>
        ELSE [gdims |-> in.gdims, rearranger |-> rearranger, iobox |-> <<>>, readonly |-> FALSE,
              compmap |-> [t \in Task |-> [e \in 1..in.task_maplen[t] |->
                                              in.map[t * in.max_maplen + e - 1] + 1]]]

-----------------------------------------------------------------------------
Counted0(compmap) == [t \in Task |-> [m \in DOMAIN compmap[t] |-> compmap[t][m] - 1]]

\* The arguments that PIOc_InitDecomp gets for the decomposition d, which for a file
\* has been made and saved before.
Arguments(d) ==
    CASE d.from = "map" -> d
      [] d.from = "map from 0" -> PIOc_init_decomp([d EXCEPT !.compmap = Counted0(@)])
      [] d.from = "blocks" -> PIOc_InitDecomp_bc(d)
      [] d.from = "text" -> [d EXCEPT !.compmap = PIOc_readmap(PIOc_write_decomp(Described(d)))]
      [] d.from = "file" -> PIOc_read_nc_decomp(PIOc_write_nc_decomp(Described(d)), d.rearranger)

Decomposition(d) ==
    IF d.readonly THEN PIOc_InitDecomp_ReadOnly(d) ELSE PIOc_InitDecomp(Arguments(d))
=============================================================================
