------------------------------ MODULE PioDarray ------------------------------
(***************************************************************************)
(* Distributed arrays of the parallel I/O library (pio_darray.c,           *)
(* pio_darray_int.c, with PIOc_setframe, PIOc_advanceframe, PIOc_sync and  *)
(* PIOc_closefile).  PIOc_write_darray only copies an array to a buffer;   *)
(* buffers are rearranged to the I/O tasks and written when one is full or *)
(* the file is synchronised, and with PnetCDF the last requests stay       *)
(* posted, referring to buffers of the I/O tasks.  The calls are           *)
(* collective: each is one step, pio_swapm is the subject of PioSwap.      *)
(***************************************************************************)
EXTENDS PioRearrange

CONSTANTS
    Var,            \* the variables of the file
    RecVar,         \* those with an unlimited dimension
    Scenarios,      \* [decomps, of, spare, iotype, extra]: decompositions, which one
                    \* each variable is written with and which ones are only for reading, and
                    \* how many elements the caller's arrays have beyond the decomposition's
    FillValue,      \* the fill value of each variable
    MaxRecord,      \* records are numbered from 0 to this
    MaxWrites,      \* how many arrays are written
    MaxIoData       \* what an I/O task may buffer, in elements; INT_MAX bytes in the code

VARIABLES
    scenario,   \* the one that was chosen
    iodesc,     \* the decompositions made so far
    record,     \* the frame of each variable (vdesc->record)
    buffer,     \* the multi-buffers of the file, in the order of their creation
    stored,     \* the file: cells <<variable, record, place>>
    iobuf,      \* the data buffer of each I/O task (file->iobuf)
    fillbuf,    \* the buffers of fill values, kept at a variable (vdesc->fillbuf)
    posted,     \* write requests that are not complete
    mode,       \* how the file is open
    puts, call, \* see module ArrayFile
    got         \* what the last call has read

file == <<stored, iobuf, fillbuf, posted>>
vars == <<scenario, iodesc, record, buffer, file, mode, puts, call, got>>

none == <<>>
Junk == <<0, 0, -2, 0>>         \* what malloc leaves in a buffer
Fill(v) == <<FillValue[v], 0, -1, 0>>
Value(v, r, n, g) == <<v, r, n, g>>     \* what the n-th array put there has for place g

Record(v) == IF v \in RecVar THEN 0..MaxRecord ELSE {0}
Records == UNION {{v} \X Record(v) : v \in Var}
Grid == 1..Product(scenario.decomps[1].gdims)
Cells == UNION {{v} \X Record(v) \X Grid : v \in Var}
Desc(v) == iodesc[scenario.of[v]]
Map(id, t) == scenario.decomps[id].compmap[t]

IsPnetCDF == scenario.iotype = "pnetcdf"
IsSerial == scenario.iotype = "netcdf"

-----------------------------------------------------------------------------
(***************************************************************************)
(* Writing.  A state of the file's output side is a record of stored,      *)
(* iobuf, fillbuf and posted.                                              *)
(***************************************************************************)
Output == [stored |-> stored, iobuf |-> iobuf, fillbuf |-> fillbuf, posted |-> posted]

BufferOf(d, e, i) == IF e.fill THEN d.fillbuf[e.owner][i] ELSE d.iobuf[i]

\* A request takes its data from the buffers as they are now.
Complete(d, e) ==
    LET Source(c) == {p \in e.cells : p.place = c[3]}
        Takes(c) == c[1] = e.vid /\ c[2] = e.frame /\ Source(c) # {}
        New(c) == LET p == CHOOSE p \in Source(c) : TRUE
                      b == BufferOf(d, e, p.io)
                  IN  IF p.index \in DOMAIN b THEN b[p.index] ELSE Junk
    IN  [d EXCEPT !.stored = [c \in DOMAIN @ |-> IF Takes(c) THEN New(c) ELSE @[c]]]

wait_all(d) == [FoldLeft(Complete, d, d.posted) EXCEPT !.posted = <<>>]

\* The requests are waited for, then the buffers they refer to are freed.
flush_output_buffer(d) ==
    [wait_all(d) EXCEPT !.iobuf = [i \in IOTask |-> none],
                        !.fillbuf = [v \in Var |-> [i \in IOTask |-> none]]]

\* The cells that an array at first in an I/O task's buffer belongs to.  Parallel
\* netCDF-4 takes each region's own offset, the other ways to write go through the
\* buffer region by region.
RegionCells(desc, region, i, first) ==
    {[place |-> PlaceAt(desc.gdims, region, o), io |-> i, index |-> first + o + 1] : o \in 0..(Size(region) - 1)}

AtOffsets(desc, regions, i, first) ==
    UNION {RegionCells(desc, regions[r], i, first + regions[r].loffset) : r \in DOMAIN regions}

InSequence(desc, regions, i, first) ==
    UNION {RegionCells(desc, regions[r], i, first + TotalSize(SubSeq(regions, 1, r - 1))) : r \in DOMAIN regions}

\* One write of each variable with the part of the I/O tasks I; all of them take
\* the frame that was set when the array was put, not the present one.
Requests(desc, vid, frame, fill, I, inSequence) ==
    LET regions == IF fill THEN desc.fillregions ELSE desc.regions
        llen == IF fill THEN desc.holegridsize ELSE desc.llen
    IN  [nv \in DOMAIN vid |->
            [vid |-> vid[nv], frame |-> IF frame = none THEN 0 ELSE frame[nv], owner |-> vid[1], fill |-> fill,
             cells |-> UNION {IF inSequence THEN InSequence(desc, regions[i], i, (nv - 1) * llen[i])
                              ELSE AtOffsets(desc, regions[i], i, (nv - 1) * llen[i]) : i \in I}]]

\* All I/O tasks write their parts; PnetCDF first completes what is posted.
write_darray_multi_par(d, desc, vid, frame, fill) ==
    IF IsPnetCDF THEN [wait_all(d) EXCEPT !.posted = @ \o Requests(desc, vid, frame, fill, IOTask, TRUE)]
    ELSE FoldLeft(Complete, d, Requests(desc, vid, frame, fill, IOTask, FALSE))

\* The first I/O task writes its own part, then receives and writes those of the others.
recv_and_write_data(d, desc, vid, frame, fill) ==
    FoldLeft(LAMBDA s, i : FoldLeft(Complete, s, Requests(desc, vid, frame, fill, {i}, TRUE)),
             d, Positions(ioranks))

write_darray(d, desc, vid, frame, fill) ==
    IF IsSerial THEN recv_and_write_data(d, desc, vid, frame, fill)
    ELSE write_darray_multi_par(d, desc, vid, frame, fill)

\* What a task sends: its arrays in the order of their places if they need sorting.
pio_sorted_copy(desc, t, data, nvars) ==
    LET maplen == Len(desc.remap[t])
    IN  [p \in 1..(nvars * maplen) |->
            LET m == ((p - 1) % maplen) + 1 IN data[desc.remap[t][m] + (p - m)]]

\* An I/O task's buffer before the data come: box fill values go in beforehand.
NewBuffer(desc, i, vid) ==
    LET rlen == IF desc.llen[i] > 0 \/ (IsSerial /\ i = 1) THEN desc.maxiobuflen * Len(vid) ELSE 0
    IN  [p \in 1..rlen |->
            IF desc.needsfill /\ desc.rearranger = "box" THEN Fill(vid[((p - 1) \div desc.maxiobuflen) + 1])
            ELSE Junk]

\* Each element goes to its slot; variables follow one another at the stride
\* of the decomposition's length on both sides.
rearrange_comp2io(desc, buf, i, sbuf, nvars) ==
    LET ndof(t) == Len(desc.remap[t])
        Arriving(p) == {x \in desc.moves[i] \X (0..(nvars - 1)) : x[1].to + x[2] * desc.llen[i] + 1 = p}
    IN  [p \in DOMAIN buf |->
            IF Arriving(p) = {} THEN buf[p]
            ELSE LET x == CHOOSE x \in Arriving(p) : TRUE
                 IN  sbuf[x[1].task][x[1].from + x[2] * ndof(x[1].task)]]

FillBuffer(desc, i, vid) ==
    [p \in 1..(desc.holegridsize[i] * Len(vid)) |-> Fill(vid[((p - 1) \div desc.holegridsize[i]) + 1])]

\* With the subset rearranger the holes are written after the data.
WriteFill(d, desc, wmb) ==
    IF desc.rearranger = "subset" /\ desc.needsfill
    THEN write_darray([d EXCEPT !.fillbuf[wmb.vid[1]] = [i \in IOTask |-> FillBuffer(desc, i, wmb.vid)]],
                      desc, wmb.vid, wmb.frame, TRUE)
    ELSE d

Freed(d, flushtodisk) == IF IsPnetCDF /\ ~flushtodisk THEN d ELSE flush_output_buffer(d)

\* Mutant: new data go to the I/O tasks while requests still refer to the old ones.
PIOc_write_darray_multi_reusing(d, wmb, flushtodisk) ==
    LET desc == iodesc[wmb.ioid]
        nvars == Len(wmb.vid)
        sbuf == [t \in Task |-> pio_sorted_copy(desc, t, wmb.data[t], nvars)]
        data == [d EXCEPT !.iobuf = [i \in IOTask |->
                     rearrange_comp2io(desc, NewBuffer(desc, i, wmb.vid), i, sbuf, nvars)]]
    IN  Freed(WriteFill(write_darray(data, desc, wmb.vid, wmb.frame, FALSE), desc, wmb), flushtodisk)

PIOc_write_darray_multi(d, wmb, flushtodisk) ==
    LET desc == iodesc[wmb.ioid]
        nvars == Len(wmb.vid)
        sbuf == [t \in Task |-> pio_sorted_copy(desc, t, wmb.data[t], nvars)]
        start == IF IsPnetCDF THEN flush_output_buffer(d) ELSE d
        data == [start EXCEPT !.iobuf = [i \in IOTask |->
                     rearrange_comp2io(desc, NewBuffer(desc, i, wmb.vid), i, sbuf, nvars)]]
    IN  Freed(WriteFill(write_darray(data, desc, wmb.vid, wmb.frame, FALSE), desc, wmb), flushtodisk)

NewMultiBuffer(ioid, recvar) ==
    [ioid |-> ioid, recordvar |-> recvar, vid |-> <<>>, frame |-> <<>>, data |-> [t \in Task |-> <<>>]]

flush_buffer(d, wmb, flushtodisk) ==
    IF wmb.vid # <<>> THEN PIOc_write_darray_multi(d, wmb, flushtodisk) ELSE d

SetOutput(d) == stored' = d.stored /\ iobuf' = d.iobuf /\ fillbuf' = d.fillbuf /\ posted' = d.posted

-----------------------------------------------------------------------------
(***************************************************************************)
(* The calls.                                                              *)
(***************************************************************************)
Ready == Len(iodesc) = Len(scenario.decomps) /\ mode # "closed"

\* The decompositions are made before anything else.
InitDecomp ==
    /\ Len(iodesc) < Len(scenario.decomps)
    /\ LET d == scenario.decomps[Len(iodesc) + 1]
       IN  /\ ~Refused(d)
           /\ iodesc' = Append(iodesc, Decomposition(d))
    /\ call' = "decomp" /\ got' = none
    /\ UNCHANGED <<scenario, record, buffer, file, mode, puts>>

PIOc_setframe(v, frame) ==
    /\ Ready /\ v \in RecVar /\ frame # record[v]
    /\ record' = [record EXCEPT ![v] = frame]
    /\ call' = "frame" /\ got' = none
    /\ UNCHANGED <<scenario, iodesc, buffer, file, mode, puts>>

PIOc_advanceframe(v) ==
    /\ Ready /\ v \in RecVar /\ record[v] < MaxRecord
    /\ record' = [record EXCEPT ![v] = @ + 1]
    /\ call' = "frame" /\ got' = none
    /\ UNCHANGED <<scenario, iodesc, buffer, file, mode, puts>>

NumPuts == MapThenSumSet(LAMBDA r : puts[r], Records)

\* The array that a caller passes: its elements by their places, then the excess ones.
Array(v, r, t) ==
    [k \in DOMAIN Map(scenario.of[v], t) |-> Value(v, r, puts[<<v, r>>] + 1, Map(scenario.of[v], t)[k])]
    \o [e \in 1..scenario.extra |-> Value(v, r, puts[<<v, r>>] + 1, 0)]

\* The file's buffer for the decomposition and kind of variable; a new one comes last.
Place(ioid, recvar) ==
    LET same == {b \in DOMAIN buffer : buffer[b].ioid = ioid /\ buffer[b].recordvar = recvar}
    IN  IF same = {} THEN Len(buffer) + 1 ELSE CHOOSE b \in same : TRUE

\* 2: the I/O tasks would have too much; 1: some task could not get memory.
NeedsFlush(desc, wmb) ==
    IF (1 + Len(wmb.vid)) * desc.maxiobuflen > MaxIoData THEN {2} ELSE {0, 1}

PIOc_write_darray(v) ==
    LET r == IF v \in RecVar THEN record[v] ELSE 0
        id == scenario.of[v]
        b == Place(id, v \in RecVar)
        wmb == IF b \in DOMAIN buffer THEN buffer[b] ELSE NewMultiBuffer(id, v \in RecVar)
    IN  /\ Ready /\ mode = "write"
        /\ ~iodesc[id].readonly
        /\ r \in Record(v)
        /\ NumPuts < MaxWrites
        /\ \E needsflush \in NeedsFlush(iodesc[id], wmb) :
              LET kept == IF needsflush = 0 THEN wmb ELSE NewMultiBuffer(id, v \in RecVar)
                  new == [kept EXCEPT !.vid = Append(@, v),
                                      !.frame = IF v \in RecVar THEN Append(@, r) ELSE @,
                                      !.data = [t \in Task |-> @[t] \o Array(v, r, t)]]
              IN  /\ IF needsflush = 0 THEN UNCHANGED file
                     ELSE SetOutput(flush_buffer(Output, wmb, needsflush = 2))
                  /\ buffer' = IF b \in DOMAIN buffer THEN [buffer EXCEPT ![b] = new] ELSE Append(buffer, new)
        /\ puts' = [puts EXCEPT ![<<v, r>>] = @ + 1]
        /\ call' = "write" /\ got' = none
        /\ UNCHANGED <<scenario, iodesc, record, mode>>

\* Every buffer is flushed and deleted, then the requests are waited for.
FlushAll ==
    LET Completed(d) == IF IsPnetCDF THEN flush_output_buffer(d) ELSE d
    IN  IF mode = "write"
        THEN /\ SetOutput(Completed(FoldLeft(LAMBDA s, wmb : flush_buffer(s, wmb, TRUE), Output, buffer)))
             /\ buffer' = <<>>
        ELSE UNCHANGED <<buffer, file>>

PIOc_sync ==
    /\ Ready
    /\ FlushAll
    /\ call' = "sync" /\ got' = none
    /\ UNCHANGED <<scenario, iodesc, record, mode, puts>>

PIOc_closefile ==
    /\ Ready
    /\ FlushAll
    /\ mode' = "closed"
    /\ call' = "close" /\ got' = none
    /\ UNCHANGED <<scenario, iodesc, record, puts>>

\* Variables of a file that has just been opened have no frame.
PIOc_openfile ==
    /\ mode = "closed"
    /\ mode' = "read"
    /\ record' = [v \in Var |-> -1]
    /\ call' = "open" /\ got' = none
    /\ UNCHANGED <<scenario, iodesc, buffer, file, puts>>

-----------------------------------------------------------------------------
(***************************************************************************)
(* Reading.                                                                *)
(***************************************************************************)
\* What an I/O task gets of a record, cell by cell.
FromCells(desc, i, v, r, cells) ==
    [p \in 1..desc.llen[i] |->
        LET here == {c \in cells : c.index = p}
        IN  IF here = {} THEN Junk ELSE stored[<<v, r, (CHOOSE c \in here : TRUE).place>>]]

\* Each I/O task reads its regions to their offsets,
pio_read_darray_nc(desc, i, v, r) ==
    FromCells(desc, i, v, r, IF IsPnetCDF THEN InSequence(desc, desc.regions[i], i, 0)
                             ELSE AtOffsets(desc, desc.regions[i], i, 0))

\* or the first one reads the regions of all of them, and sends them theirs.
pio_read_darray_nc_serial(desc, i, v, r) ==
    FromCells(desc, i, v, r, InSequence(desc, desc.regions[i], i, 0))

\* What comes to a task; nothing comes for some elements.
rearrange_io2comp(desc, t, buf) ==
    LET From(m) == {x \in UNION {{i} \X desc.moves[i] : i \in IOTask} : x[2].task = t /\ x[2].from = m}
    IN  [m \in DOMAIN desc.remap[t] |->
            IF From(m) = {} THEN Junk
            ELSE LET x == CHOOSE x \in From(m) : TRUE IN buf[x[1]][x[2].to + 1]]

\* Mutant: what comes is sorted once more instead of put back in order.
sorted_copy_again(desc, t, data) == [k \in DOMAIN data |-> data[desc.remap[t][k]]]

\* pio_sorted_copy in the other direction: the order of the task's own array.
sorted_copy_back(desc, t, data) ==
    [k \in DOMAIN data |-> data[CHOOSE m \in DOMAIN data : desc.remap[t][m] = k]]

\* A variable without a frame is read from the first record.
PIOc_read_darray(v, id) ==
    LET desc == iodesc[id]
        r == IF v \in RecVar /\ record[v] >= 0 THEN record[v] ELSE 0
        buf == [i \in IOTask |-> IF IsSerial THEN pio_read_darray_nc_serial(desc, i, v, r)
                                 ELSE pio_read_darray_nc(desc, i, v, r)]
        back(t) == sorted_copy_back(desc, t, rearrange_io2comp(desc, t, buf))
    IN  /\ Ready
        /\ got' = [vid |-> v, frame |-> r, ioid |-> id, array |-> [t \in Task |-> back(t)]]
        /\ record' = [record EXCEPT ![v] = IF v \in RecVar THEN r ELSE @]
        /\ call' = "read"
        /\ UNCHANGED <<scenario, iodesc, buffer, file, mode, puts>>

-----------------------------------------------------------------------------
\* The file has been there before and is open for writing.
Init ==
    /\ scenario \in Scenarios
    /\ iodesc = <<>>
    /\ record = [v \in Var |-> -1]
    /\ buffer = <<>>
    /\ stored = [c \in Cells |-> Value(c[1], c[2], 0, c[3])]
    /\ iobuf = [i \in IOTask |-> none]
    /\ fillbuf = [v \in Var |-> [i \in IOTask |-> none]]
    /\ posted = <<>>
    /\ mode = "write"
    /\ puts = [r \in Records |-> 0]
    /\ call = "init" /\ got = none

Next ==
    \/ InitDecomp \/ PIOc_sync \/ PIOc_closefile \/ PIOc_openfile
    \/ \E v \in Var : \E frame \in 0..MaxRecord : PIOc_setframe(v, frame)
    \/ \E v \in Var : PIOc_advanceframe(v) \/ PIOc_write_darray(v)
    \/ \E v \in Var : \E id \in {scenario.of[v]} \cup scenario.spare : PIOc_read_darray(v, id)

Spec == Init /\ [][Next]_vars

-----------------------------------------------------------------------------
(***************************************************************************)
(* Properties.                                                             *)
(***************************************************************************)
Mapped(id) == UNION {Range(Map(id, t)) : t \in Task} \ {0}

\* Which of the arrays put there a cell shows: none of them if it has a value of another
\* place, record or variable, or one that nobody wrote.
Shown(c) ==
    LET x == stored[c]
        hole == Len(iodesc) >= scenario.of[c[1]] /\ c[3] \notin Mapped(scenario.of[c[1]])
    IN  CASE x[3] >= 0 /\ x = Value(c[1], c[2], x[3], c[3]) -> x[3]
          [] hole /\ x = Fill(c[1]) -> puts[<<c[1], c[2]>>]
          [] OTHER -> -1

Written == INSTANCE ArrayFile WITH at <- [c \in Cells |-> Shown(c)]

\* Through buffering, sorting, rearranging, merging of several variables' arrays in one
\* write, filling of holes and posted requests, every element of every array comes to its
\* own cell of the file; a cell never goes back to an older array, and after a sync or a
\* close the file shows what was written last (PIOc_write_darray to nc_put_vara or iput_varn).
KeepsData == Written!ArrayFileSpec

\* Reading gives each element the cell at its own place, also when several elements share
\* a place, when the map is not sorted and when it leaves out parts of the grid
\* (PIOc_read_darray).
ReadsStored ==
    got # none =>
        \A t \in Task : \A k \in DOMAIN Map(got.ioid, t) :
            LET place == Map(got.ioid, t)[k]
            IN  place > 0 => got.array[t][k] = stored[<<got.vid, got.frame, place>>]
=============================================================================
