------------------------------ MODULE SerialMpi ------------------------------
(***************************************************************************)
(* mpi-serial: what the MPI calls of a program make of the state of the    *)
(* library when the program is the only process (handles.c, list.c,        *)
(* comm.c, group.c, send.c, recv.c, req.c, probe.c, collective.c, mpi.c).  *)
(*                                                                         *)
(* A handle is an integer that names an item of a growing table.  Items    *)
(* not in use are in a list, and communicators, requests and datatypes     *)
(* share the table.  A communicator has a list of sends and a list of      *)
(* receives that wait for each other; a call that would have to wait ends  *)
(* the program, since nobody else is there to help.                        *)
(*                                                                         *)
(* The program is any sequence of calls from a plan: it keeps each request *)
(* in a slot with a buffer of its own, and communicators and datatypes in  *)
(* variables.  A call made of other calls (MPI_Send is MPI_Isend and       *)
(* MPI_Wait) is carried out one of them after the other.                   *)
(***************************************************************************)
EXTENDS SerialTypes

CONSTANTS BLOCK_ITEMS, MAX_BLOCKS,    \* size of the table (256 and 1024)
          Slots,                      \* 1 .. n
          CommVars, TypeVars,
          BufferSize,                 \* bytes of a buffer
          Plans,                      \* [calls: how many, offered: which]
          Garbage                     \* what malloc may leave in a flag

ASSUME SerialAssumption ==
  /\ {BLOCK_ITEMS, MAX_BLOCKS, BufferSize} \subseteq Nat \ {0}
  /\ BLOCK_ITEMS > 1
  /\ CommVars \subseteq Nat /\ 1 \in CommVars /\ IsFiniteSet(CommVars) /\ IsFiniteSet(TypeVars)
  /\ IsFiniteSet(Slots) /\ Slots = 1 .. Cardinality(Slots)

MPI_COMM_WORLD == 1
MPI_ANY_TAG    == -1
MPI_PROC_NULL  == -2
MPI_ROOT       == -3
MPI_UNDEFINED  == -1
Stale == "stale"                      \* a field nobody has set

VARIABLES plan,     \* what the program may still do
          lib,      \* [nblocks, free: handles not in use, data: what the others hold]
          comm, req, type,    \* the program's variables: handles, 0 for none
          group,    \* "null", "empty" or "one"
          mem, packed,        \* buffers
          said,     \* per slot: the part of its buffer that a call has named
          meaning,  \* per datatype: what MPI says it is
          todo,     \* calls left of the composite one under way
          dead,     \* the library has ended the program
          probed,   \* the tag the last probe found
          asked     \* what the last call asks for, see OneProcess

typeVars == <<type, meaning>>
commVars == <<comm, group>>
slotVars == <<req, mem, said>>
vars == <<plan, lib, commVars, typeVars, slotVars, packed, todo, dead, probed, asked>>

(***************************************************************************)
(* handles.c                                                               *)
(***************************************************************************)
HANDLE(block, index) == block * BLOCK_ITEMS + index

init_block(block) == [i \in 1 .. BLOCK_ITEMS |-> HANDLE(block, i - 1)]

\* Handle 0 stands for NULL and is never given out
init_handles == [nblocks |-> 1, free |-> Tail(init_block(0)), data |-> <<>>]

Exhausted(l) == l.free = <<>> /\ l.nblocks = MAX_BLOCKS

NewHandle(l) == IF l.free # <<>> THEN Head(l.free) ELSE HANDLE(l.nblocks, 0)

mpi_alloc_handle(l, data) ==
  [nblocks |-> IF l.free # <<>> THEN l.nblocks ELSE l.nblocks + 1,
   free |-> Tail(IF l.free # <<>> THEN l.free ELSE init_block(l.nblocks)),
   data |-> [h \in DOMAIN l.data \cup {NewHandle(l)} |->
               IF h = NewHandle(l) THEN data ELSE l.data[h]]]

mpi_free_handle(l, h) ==
  IF h = 0 THEN l
  ELSE [l EXCEPT !.free = <<h>> \o @,
                 !.data = [k \in DOMAIN l.data \ {h} |-> l.data[k]]]

(***************************************************************************)
(* list.c: a list is the sequence of the handles of its requests.          *)
(***************************************************************************)
AP_list_new == <<>>
AP_list_append(list, item) == Append(list, item)
AP_list_size(list) == Len(list)
AP_list_delete_item(list, k) == RemoveAt(list, k)

\* The place of the first item that the caller's function accepts, 0 if there is none
AP_list_search_func(list, accepted) == SelectInSeq(list, LAMBDA h : h \in accepted)

(***************************************************************************)
(* Communicators and groups.                                               *)
(***************************************************************************)
mpi_comm_new(l) ==
  mpi_alloc_handle(l, [kind |-> "comm", sendlist |-> AP_list_new, recvlist |-> AP_list_new])

\* What a call makes a new communicator of: of nothing, when nobody is in it
Creates(op) ==
  CASE op.op = "MPI_Comm_dup"    -> TRUE
    [] op.op = "MPI_Cart_create" -> TRUE
    [] op.op = "MPI_Comm_create" -> group = "one"
    [] op.op = "MPI_Comm_split"  -> op.color # MPI_UNDEFINED
    [] op.op = "MPI_Intercomm_create" -> ~(comm[op.c] = 0 /\ comm[op.peer] = 0)

Aborts == "abort"

MPI_Comm_group(c) == IF comm[c] = 0 THEN "null" ELSE "one"

MPI_Group_incl(g, ranks) ==
  CASE g = "null" -> Aborts
    [] g # "null" /\ (g = "empty" \/ ranks = <<>>) -> "empty"
    [] g = "one" /\ ranks = <<0>> -> "one"
    [] OTHER -> Aborts

MPI_Group_range_incl(g, ranges) ==
  CASE g = "null" -> Aborts
    [] g # "null" /\ (g = "empty" \/ ranges = <<>>) -> "empty"
    [] g = "one" /\ Len(ranges) = 1 /\ ranges[1][1] = 0 /\ ranges[1][2] = 0 -> "one"
    [] OTHER -> Aborts

MPI_Group_union(g1, g2) ==
  IF "null" \in {g1, g2} THEN Aborts ELSE IF "one" \in {g1, g2} THEN "one" ELSE "empty"

MPI_Group_intersection(g1, g2) ==
  IF "null" \in {g1, g2} THEN Aborts ELSE IF {g1, g2} = {"one"} THEN "one" ELSE "empty"

MPI_Group_difference(g1, g2) ==
  IF "null" \in {g1, g2} THEN Aborts
  ELSE IF g1 = "empty" \/ g2 = "one" THEN "empty" ELSE "one"

NewGroup(op) ==
  CASE op.op = "MPI_Comm_group"         -> MPI_Comm_group(op.c)
    [] op.op = "MPI_Group_incl"         -> MPI_Group_incl(group, op.ranks)
    [] op.op = "MPI_Group_range_incl"   -> MPI_Group_range_incl(group, op.ranks)
    [] op.op = "MPI_Group_union"        -> MPI_Group_union(group, op.other)
    [] op.op = "MPI_Group_intersection" -> MPI_Group_intersection(group, op.other)
    [] op.op = "MPI_Group_difference"   -> MPI_Group_difference(group, op.other)
    [] op.op = "MPI_Group_free"         -> "null"

(***************************************************************************)
(* Buffers.  A slot is idle, or its request is pending, or a call that     *)
(* needs no request has just used its buffer.                              *)
(***************************************************************************)
Bytes   == 0 .. BufferSize - 1
Blank   == [b \in Bytes |-> -1]
Filled  == [b \in Bytes |-> 1000 * plan.calls + b]     \* what the program sends
Nothing == [n |-> 0, t |-> simpletypes.MPI_INT, off |-> 0]
Part(n, t, off) == [n |-> n, t |-> t, off |-> off]

mpi_handle_to_datatype(t) ==
  IF t \in DOMAIN simpletypes THEN simpletypes[t] ELSE lib.data[type[t]].type

Usable(t) == IF t \in DOMAIN simpletypes THEN TRUE ELSE type[t] # 0

\* The bytes of a part of a buffer
Text(buffer, part) ==
  IF part.n = 0 THEN <<>>
  ELSE Pack([b \in 0 .. BufferSize - 1 - part.off |-> buffer[part.off + b]], part.n, part.t)

(***************************************************************************)
(* A call the library does not accept, or has no room for, ends the        *)
(* program.                                                                *)
(***************************************************************************)
Abort == /\ dead' = TRUE /\ asked' = [kind |-> "wrong"]
         /\ UNCHANGED <<lib, commVars, typeVars, slotVars, packed, probed>>

(***************************************************************************)
(* send.c, recv.c, probe.c                                                 *)
(***************************************************************************)
mpi_match_recv(h, tag) == lib.data[h].tag \in {MPI_ANY_TAG, tag}
mpi_match_send(h, tag) == tag \in {MPI_ANY_TAG, lib.data[h].tag}

Request(complete, tag, buf) ==
  [kind |-> "req", complete |-> complete, tag |-> tag, buf |-> buf]

\* The new request alone, complete
AtOnce(op, tag) ==
  /\ lib' = mpi_alloc_handle(lib, Request(TRUE, tag, op.s))
  /\ asked' = [kind |-> "nowhere", s |-> op.s]

\* The place of the receive, or of the send, that has waited for this call
Wanting(op) == LET list == lib.data[comm[op.c]].recvlist
               IN  AP_list_search_func(list, {h \in ToSet(list) : mpi_match_recv(h, op.tag)})
Sent(op)    == LET list == lib.data[comm[op.c]].sendlist
               IN  AP_list_search_func(list, {h \in ToSet(list) : mpi_match_send(h, op.tag)})

\* Whether the library takes a call that makes a request; a type is looked at
\* only when there is something to copy
Refuses(op, k) ==
  \/ op.rank \notin {0, MPI_PROC_NULL}
  \/ Exhausted(lib)
  \/ op.rank = 0 /\ k # 0 /\ ~mpi_handle_to_datatype(op.t).committed

PostSend(op) ==
  LET k == Wanting(op)
      r == lib.data[comm[op.c]].recvlist[k]
      to == lib.data[r].buf
      t == mpi_handle_to_datatype(op.t)
      Listed == [lib EXCEPT !.data[comm[op.c]].sendlist = AP_list_append(@, NewHandle(lib))]
      Met == [lib EXCEPT !.data[comm[op.c]].recvlist = AP_list_delete_item(@, k),
                         !.data[r].complete = TRUE, !.data[r].tag = op.tag]
  IN  /\ req' = [req EXCEPT ![op.s] = NewHandle(lib)]
      /\ IF op.rank = MPI_PROC_NULL
         THEN /\ AtOnce(op, Stale)
              /\ mem' = [mem EXCEPT ![op.s] = Filled]
              /\ said' = [said EXCEPT ![op.s] = Part(op.n, t, 0)]
         ELSE /\ asked' = [kind |-> "send", c |-> op.c, s |-> op.s, tag |-> op.tag,
                           ready |-> op.op = "MPI_Irsend"]
              /\ IF k = 0
                 THEN /\ lib' = mpi_alloc_handle(Listed, Request(FALSE, op.tag, op.s))
                      /\ mem' = [mem EXCEPT ![op.s] = Filled]
                      /\ said' = [said EXCEPT ![op.s] = Part(op.n, t, 0)]
                 ELSE /\ lib' = mpi_alloc_handle(Met, Request(TRUE, Stale, op.s))
                      /\ mem' = [mem EXCEPT ![op.s] = Filled,
                                   ![to] = Pcopy_data2(Filled, 0, t, @, 0, op.n, t)]
                      /\ said' = [said EXCEPT ![op.s] = Part(op.n, t, 0), ![to].n = op.n]
      /\ UNCHANGED <<commVars, typeVars, packed, probed>>

MPI_Isend(op) ==
  /\ op.op = "MPI_Isend"
  /\ IF Refuses(op, Wanting(op)) THEN Abort ELSE PostSend(op) /\ UNCHANGED dead

\* Ready mode: the receive must be there
MPI_Irsend(op) ==
  /\ op.op = "MPI_Irsend"
  /\ IF Refuses(op, Wanting(op)) THEN Abort
     ELSE PostSend(op) /\ dead' = ~lib'.data[req'[op.s]].complete

MPI_Irecv(op) ==
  LET k == Sent(op)
      sreq == lib.data[comm[op.c]].sendlist[k]
      from == lib.data[sreq].buf
      t == mpi_handle_to_datatype(op.t)
      Listed == [lib EXCEPT !.data[comm[op.c]].recvlist = AP_list_append(@, NewHandle(lib))]
      Met == [lib EXCEPT !.data[comm[op.c]].sendlist = AP_list_delete_item(@, k),
                         !.data[sreq].complete = TRUE]
  IN  /\ op.op = "MPI_Irecv"
      /\ IF Refuses(op, k) THEN Abort
         ELSE /\ req' = [req EXCEPT ![op.s] = NewHandle(lib)]
              /\ IF op.rank = MPI_PROC_NULL
                 THEN AtOnce(op, MPI_ANY_TAG) /\ UNCHANGED <<mem, said>>
                 ELSE /\ asked' = [kind |-> "receive", c |-> op.c, s |-> op.s, tag |-> op.tag]
                      /\ IF k = 0
                         THEN /\ lib' = mpi_alloc_handle(Listed, Request(FALSE, op.tag, op.s))
                              /\ said' = [said EXCEPT ![op.s] = Part(0, t, 0)]
                              /\ UNCHANGED mem
                         ELSE /\ lib' = mpi_alloc_handle(Met,
                                          Request(TRUE, lib.data[sreq].tag, op.s))
                              /\ mem' = [mem EXCEPT ![op.s] =
                                           Pcopy_data2(mem[from], 0, t, @, 0, op.n, t)]
                              /\ said' = [said EXCEPT ![op.s] = Part(said[from].n, t, 0)]
              /\ UNCHANGED <<commVars, typeVars, packed, probed, dead>>

MPI_Iprobe(op) ==
  LET list == lib.data[comm[op.c]].sendlist
      k == Sent(op)
  IN  /\ op.op \in {"MPI_Iprobe", "MPI_Probe"}
      /\ IF op.rank # 0 THEN Abort
         ELSE /\ probed' = IF k = 0 THEN <<>> ELSE << lib.data[list[k]].tag >>
              /\ dead' = (op.op = "MPI_Probe" /\ k = 0)
              /\ asked' = [kind |-> "probe", c |-> op.c, tag |-> op.tag,
                           waits |-> op.op = "MPI_Probe"]
              /\ UNCHANGED <<lib, commVars, typeVars, slotVars, packed>>

(***************************************************************************)
(* req.c.  A test frees the handle of a request that is complete; the      *)
(* program then uses the slot for something else.                          *)
(***************************************************************************)
\* (mutant) the program keeps the handle
MPI_Test_keeping(w, s) ==
  IF w.req[s] = 0 THEN [w EXCEPT !.flag = TRUE]
  ELSE IF lib.data[w.req[s]].complete
       THEN [w EXCEPT !.lib = mpi_free_handle(@, w.req[s]), !.flag = TRUE]
       ELSE [w EXCEPT !.flag = FALSE]

MPI_Test(w, s) ==
  IF w.req[s] = 0 THEN [w EXCEPT !.flag = TRUE]
  ELSE IF lib.data[w.req[s]].complete
       THEN [lib |-> mpi_free_handle(w.lib, w.req[s]), req |-> [w.req EXCEPT ![s] = 0],
             flag |-> TRUE]
       ELSE [w EXCEPT !.flag = FALSE]

InOrder == [s \in 1 .. Cardinality(Slots) |-> s]
Untested(flag) == [lib |-> lib, req |-> req, flag |-> flag]

\* One test after the other, in the order of the slots, while the flag is as it should be
TestEach(slots, flag, goesOn) ==
  FoldLeft(LAMBDA w, s : IF s \in slots /\ w.flag \in goesOn THEN MPI_Test(w, s) ELSE w,
           Untested(flag), InOrder)

MPI_Testany(slots) == TestEach(slots, FALSE, {FALSE})

\* The condition "i<count && flag" looks at the address of the flag
MPI_Testall(slots) == TestEach(slots, TRUE, BOOLEAN)

MPI_Waitall(slots) == TestEach(slots, TRUE, {TRUE})

MPI_Testsome(slots) == TestEach(slots, FALSE, BOOLEAN)

\* What a call leaves, and whether it ends the program: waits do, except that
\* MPI_Waitsome looks at the address of its count
Tested(w, how, slots, waits) ==
  /\ lib' = w.lib /\ req' = w.req
  /\ mem'  = [s \in Slots |-> IF w.req[s] = 0 THEN Blank ELSE mem[s]]
  /\ said' = [s \in Slots |-> IF w.req[s] = 0 THEN Nothing ELSE said[s]]
  /\ dead' = (waits /\ ~w.flag)
  /\ asked' = [kind |-> "look", how |-> how, slots |-> slots, waits |-> waits]
  /\ UNCHANGED <<commVars, typeVars, packed, probed>>

MPI_Wait(op) ==
  /\ op.op \in {"MPI_Test", "MPI_Wait"}
  /\ Tested(MPI_Test(Untested(FALSE), op.s), "until", {op.s}, op.op = "MPI_Wait")

MPI_Waitany(op) == /\ op.op \in {"MPI_Testany", "MPI_Waitany"}
                   /\ Tested(MPI_Testany(op.slots), "one", op.slots, op.op = "MPI_Waitany")

Testall(op) == /\ op.op = "MPI_Testall"
               /\ Tested(MPI_Testall(op.slots), "each", op.slots, FALSE)

Waitall(op) == /\ op.op = "MPI_Waitall"
               /\ Tested(MPI_Waitall(op.slots), "until", op.slots, TRUE)

MPI_Waitsome(op) == /\ op.op \in {"MPI_Testsome", "MPI_Waitsome"}
                    /\ Tested(MPI_Testsome(op.slots), "each", op.slots, FALSE)

\* The program frees only requests that are complete
MPI_Request_free(op) ==
  /\ op.op = "MPI_Request_free"
  /\ IF req[op.s] = 0 THEN TRUE ELSE lib.data[req[op.s]].complete
  /\ Tested([lib |-> mpi_free_handle(lib, req[op.s]), req |-> [req EXCEPT ![op.s] = 0],
              flag |-> TRUE], "each", {op.s}, FALSE)

(***************************************************************************)
(* collective.c, pack.c: from one buffer of the only process to another.   *)
(***************************************************************************)
Copying  == {"MPI_Gather", "MPI_Gatherv", "MPI_Allgather", "MPI_Allgatherv", "MPI_Scatter",
             "MPI_Scatterv", "MPI_Alltoall", "MPI_Alltoallv", "MPI_Alltoallw"}
Reducing == {"MPI_Reduce", "MPI_Allreduce", "MPI_Reduce_scatter", "MPI_Scan"}
Collectives == Copying \cup Reducing \cup {"MPI_Bcast", "MPI_Barrier"}

\* What a call does: nothing, end the program, or copy from a part of the send
\* buffer to a part of the receive buffer
Nil     == [does |-> "nothing"]
BadRoot == [does |-> "abort"]
Copy(from, to) == [does |-> "copy", from |-> from, to |-> to]

\* The parts a call names; displacements count items of their type
SendPart(op)   == Part(op.n, mpi_handle_to_datatype(op.t), 0)
RecvPart(op)   == Part(op.rn, mpi_handle_to_datatype(op.rt), 0)
At0(op, part)  == [part EXCEPT !.off = op.displs * Type_extent(part.t)]
AtByte(op, part) == [part EXCEPT !.off = op.displs]
Same(op)       == Copy(SendPart(op), SendPart(op))      \* one count and type for both

\* At the root MPI_ROOT nothing is done, at any but 0 the program ends
FromRoot(op, what) ==
  IF op.root = MPI_ROOT THEN Nil ELSE IF op.root # 0 THEN BadRoot ELSE what
\* MPI_IN_PLACE, where it is looked for
Apart(op, what) == IF op.inplace THEN Nil ELSE what

MPI_Barrier(op)    == Nil
MPI_Bcast(op)      == FromRoot(op, Nil)
MPI_Gather(op)     == Apart(op, FromRoot(op, Copy(SendPart(op), RecvPart(op))))
MPI_Gatherv(op)    == Apart(op, FromRoot(op, Copy(SendPart(op), At0(op, RecvPart(op)))))
MPI_Allgather(op)  == Apart(op, Copy(SendPart(op), RecvPart(op)))
MPI_Allgatherv(op) == Apart(op, Copy(SendPart(op), At0(op, RecvPart(op))))
MPI_Scatter(op)    == Apart(op, FromRoot(op, Copy(SendPart(op), RecvPart(op))))
MPI_Scatterv(op)   == Apart(op, FromRoot(op, Copy(At0(op, SendPart(op)), RecvPart(op))))
MPI_Reduce(op)     == IF op.root # 0 THEN BadRoot ELSE Same(op)
MPI_Allreduce(op)  == Apart(op, Same(op))
MPI_Reduce_scatter(op) == Same(op)
MPI_Scan(op)       == Same(op)
MPI_Alltoall(op)   == Copy(SendPart(op), RecvPart(op))
MPI_Alltoallv(op)  == Copy(At0(op, SendPart(op)), At0(op, RecvPart(op)))
MPI_Alltoallw(op)  == Copy(AtByte(op, SendPart(op)), AtByte(op, RecvPart(op)))

Effect(op) ==
  CASE op.op = "MPI_Barrier"        -> MPI_Barrier(op)
    [] op.op = "MPI_Bcast"          -> MPI_Bcast(op)
    [] op.op = "MPI_Gather"         -> MPI_Gather(op)
    [] op.op = "MPI_Gatherv"        -> MPI_Gatherv(op)
    [] op.op = "MPI_Allgather"      -> MPI_Allgather(op)
    [] op.op = "MPI_Allgatherv"     -> MPI_Allgatherv(op)
    [] op.op = "MPI_Scatter"        -> MPI_Scatter(op)
    [] op.op = "MPI_Scatterv"       -> MPI_Scatterv(op)
    [] op.op = "MPI_Reduce"         -> MPI_Reduce(op)
    [] op.op = "MPI_Allreduce"      -> MPI_Allreduce(op)
    [] op.op = "MPI_Reduce_scatter" -> MPI_Reduce_scatter(op)
    [] op.op = "MPI_Scan"           -> MPI_Scan(op)
    [] op.op = "MPI_Alltoall"       -> MPI_Alltoall(op)
    [] op.op = "MPI_Alltoallv"      -> MPI_Alltoallv(op)
    [] op.op = "MPI_Alltoallw"      -> MPI_Alltoallw(op)

copy_data2(op, e) ==
  [mem EXCEPT ![op.s] = Filled,
              ![op.to] = Pcopy_data2(Filled, e.from.off, e.from.t, @, e.to.off, e.to.n, e.to.t)]

Collective(op) ==
  LET e == Effect(op)
      moves == e.does = "copy"
  IN  IF \/ e.does = "abort"
         \/ IF moves THEN ~Copyable(e.from.n, e.from.t, e.to.n, e.to.t) ELSE FALSE
      THEN Abort
      ELSE /\ mem' = IF moves THEN copy_data2(op, e) ELSE mem
           /\ said' = IF moves THEN [said EXCEPT ![op.s] = e.from, ![op.to] = e.to] ELSE said
           /\ asked' = [kind |-> "move", s |-> op.s, to |-> op.to, moves |-> moves]
           /\ UNCHANGED <<lib, commVars, typeVars, req, packed, probed, dead>>

\* The program packs into and unpacks from one buffer of the same size
MPI_Pack(op) ==
  LET t == mpi_handle_to_datatype(op.t) IN
  /\ op.op = "MPI_Pack"
  /\ IF Len(packed.bytes) + Pack_size(op.n, t) > BufferSize THEN Abort
     ELSE /\ packed' = [packed EXCEPT !.bytes = @ \o Pack(Filled, op.n, t)]
          /\ mem' = [mem EXCEPT ![op.s] = Filled]
          /\ said' = [said EXCEPT ![op.s] = Part(op.n, t, 0)]
          /\ asked' = [kind |-> "pack", s |-> op.s]
          /\ UNCHANGED <<lib, commVars, typeVars, req, probed, dead>>

MPI_Unpack(op) ==
  LET t == mpi_handle_to_datatype(op.t) IN
  /\ op.op = "MPI_Unpack"
  /\ IF packed.position + Pack_size(op.n, t) > Len(packed.bytes) THEN Abort
     ELSE /\ mem' = [mem EXCEPT ![op.s] =
                       Unpack(packed.bytes, packed.position, @, op.n, t)]
          /\ said' = [said EXCEPT ![op.s] = Part(op.n, t, 0)]
          /\ packed' = [packed EXCEPT !.position = @ + Pack_size(op.n, t)]
          /\ asked' = [kind |-> "unpack", s |-> op.s]
          /\ UNCHANGED <<lib, commVars, typeVars, req, probed, dead>>

\* The program has done with the buffers of such a call
Take(op) ==
  /\ op.op = "Take"
  /\ mem'  = [s \in Slots |-> IF req[s] = 0 THEN Blank ELSE mem[s]]
  /\ said' = [s \in Slots |-> IF req[s] = 0 THEN Nothing ELSE said[s]]
  /\ asked' = [kind |-> "other"]
  /\ UNCHANGED <<lib, commVars, typeVars, req, packed, probed, dead>>

(***************************************************************************)
(* comm.c, cart.c, group.c, mpi.c                                          *)
(***************************************************************************)
Into(op) == op.op \in {"MPI_Comm_dup", "MPI_Cart_create", "MPI_Comm_create", "MPI_Comm_split",
                       "MPI_Intercomm_create"}

MPI_Comm_create(op) ==
  /\ Into(op) /\ comm[op.new] = 0
  /\ IF \/ op.op = "MPI_Cart_create" /\ op.dims > 1
        \/ Creates(op) /\ Exhausted(lib)
     THEN Abort
     ELSE /\ lib' = IF Creates(op) THEN mpi_comm_new(lib) ELSE lib
          /\ comm' = [comm EXCEPT ![op.new] = IF Creates(op) THEN NewHandle(lib) ELSE 0]
          /\ asked' = [kind |-> "newcomm", c |-> op.new, empty |-> ~Creates(op)]
          /\ UNCHANGED <<group, typeVars, slotVars, packed, probed, dead>>

\* The program has tested or waited for every request before
MPI_Comm_free(op) ==
  /\ op.op = "MPI_Comm_free" /\ comm[op.c] # 0
  /\ AP_list_size(lib.data[comm[op.c]].sendlist) = 0
  /\ AP_list_size(lib.data[comm[op.c]].recvlist) = 0
  /\ lib' = mpi_free_handle(lib, comm[op.c])
  /\ comm' = [comm EXCEPT ![op.c] = 0]
  /\ asked' = [kind |-> "freecomm", c |-> op.c]
  /\ UNCHANGED <<group, typeVars, slotVars, packed, probed, dead>>

Groups == {"MPI_Comm_group", "MPI_Group_incl", "MPI_Group_range_incl", "MPI_Group_union",
           "MPI_Group_intersection", "MPI_Group_difference", "MPI_Group_free"}

\* What a group is to the program
Members(g) == IF g = "one" THEN {0} ELSE {}
Asks(op) ==
  CASE op.op = "MPI_Comm_group" ->
         [kind |-> "group", op |-> IF comm[op.c] = 0 THEN "none" ELSE "all"]
    [] op.op = "MPI_Group_free" -> [kind |-> "group", op |-> "none"]
    [] op.op = "MPI_Group_incl" ->
         [kind |-> "group", op |-> "only", ranks |-> ToSet(op.ranks)]
    [] op.op = "MPI_Group_range_incl" ->
         [kind |-> "group", op |-> "only", ranks |-> UNION {r[1] .. r[2] : r \in ToSet(op.ranks)}]
    [] op.op = "MPI_Group_union" -> [kind |-> "group", op |-> "union", ranks |-> Members(op.other)]
    [] op.op = "MPI_Group_intersection" ->
         [kind |-> "group", op |-> "intersect", ranks |-> Members(op.other)]
    [] op.op = "MPI_Group_difference" ->
         [kind |-> "group", op |-> "difference", ranks |-> Members(op.other)]

MPI_Group(op) ==
  /\ op.op \in Groups
  /\ IF NewGroup(op) = Aborts THEN Abort
     ELSE /\ group' = NewGroup(op)
          /\ asked' = Asks(op)
          /\ UNCHANGED <<lib, comm, typeVars, slotVars, packed, probed, dead>>

\* MPI_COMM_WORLD is a constant of mpi.h: the first handle must be that one
MPI_Init ==
  /\ plan.offered # {} /\ comm[MPI_COMM_WORLD] = 0
  /\ dead' = (NewHandle(lib) # MPI_COMM_WORLD)
  /\ lib' = mpi_comm_new(lib)
  /\ comm' = [comm EXCEPT ![MPI_COMM_WORLD] = NewHandle(lib)]
  /\ asked' = [kind |-> "newcomm", c |-> MPI_COMM_WORLD, empty |-> FALSE]
  /\ UNCHANGED <<plan, group, typeVars, slotVars, packed, probed, todo>>

\* The program ends when it has freed what it made
MPI_Finalize ==
  /\ todo = <<>> /\ ~dead
  /\ plan.offered # {} /\ comm[MPI_COMM_WORLD] # 0
  /\ DOMAIN lib.data = {comm[MPI_COMM_WORLD]}
  /\ lib' = init_handles
  /\ comm' = [comm EXCEPT ![MPI_COMM_WORLD] = 0]
  /\ plan' = [plan EXCEPT !.offered = {}]
  /\ asked' = [kind |-> "freecomm", c |-> MPI_COMM_WORLD]
  /\ UNCHANGED <<group, typeVars, slotVars, packed, probed, todo, dead>>

(***************************************************************************)
(* type.c: the datatypes a program makes.                                  *)
(***************************************************************************)
Old(olds) == [i \in DOMAIN olds |-> mpi_handle_to_datatype(olds[i])]

Constructed(op, stale) ==
  CASE op.op = "MPI_Type_struct" -> Type_struct(op.blocklens, op.disps, Old(op.olds), stale)
    [] op.op = "MPI_Type_hindexed" -> Type_hindexed(op.blocklens, op.disps, Old(op.olds)[1], stale)
    [] op.op = "MPI_Type_indexed" -> Type_indexed(op.blocklens, op.disps, Old(op.olds)[1], stale)
    [] op.op = "MPI_Type_create_indexed_block" ->
         Type_create_indexed_block(op.blocklens[1], op.disps, Old(op.olds)[1], stale)
    [] op.op = "MPI_Type_hvector" ->
         Type_hvector(op.count, op.blocklens[1], op.disps[1], Old(op.olds)[1], stale)
    [] op.op = "MPI_Type_vector" ->
         Type_vector(op.count, op.blocklens[1], op.disps[1], Old(op.olds)[1], stale)
    [] op.op = "MPI_Type_contiguous" -> Type_contiguous(op.count, Old(op.olds)[1], stale)

\* What MPI says of the same call
M == INSTANCE Typemaps

PredefinedMap(t) ==
  LET pairs == simpletypes[t].pairs
  IN  CASE t = "MPI_LB" -> << M!Entry(0, 0, "lower") >>
        [] t = "MPI_UB" -> << M!Entry(0, 0, "upper") >>
        [] OTHER -> [k \in DOMAIN pairs |->
                       M!Entry(pairs[k].disp, Simpletype_length[pairs[k].type], "data")]

MapOf(t) == IF t \in DOMAIN simpletypes THEN PredefinedMap(t) ELSE meaning[t].map

MapOfCall(op) ==
  LET old == MapOf(op.olds[1])
      Blocks(disps) == M!Struct([i \in DOMAIN disps |-> op.blocklens[1]], disps,
                                [i \in DOMAIN disps |-> old])
  IN  CASE op.op = "MPI_Type_struct" ->
             M!Struct(op.blocklens, op.disps, [i \in DOMAIN op.olds |-> MapOf(op.olds[i])])
        [] op.op = "MPI_Type_hindexed" ->
             M!Struct(op.blocklens, op.disps, [i \in DOMAIN op.disps |-> old])
        [] op.op = "MPI_Type_indexed" ->
             M!Struct(op.blocklens, [i \in DOMAIN op.disps |-> op.disps[i] * M!Extent(old)],
                      [i \in DOMAIN op.disps |-> old])
        [] op.op = "MPI_Type_create_indexed_block" ->
             Blocks([i \in DOMAIN op.disps |-> op.disps[i] * M!Extent(old)])
        [] op.op = "MPI_Type_hvector" -> Blocks([i \in 1 .. op.count |-> (i - 1) * op.disps[1]])
        [] op.op = "MPI_Type_vector" ->
             Blocks([i \in 1 .. op.count |-> (i - 1) * op.disps[1] * M!Extent(old)])
        [] op.op = "MPI_Type_contiguous" ->
             M!Struct(<<op.count>>, <<0>>, <<old>>)

\* A type is exact when no flag that nobody has set went into it
Exact(t) == IF t \in DOMAIN simpletypes THEN TRUE ELSE meaning[t].exact

Constructors == {"MPI_Type_struct", "MPI_Type_hindexed", "MPI_Type_indexed",
                 "MPI_Type_create_indexed_block", "MPI_Type_hvector", "MPI_Type_vector",
                 "MPI_Type_contiguous"}

MPI_Type_make(op, stale) ==
  /\ op.op \in Constructors /\ type[op.new] = 0
  /\ IF Exhausted(lib) THEN Abort
     ELSE /\ lib' = mpi_alloc_handle(lib, [kind |-> "type", type |-> Constructed(op, stale)])
          /\ type' = [type EXCEPT ![op.new] = NewHandle(lib)]
          /\ meaning' = [meaning EXCEPT ![op.new] =
               [map |-> MapOfCall(op),
                exact |-> ~(stale.lb \/ stale.ub) /\ \A i \in DOMAIN op.olds : Exact(op.olds[i])]]
          /\ asked' = [kind |-> "other"]
          /\ UNCHANGED <<commVars, slotVars, packed, probed, dead>>

MPI_Type_commit(op) ==
  /\ op.op = "MPI_Type_commit" /\ type[op.new] # 0
  /\ lib' = [lib EXCEPT !.data[type[op.new]].type.committed = TRUE]
  /\ asked' = [kind |-> "other"]
  /\ UNCHANGED <<commVars, typeVars, slotVars, packed, probed, dead>>

\* The program frees a type when no message of it is under way.  Its variable
\* keeps the value, but the program does not use it again
MPI_Type_free(op) ==
  /\ op.op = "MPI_Type_free" /\ type[op.new] # 0
  /\ \A s \in Slots : req[s] = 0
  /\ lib' = mpi_free_handle(lib, type[op.new])
  /\ type' = [type EXCEPT ![op.new] = 0]
  /\ meaning' = [meaning EXCEPT ![op.new] = [map |-> <<>>, exact |-> TRUE]]
  /\ asked' = [kind |-> "other"]
  /\ UNCHANGED <<commVars, slotVars, packed, probed, dead>>

(***************************************************************************)
(* The program.  It gives a call the first idle slots.                     *)
(***************************************************************************)
Idle   == {s \in Slots : req[s] = 0}
First  == Min(Idle)
Second == Min(Idle \ {First})

\* Every call names variables of the program that are there for it
Posting == {"MPI_Isend", "MPI_Irsend", "MPI_Irecv", "MPI_Send", "MPI_Ssend", "MPI_Rsend",
            "MPI_Recv", "MPI_Sendrecv"}

ASSUME PlansAssumption ==
  \A p \in Plans : "offered" \in DOMAIN p /\ \A op \in p.offered :
    /\ "op" \in DOMAIN op
    /\ op.op \in Posting => "c" \in DOMAIN op /\ op.c \in CommVars
    /\ op.op \in {"MPI_Test", "MPI_Wait", "MPI_Request_free"} => op.s \in Slots
    /\ op.op = "MPI_Comm_free" => op.c \in CommVars
    /\ Into(op) => op.new \in CommVars
    /\ op.op \in Constructors \cup {"MPI_Type_commit", "MPI_Type_free"} => op.new \in TypeVars

Needs(op) == CASE op.op \in Collectives \cup {"MPI_Sendrecv"} -> 2
               [] op.op \in (Posting \ {"MPI_Sendrecv"}) \cup {"MPI_Pack", "MPI_Unpack"} -> 1
               [] OTHER -> 0

With(op, field, value) ==
  [k \in DOMAIN op \cup {field} |-> IF k = field THEN value ELSE op[k]]
At(name, s, op)  == With([op EXCEPT !.op = name], "s", s)
WaitFor(s) == [op |-> "MPI_Wait", s |-> s]
Taken == [op |-> "Take"]

\* The calls a call is made of; the slots stand for its local requests
MPI_Send(op) == <<At("MPI_Isend", First, op), WaitFor(First)>>
MPI_Recv(op) == <<At("MPI_Irecv", First, op), WaitFor(First)>>
MPI_Sendrecv(op) ==
  <<[At("MPI_Irecv", First, op) EXCEPT !.rank = op.from, !.tag = op.rtag],
    At("MPI_Isend", Second, op), WaitFor(Second), WaitFor(First)>>

Script(op) ==
  CASE op.op \in {"MPI_Send", "MPI_Ssend", "MPI_Rsend"} -> MPI_Send(op)
    [] op.op = "MPI_Recv" -> MPI_Recv(op)
    [] op.op = "MPI_Sendrecv" -> MPI_Sendrecv(op)
    [] op.op \in {"MPI_Isend", "MPI_Irsend", "MPI_Irecv"} -> <<At(op.op, First, op)>>
    [] op.op \in {"MPI_Pack", "MPI_Unpack"} -> <<At(op.op, First, op), Taken>>
    [] op.op \in Collectives -> <<With(At(op.op, First, op), "to", Second), Taken>>
    [] OTHER -> <<op>>

\* Communicators and datatypes that a call uses exist
Fit(op) ==
  /\ Cardinality(Idle) >= Needs(op)
  /\ "c" \in DOMAIN op /\ Needs(op) > 0 => comm[op.c] # 0
  /\ op.op \in {"MPI_Iprobe", "MPI_Probe"} => comm[op.c] # 0
  /\ {"t", "rt"} \cap DOMAIN op # {} => Usable(op.t) /\ ("rt" \in DOMAIN op => Usable(op.rt))
  /\ "olds" \in DOMAIN op => \A i \in DOMAIN op.olds : Usable(op.olds[i])

Perform(op) ==
  \/ MPI_Isend(op)    \/ MPI_Irsend(op)  \/ MPI_Irecv(op)    \/ MPI_Iprobe(op)
  \/ MPI_Wait(op)     \/ MPI_Waitany(op) \/ Testall(op)      \/ Waitall(op)
  \/ MPI_Waitsome(op) \/ MPI_Request_free(op)
  \/ op.op \in Collectives /\ Collective(op)
  \/ MPI_Pack(op)    \/ MPI_Unpack(op)   \/ Take(op)
  \/ MPI_Comm_create(op) \/ MPI_Comm_free(op) \/ MPI_Group(op)
  \/ \E stale \in Garbage : MPI_Type_make(op, stale)
  \/ MPI_Type_commit(op) \/ MPI_Type_free(op)

Begin == /\ todo = <<>> /\ plan.calls > 0 /\ comm[MPI_COMM_WORLD] # 0
         /\ \E op \in plan.offered :
              /\ Fit(op)
              /\ Perform(Head(Script(op)))
              /\ todo' = IF dead' THEN <<>> ELSE Tail(Script(op))
         /\ plan' = [plan EXCEPT !.calls = @ - 1]

Continue == /\ todo # <<>>
            /\ Perform(Head(todo))
            /\ todo' = IF dead' THEN <<>> ELSE Tail(todo)
            /\ UNCHANGED plan

Init ==
  /\ plan \in Plans
  /\ lib = init_handles
  /\ comm = [c \in CommVars |-> 0] /\ req = [s \in Slots |-> 0]
  /\ type = [v \in TypeVars |-> 0] /\ meaning = [v \in TypeVars |-> [map |-> <<>>, exact |-> TRUE]]
  /\ group = "null"
  /\ mem = [s \in Slots |-> Blank] /\ said = [s \in Slots |-> Nothing]
  /\ packed = [bytes |-> <<>>, position |-> 0]
  /\ todo = <<>> /\ dead = FALSE /\ probed = <<>>
  /\ asked = [kind |-> "other"]

Next == ~dead /\ (MPI_Init \/ Begin \/ Continue \/ MPI_Finalize)

Spec == Init /\ [][Next]_vars

(***************************************************************************)
(* Properties.                                                             *)
(***************************************************************************)
Live == DOMAIN lib.data
Held == ({comm[c] : c \in CommVars} \cup {req[s] : s \in Slots} \cup {type[v] : v \in TypeVars})
        \ {0}
Holders == Cardinality({c \in CommVars : comm[c] # 0}) + Cardinality({s \in Slots : req[s] # 0})
           + Cardinality({v \in TypeVars : type[v] # 0})

\* The table of handles.  Every handle but 0 is either free, once, or in use,
\* and every handle in use is in exactly one variable of the program: none is
\* given out twice, none is lost, none outlives its item.  What waits in the
\* lists of a communicator are requests of the program that are incomplete,
\* and no send waits beside a receive that would take it.
HandlesOwned ==
  ~dead =>
  /\ IsInjective(lib.free) /\ ToSet(lib.free) \cap Live = {}
  /\ ToSet(lib.free) \cup Live = 1 .. lib.nblocks * BLOCK_ITEMS - 1
  /\ Held = Live /\ Holders = Cardinality(Live)
  /\ \A c \in CommVars : comm[c] # 0 =>
       LET sends == lib.data[comm[c]].sendlist
           recvs == lib.data[comm[c]].recvlist
       IN  /\ IsInjective(sends \o recvs)
           /\ \A h \in ToSet(sends \o recvs) :
                \E s \in Slots : req[s] = h /\ ~lib.data[h].complete /\ lib.data[h].buf = s
           /\ \A h \in ToSet(sends) : \A r \in ToSet(recvs) :
                ~mpi_match_recv(r, lib.data[h].tag)

\* The datatypes.  However a program nests the constructors, the flattened
\* pairs, the size, the bounds and the extent of a type are those of the
\* typemap MPI defines for the calls that made it (unless an unset flag went
\* into it).
TypesRight ==
  \A v \in TypeVars : type[v] # 0 /\ meaning[v].exact =>
    LET t == lib.data[type[v]].type
        map == meaning[v].map
    IN  /\ [k \in DOMAIN t.pairs |->
              M!Entry(t.pairs[k].disp, Simpletype_length[t.pairs[k].type], "data")] = M!Data(map)
        /\ Type_size(t) = FoldLeft(LAMBDA n, e : n + e.size, 0, map)
        /\ t.lb = M!LowerBound(map)
        /\ Type_extent(t) = M!Extent(map)

Stage(s) == IF req[s] = 0 THEN "idle" ELSE IF lib.data[req[s]].complete THEN "done" ELSE "open"
Queue(list) == [k \in DOMAIN list |->
                  [slot |-> lib.data[list[k]].buf, tag |-> lib.data[list[k]].tag]]

Promise == INSTANCE OneProcess WITH
  Comms  <- CommVars,
  AnyTag <- MPI_ANY_TAG,
  valid  <- {c \in CommVars : comm[c] # 0},
  mail   <- [c \in CommVars |-> IF comm[c] = 0 THEN <<>> ELSE Queue(lib.data[comm[c]].sendlist)],
  wanted <- [c \in CommVars |-> IF comm[c] = 0 THEN <<>> ELSE Queue(lib.data[comm[c]].recvlist)],
  stage  <- [s \in Slots |-> Stage(s)],
  text   <- [s \in Slots |-> Text(mem[s], said[s])],
  pouch  <- SubSeq(packed.bytes, packed.position + 1, Len(packed.bytes)),
  group  <- CASE group = "null" -> {-1} [] group = "empty" -> {} [] group = "one" -> {0},
  stuck  <- dead

\* mpi-serial does for a program of one process what MPI promises: every
\* message goes to the receive it should go to, with its bytes, through
\* datatypes, displacements, packing and collectives; tests and waits end the
\* requests that are over and no others; and the library ends the program
\* exactly when it waits for what cannot come or calls what it may not.
KeepsPromises == Promise!Spec

=============================================================================
