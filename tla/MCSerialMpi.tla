----------------------------- MODULE MCSerialMpi -----------------------------
(***************************************************************************)
(* Programs for SerialMpi: each plan is a set of calls of which a program  *)
(* makes a few in any order.  A receive asks for at least what is sent and *)
(* has its type, and only MPI_IN_PLACE where the library looks for it.     *)
(***************************************************************************)
EXTENDS SerialMpi, TLC

MCPlan(calls, offered) == [calls |-> calls, offered |-> offered]

Message(op, rank, tag, n, t) ==
  [op |-> op, c |-> 1, rank |-> rank, tag |-> tag, n |-> n, t |-> t]
On(c, op) == [op EXCEPT !.c = c]
Look(op, slots) == [op |-> op, slots |-> slots]
One(op, s) == [op |-> op, s |-> s]
ProbeFor(op, rank, tag) == [op |-> op, c |-> 1, rank |-> rank, tag |-> tag]

\* Requests in any order: tags 7 and 8, both ways, looked at in every way
Posts == {Message(op, 0, tag, 1, "MPI_SHORT") : op \in {"MPI_Isend", "MPI_Irecv"}, tag \in {7, 8}}
           \cup {Message("MPI_Irecv", 0, MPI_ANY_TAG, 2, "MPI_SHORT")}
MailPlan == MCPlan(6, Posts \cup {Look("MPI_Testall", {1, 2, 3}), One("MPI_Wait", 1)})

Looks == {Look(op, slots) : op \in {"MPI_Testany", "MPI_Waitany", "MPI_Waitall", "MPI_Testsome"},
                            slots \in {{1, 2}, {2, 3}}}
         \cup {Look("MPI_Waitsome", {1, 3}), Look("MPI_Testall", {1, 2})}
         \cup {One("MPI_Test", 2), One("MPI_Wait", 2), One("MPI_Request_free", 1)}
LooksPlan == MCPlan(4, Posts \cup Looks)

\* Calls made of others, to nobody and to ranks there are not, probes
Blocking == {Message(op, 0, 7, 1, "MPI_SHORT") :
               op \in {"MPI_Send", "MPI_Ssend", "MPI_Rsend", "MPI_Irsend", "MPI_Recv"}}
            \cup {Message("MPI_Sendrecv", rank, tag, 1, "MPI_SHORT")
                    @@ [from |-> rank, rtag |-> 7] : rank \in {0, MPI_PROC_NULL}, tag \in {7, 8}}
            \cup {Message(op, rank, 7, 1, "MPI_SHORT") :
                    op \in {"MPI_Isend", "MPI_Irecv"}, rank \in {1, MPI_PROC_NULL}}
            \cup {ProbeFor(op, 0, tag) : op \in {"MPI_Iprobe", "MPI_Probe"}, tag \in {8, MPI_ANY_TAG}}
            \cup {ProbeFor("MPI_Iprobe", 1, 7)}
BlockingPlan == MCPlan(4, Posts \cup Blocking \cup {Look("MPI_Waitall", {1, 2, 3, 4})})

\* Communicators and groups, with messages on two of them
Makes(op, new) == [op |-> op, c |-> 1, new |-> new]
CommPlan == MCPlan(5,
  {Makes("MPI_Comm_dup", 2), Makes("MPI_Comm_create", 2), Makes("MPI_Comm_dup", 3),
   Makes("MPI_Comm_split", 2) @@ [color |-> 0], Makes("MPI_Comm_split", 3) @@ [color |-> MPI_UNDEFINED],
   Makes("MPI_Cart_create", 2) @@ [dims |-> 1], Makes("MPI_Cart_create", 3) @@ [dims |-> 2],
   [op |-> "MPI_Intercomm_create", c |-> 2, peer |-> 3, new |-> 3],
   [op |-> "MPI_Comm_free", c |-> 2], [op |-> "MPI_Comm_free", c |-> 3],
   [op |-> "MPI_Comm_group", c |-> 2], [op |-> "MPI_Comm_group", c |-> 1],
   On(2, Message("MPI_Isend", 0, 7, 1, "MPI_CHAR")), On(2, Message("MPI_Irecv", 0, 7, 1, "MPI_CHAR")),
   Message("MPI_Irecv", 0, 7, 1, "MPI_CHAR"), Look("MPI_Testall", {1, 2})})

GroupPlan == MCPlan(4,
  {[op |-> "MPI_Comm_group", c |-> c] : c \in {1, 2}}
  \cup {[op |-> "MPI_Group_incl", ranks |-> r] : r \in {<<>>, <<0>>, <<0, 0>>}}
  \cup {[op |-> "MPI_Group_range_incl", ranks |-> r] : r \in {<<>>, <<<<0, 0, 1>>>>, <<<<0, 1, 1>>>>}}
  \cup {[op |-> op, other |-> g] :
          op \in {"MPI_Group_union", "MPI_Group_intersection", "MPI_Group_difference"},
          g \in {"null", "empty", "one"}}
  \cup {[op |-> "MPI_Group_free"], Makes("MPI_Comm_create", 2)})

\* Datatypes: made of one another, sent, received, packed, moved
Make(op, new, count, blocklens, disps, olds) ==
  [op |-> op, new |-> new, count |-> count, blocklens |-> blocklens, disps |-> disps, olds |-> olds]
OnType(op, v) == [op |-> op, new |-> v]

TypePlan == MCPlan(5,
  {Make("MPI_Type_struct", "inner", 2, <<1, 1>>, <<0, 4>>, <<"MPI_CHAR", "MPI_INT">>),
   Make("MPI_Type_struct", "inner", 3, <<1, 1, 1>>, <<0, 2, 6>>, <<"MPI_LB", "MPI_CHAR", "MPI_UB">>),
   Make("MPI_Type_struct", "inner", 2, <<2, 1>>, <<1, 8>>, <<"MPI_SHORT", "MPI_UB">>),
   Make("MPI_Type_vector", "inner", 2, <<1>>, <<2>>, <<"MPI_SHORT">>),
   Make("MPI_Type_contiguous", "inner", 2, <<1>>, <<0>>, <<"MPI_SHORT_INT">>),
   Make("MPI_Type_struct", "outer", 2, <<2, 1>>, <<0, 20>>, <<"inner", "MPI_CHAR">>),
   Make("MPI_Type_vector", "outer", 2, <<2>>, <<3>>, <<"inner">>),
   Make("MPI_Type_hvector", "outer", 2, <<1>>, <<10>>, <<"inner">>),
   Make("MPI_Type_indexed", "outer", 2, <<1, 2>>, <<3, 0>>, <<"inner">>),
   Make("MPI_Type_hindexed", "outer", 2, <<2, 1>>, <<1, 20>>, <<"inner">>),
   Make("MPI_Type_create_indexed_block", "outer", 2, <<1>>, <<2, 0>>, <<"inner">>),
   Make("MPI_Type_contiguous", "outer", 2, <<1>>, <<0>>, <<"inner">>),
   OnType("MPI_Type_commit", "inner"), OnType("MPI_Type_commit", "outer"),
   OnType("MPI_Type_free", "inner"),
   Message("MPI_Isend", 0, 7, 1, "outer"), Message("MPI_Irecv", 0, 7, 1, "outer"),
   Message("MPI_Isend", 0, 8, 2, "inner"), Message("MPI_Irecv", 0, 8, 2, "inner")})

Collecting(op, root, inplace, displs, n, t, rn, rt) ==
  [op |-> op, root |-> root, inplace |-> inplace, displs |-> displs,
   n |-> n, t |-> t, rn |-> rn, rt |-> rt]
MovePlan == MCPlan(4,
  {Make("MPI_Type_vector", "inner", 2, <<1>>, <<2>>, <<"MPI_SHORT">>),
   Make("MPI_Type_struct", "inner", 2, <<2, 1>>, <<1, 8>>, <<"MPI_SHORT", "MPI_UB">>),
   OnType("MPI_Type_commit", "inner"),
   [op |-> "MPI_Pack", n |-> 2, t |-> "inner"], [op |-> "MPI_Unpack", n |-> 1, t |-> "inner"],
   [op |-> "MPI_Pack", n |-> 5, t |-> "MPI_SHORT_INT"],
   [op |-> "MPI_Unpack", n |-> 3, t |-> "MPI_SHORT"]}
  \cup {Collecting(op, root, inplace, 1, 2, "inner", 4, "MPI_SHORT") :
          op \in Copying \ Reducing, root \in {0, 1, MPI_ROOT}, inplace \in BOOLEAN}
  \cup {Collecting(op, root, inplace, 1, 2, "inner", 2, "inner") :
          op \in Collectives, root \in {0, 1, MPI_ROOT}, inplace \in BOOLEAN}
  \cup {Collecting("MPI_Alltoall", 0, FALSE, 0, 1, "MPI_CHAR", 2, "MPI_CHAR")})

MCPlans == {MailPlan, LooksPlan, BlockingPlan, CommPlan, GroupPlan, TypePlan, MovePlan}

MCSlots == 1 .. 4
MCComms == 1 .. 3
MCTypes == {"inner", "outer"}
MCGarbage == {[lb |-> FALSE, ub |-> FALSE], [lb |-> TRUE, ub |-> FALSE]}
=============================================================================
