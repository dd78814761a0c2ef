------------------------------ MODULE PioAsync ------------------------------
(***************************************************************************)
(* Asynchronous I/O of the parallel I/O library: the computation tasks of  *)
(* one or several components make library calls, the I/O tasks serve them  *)
(* in a message loop (pio_msg.c pio_msg_handler2).  All exchanges are      *)
(* broadcasts on three kinds of communicators: "inter" from the first      *)
(* computation task of a component to the I/O tasks, "my" among the tasks  *)
(* of a component and the I/O tasks, "io" among the I/O tasks.  Nothing    *)
(* says what a broadcast is about: it is understood by the order alone.    *)
(***************************************************************************)
EXTENDS PioCalls, FiniteSets

CONSTANTS
    Component,      \* the components
    CompRanks,      \* how many computation tasks each has
    IORanks,        \* how many I/O tasks there are
    Calls,          \* the calls made, as PioCalls describes them
    Handlers,       \* the error handlers in use
    InnerErrors,    \* TRUE: calls that make others are also made under PIO_BCAST_ERROR
    SyncErrors,     \* TRUE: nc_sync may fail
    Cap,            \* how many broadcasts a task may be behind on a communicator
    Ahead,          \* how many calls a task may be ahead of another of its component
    MaxFile,        \* how many files and
    MaxDecomp       \* decompositions are made

ASSUME AsyncAssumption ==
    /\ CompRanks \in Nat \ {0} /\ IORanks \in Nat \ {0} /\ Cap \in Nat \ {0} /\ Ahead \in Nat
    /\ MaxFile \in Nat /\ MaxDecomp \in Nat
    /\ IsFiniteSet(Component) /\ Component \cap {"io", "none"} = {}
    /\ Handlers \subseteq {"INTERNAL", "BCAST", "RETURN"}
    /\ InnerErrors \in BOOLEAN /\ SyncErrors \in BOOLEAN

CompTask(c) == {<<c, r>> : r \in 1..CompRanks}
CompTasks   == UNION {CompTask(c) : c \in Component}
IOTask      == {<<"io", r>> : r \in 1..IORanks}
Task        == CompTasks \cup IOTask
comproot(c) == <<c, 1>>
ioroot      == <<"io", 1>>

\* The paths of broadcasts: communicator, its component, from, to.
Members(c) == CompTask(c) \cup IOTask
MsgLink(c) == <<"msg", c, ioroot>>
InterLinks(c) == {<<"inter", c, t>> : t \in IOTask}
CompLinks(c) == {<<"comp", c, t>> : t \in Members(c) \ {comproot(c)}}
IOLinks(c) == {<<"io", c, t>> : t \in Members(c) \ {ioroot}}
LoopLinks == {<<"loop", "io", t>> : t \in IOTask \ {ioroot}}

LinksOf(c) == {MsgLink(c)} \cup InterLinks(c) \cup CompLinks(c) \cup IOLinks(c)
Links == LoopLinks \cup UNION {LinksOf(c) : c \in Component}

VARIABLES
    chan,       \* what is on its way on each path
    todo,       \* the steps each task has still to take in its call
    pending,    \* calls that other tasks of the component have begun already
    cur,        \* the arguments of the task's call that matter: file, decomposition, method
    ierr,       \* the error code of the task's call, and the result of its last one
    tables,     \* each task's open files and decompositions
    next_id,    \* pio_next_ncid and pio_next_ioid of each task
    eh,         \* the error handler of each iosystem, on each task
    loop,       \* where each I/O task is in the message loop
    open,       \* the components whose iosystem each task has not yet freed
    made,       \* how many files and decompositions of each component each task has recorded
    aborted     \* MPI_Abort was called

vars == <<chan, todo, pending, cur, ierr, tables, next_id, eh, loop, open, made, aborted>>

NoArgs == [file |-> 0, decomp |-> 0, method |-> "none"]
Top    == [at |-> "top", c |-> "none", msg |-> "none", f |-> {}, got |-> 0, queue |-> <<>>]

\* The messages the loop knows.
Handler(msg, f) ==
    CASE msg = "INQ_TYPE" -> inq_type_handler(f)
      [] msg = "INQ_FORMAT" -> inq_format_handler(f)
      [] msg = "CREATE_FILE" -> create_file_handler(f)
      [] msg = "SYNC" -> sync_file_handler(f)
      [] msg = "ENDDEF" -> change_def_file_handler({"enddef"})
      [] msg = "REDEF" -> change_def_file_handler({})
      [] msg = "OPEN_FILE" -> open_file_handler(f)
      [] msg = "CLOSE_FILE" -> close_file_handler(f)
      [] msg = "DELETE_FILE" -> delete_file_handler(f)
      [] msg = "RENAME_DIM" -> rename_dim_handler(f)
      [] msg = "RENAME_VAR" -> rename_var_handler(f)
      [] msg = "RENAME_ATT" -> rename_att_handler(f)
      [] msg = "DEL_ATT" -> delete_att_handler(f)
      [] msg = "DEF_DIM" -> def_dim_handler(f)
      [] msg = "DEF_VAR" -> def_var_handler(f)
      [] msg = "INQ_VAR_ZSTANDARD" -> inq_var_zstandard_handler(f)
      [] msg = "DEF_VAR_ZSTANDARD" -> def_var_zstandard_handler(f)
      [] msg = "DEF_VAR_CHUNKING" -> def_var_chunking_handler(f)
      [] msg = "DEF_VAR_FILL" -> def_var_fill_handler(f)
      [] msg = "DEF_VAR_ENDIAN" -> def_var_endian_handler(f)
      [] msg = "DEF_VAR_DEFLATE" -> def_var_deflate_handler(f)
      [] msg = "INQ_VAR_ENDIAN" -> inq_var_endian_handler(f)
      [] msg = "SET_VAR_CHUNK_CACHE" -> set_var_chunk_cache_handler(f)
      [] msg = "GET_VAR_CHUNK_CACHE" -> get_var_chunk_cache_handler(f)
      [] msg = "INQ" -> inq_handler(f)
      [] msg = "INQ_UNLIMDIMS" -> inq_unlimdims_handler(f)
      [] msg = "INQ_DIM" -> inq_dim_handler(f)
      [] msg = "INQ_DIMID" -> inq_dimid_handler(f)
      [] msg = "INQ_VAR" -> inq_var_handler(f)
      [] msg = "INQ_VAR_CHUNKING" -> inq_var_chunking_handler(f)
      [] msg = "INQ_VAR_FILL" -> inq_var_fill_handler(f)
      [] msg = "INQ_VAR_DEFLATE" -> inq_var_deflate_handler(f)
      [] msg = "GET_ATT" -> att_get_handler(f)
      [] msg = "PUT_ATT" -> att_put_handler(f)
      [] msg = "INQ_VARID" -> inq_varid_handler(f)
      [] msg = "INQ_ATT" -> inq_att_handler(f)
      [] msg = "INQ_ATTNAME" -> inq_attname_handler(f)
      [] msg = "INQ_ATTID" -> inq_attid_handler(f)
      [] msg = "GET_VARS" -> get_vars_handler(f)
      [] msg = "PUT_VARS" -> put_vars_handler(f)
      [] msg = "INITDECOMP_DOF" -> initdecomp_dof_handler(f)
      [] msg = "WRITEDARRAYMULTI" -> write_darray_multi_handler(f)
      [] msg = "SETFRAME" -> setframe_handler(f)
      [] msg = "ADVANCEFRAME" -> advanceframe_handler(f)
      [] msg = "READDARRAY" -> read_darray_handler(f)
      [] msg = "SETERRORHANDLING" -> seterrorhandling_handler(f)
      [] msg = "SET_CHUNK_CACHE" -> set_chunk_cache_handler(f)
      [] msg = "GET_CHUNK_CACHE" -> get_chunk_cache_handler(f)
      [] msg = "FREEDECOMP" -> freedecomp_handler(f)
      [] msg = "SET_FILL" -> set_fill_handler(f)
      [] msg = "SETLOGLEVEL" -> set_loglevel_handler(f)
      [] msg = "DEF_VAR_QUANTIZE" -> def_var_quantize_handler(f)
      [] msg = "INQ_VAR_QUANTIZE" -> inq_var_quantize_handler(f)
      [] msg = "DEF_VAR_FILTER" -> def_var_filter_handler(f)
      [] msg = "INQ_FILTER_AVAIL" -> inq_filter_avail_handler(f)
      [] msg = "INQ_VAR_FILTER_IDS" -> inq_var_filter_ids_handler(f)
      [] msg = "INQ_VAR_FILTER_INFO" -> inq_var_filter_info_handler(f)
      [] msg = "EXIT" -> finalize_handler(f)
      [] OTHER -> Receive(<<>>, [checks |-> {"unknown"}, rest |-> <<>>])
-----------------------------------------------------------------------------
(***************************************************************************)
(* Broadcasts.                                                             *)
(***************************************************************************)
CompOf(t) == IF t \in IOTask THEN loop[t].c ELSE t[1]

Step(t) == Head(todo[t])
Busy(t) == todo[t] # <<>> /\ ~aborted
At(t, steps) == Busy(t) /\ Step(t).do \in steps

FromComp == {"share", "verdict"}
FromIO   == {"answer", "status", "next_id", "outcome"}

Item(x, set, val) == [x |-> x, set |-> set, val |-> val]

Status == INT("status")
Ierr   == INT("ierr")
NextId(kind) == INT(IF kind = "file" THEN "pio_next_ncid" ELSE "pio_next_ioid")

\* What step s broadcasts.
Meant(s) == CASE s.do = "status" -> Status
              [] s.do = "outcome" -> Ierr
              [] s.do = "next_id" -> NextId(s.x)
              [] OTHER -> s.x

\* Where task t, not the root of the broadcast it has come to, receives it.
Source(t) == <<IF Step(t).do \in FromComp THEN "comp" ELSE "io", CompOf(t), t>>

Waits(t) ==
    Busy(t) /\ (\/ Step(t).do \in FromComp /\ t # comproot(CompOf(t))
                \/ Step(t).do \in FromIO /\ t # ioroot)

Send(links, item) ==
    /\ \A l \in links : Len(chan[l]) < Cap
    /\ chan' = [l \in Links |-> IF l \in links THEN Append(chan[l], item) ELSE chan[l]]

Take(l) == chan[l] # <<>> /\ chan' = [chan EXCEPT ![l] = Tail(@)]

Goes(t) == todo' = [todo EXCEPT ![t] = Tail(@)]

-----------------------------------------------------------------------------
(***************************************************************************)
(* A computation task calls the library.                                   *)
(***************************************************************************)
Args(call) == {call.args[i].x : i \in DOMAIN call.args}

Entries(t, kind) == {e \in tables[t] : e.kind = kind}
Ids(t, kind) == {e.id : e \in {e \in Entries(t, kind) : e.c = CompOf(t)}}

Makes(call, kind) == Contains(CompSteps(call), Effect(kind))

\* The values that matter of the arguments: only an open file or a known
\* decomposition gets past the first checks, unless the call makes it itself.
ArgsOf(t, call) ==
    [file : IF INT("ncid") \in Args(call) /\ ~Makes(call, "file") THEN Ids(t, "file") ELSE {0},
     decomp : IF INT("ioid") \in Args(call) /\ ~Makes(call, "decomp") THEN Ids(t, "decomp") ELSE {0},
     method : IF INT("method") \in Args(call) THEN Handlers ELSE {"none"}]

\* A failing inner call is followed by more than its own error handling.
Inner(call) == \E i \in DOMAIN call.pre :
                   "fail" \in DOMAIN call.pre[i]
                   /\ Cardinality({j \in DOMAIN call.pre[i].fail : call.pre[i].fail[j] \in {Check[1]}}) > 1

MayCall(t, call) ==
    /\ Makes(call, "file") => made[t][t[1]].file < MaxFile
    /\ Makes(call, "decomp") => made[t][t[1]].decomp < MaxDecomp
    /\ eh[t][t[1]] = "BCAST" => InnerErrors \/ ~Inner(call)

\* Task o has ended its part in component c's last call: nobody looks at its
\* ierr any more when the next call starts.
Over(o, c) ==
    todo[o] = <<>> /\ (IF o \in IOTask THEN loop[o].at = "top" /\ loop[o].c = c ELSE o[1] = c)

Start(t, call, a) ==
    /\ todo' = [todo EXCEPT ![t] = CompSteps(call)]
    /\ cur' = [cur EXCEPT ![t] = a]
    /\ UNCHANGED <<chan, tables, next_id, eh, loop, open, made, aborted>>

\* The program is the same on all tasks of a component: the first task to get
\* there decides what is called, the others follow.
Begin(t) ==
    /\ ~aborted /\ todo[t] = <<>> /\ pending[t] = <<>> /\ t[1] \in open[t]
    /\ \A o \in CompTask(t[1]) \ {t} :
           Len(pending[o]) + (IF todo[o] = <<>> THEN 0 ELSE 1) <= Ahead
    /\ \E call \in Calls : \E a \in ArgsOf(t, call) :
           /\ MayCall(t, call)
           /\ Start(t, call, a)
           /\ ierr' = [o \in Task |-> IF Over(o, t[1]) THEN "ok" ELSE ierr[o]]
           /\ pending' = [o \in CompTasks |-> IF o \in CompTask(t[1]) \ {t}
                                              THEN Append(pending[o], <<call, a>>) ELSE pending[o]]

Follow(t) ==
    /\ ~aborted /\ todo[t] = <<>> /\ pending[t] # <<>>
    /\ Start(t, Head(pending[t])[1], Head(pending[t])[2])
    /\ ierr' = [ierr EXCEPT ![t] = "ok"]
    /\ pending' = [pending EXCEPT ![t] = Tail(@)]

SendMessage(t) ==
    /\ t = comproot(t[1]) /\ At(t, {"message"})
    /\ Send({MsgLink(t[1])}, Item(Step(t).x, FALSE, 0))
    /\ Goes(t)
    /\ UNCHANGED <<pending, cur, ierr, tables, next_id, eh, loop, open, made, aborted>>

SendArg(t) ==
    /\ t = comproot(t[1]) /\ At(t, {"arg"})
    /\ LET s == Step(t)
       IN  Send(InterLinks(t[1]),
                Item(s.x, s.v, CASE s.x = INT("ncid") -> cur[t].file
                                 [] s.x = INT("ioid") -> cur[t].decomp
                                 [] s.x = INT("method") -> cur[t].method
                                 [] OTHER -> 0))
    /\ Goes(t)
    /\ UNCHANGED <<pending, cur, ierr, tables, next_id, eh, loop, open, made, aborted>>

\* Only the first task of a component talks to the I/O tasks: the others go on to
\* what follows the arguments.
PassOver(t) ==
    /\ At(t, {"message"}) /\ t # comproot(t[1])
    /\ \E n \in DOMAIN todo[t] :
           /\ todo[t][n].do \notin {"message", "arg"}
           /\ \A i \in 1..(n - 1) : todo[t][i].do \in {"message", "arg"}
           /\ todo' = [todo EXCEPT ![t] = SubSeq(@, n, Len(@))]
    /\ UNCHANGED <<chan, pending, cur, ierr, tables, next_id, eh, loop, open, made, aborted>>

(***************************************************************************)
(* The broadcasts of a call.                                               *)
(***************************************************************************)
SendShare(t) ==
    /\ At(t, FromComp) /\ t = comproot(CompOf(t))
    /\ \E bad \in IF Step(t).do = "verdict" THEN BOOLEAN ELSE {FALSE} :
           /\ Send(CompLinks(CompOf(t)), Item(Step(t).x, bad, 0))
           /\ ierr' = [ierr EXCEPT ![t] = IF bad THEN "err" ELSE @]
    /\ Goes(t)
    /\ UNCHANGED <<pending, cur, tables, next_id, eh, loop, open, made, aborted>>

SendAnswer(t) ==
    /\ t = ioroot /\ At(t, {"answer", "status", "next_id"})
    /\ Send(IOLinks(CompOf(t)), Item(Meant(Step(t)), FALSE,
                                 IF Step(t).do = "next_id" THEN next_id[t][Step(t).x] ELSE 0))
    /\ Goes(t)
    /\ UNCHANGED <<pending, cur, ierr, tables, next_id, eh, loop, open, made, aborted>>

\* Mutant: the error code stays with the task that has it.
ProceedAlone(t, e) ==
    /\ ierr' = [ierr EXCEPT ![t] = IF t = ioroot THEN e ELSE "ok"]
    /\ todo' = [todo EXCEPT ![t] =
                    IF e = "ok" THEN Tail(@)
                    ELSE Head(@).fail \o (IF Head(@).on THEN Tail(@) ELSE <<>>)]

\* After ierr is known.
Proceed(t, e) ==
    /\ ierr' = [ierr EXCEPT ![t] = e]
    /\ todo' = [todo EXCEPT ![t] =
                    IF e = "ok" THEN Tail(@)
                    ELSE Head(@).fail \o (IF Head(@).on THEN Tail(@) ELSE <<>>)]

\* The netCDF library is called by the I/O tasks; the first one's result counts.
SendOutcome(t) ==
    /\ t = ioroot /\ At(t, {"outcome"})
    /\ \E e \in {"ok", "err"} \cup (IF Step(t).fail = CheckFilter THEN {"nofilter"} ELSE {}) :
           /\ Send(IOLinks(CompOf(t)), Item(Ierr, FALSE, e))
           /\ Proceed(t, e)
    /\ UNCHANGED <<pending, cur, tables, next_id, eh, loop, open, made, aborted>>

Receives(t) ==
    /\ Waits(t) /\ Take(Source(t))
    /\ LET s == Step(t)
           m == Head(chan[Source(t)])
       IN  CASE s.do = "outcome" ->
                  /\ Proceed(t, m.val)
                  /\ UNCHANGED next_id
             [] s.do = "next_id" ->
                  /\ next_id' = [next_id EXCEPT ![t][s.x] = m.val]
                  /\ Goes(t) /\ UNCHANGED ierr
             [] OTHER ->
                  /\ ierr' = [ierr EXCEPT ![t] = IF s.do = "verdict" /\ m.set THEN "err" ELSE @]
                  /\ Goes(t) /\ UNCHANGED next_id
    /\ UNCHANGED <<pending, cur, tables, eh, loop, open, made, aborted>>

\* Each task has its own result, and the computation tasks none.
OwnResult(t) ==
    /\ At(t, {"own"})
    /\ \E e \in IF t \in IOTask /\ SyncErrors THEN {"ok", "err"} ELSE {"ok"} : Proceed(t, e)
    /\ UNCHANGED <<chan, pending, cur, tables, next_id, eh, loop, open, made, aborted>>

(***************************************************************************)
(* Errors and tables.                                                      *)
(***************************************************************************)
\* check_netcdf2 and pio_err: the program dies, all tasks are told the status, or nothing.
HandleError(t) ==
    /\ At(t, {"check", "check_filter", "check_default", "pio_err"})
    /\ LET s == Step(t).do
           h == IF s = "check_default" THEN "INTERNAL" ELSE eh[t][CompOf(t)]
       IN  IF s = "check_filter" /\ ierr[t] = "nofilter" THEN Goes(t) /\ UNCHANGED aborted
           ELSE /\ aborted' = (h = "INTERNAL")
                /\ todo' = [todo EXCEPT ![t] = (IF s # "pio_err" /\ h = "BCAST"
                                                THEN <<[do |-> "status"]>> ELSE <<>>) \o Tail(@)]
    /\ UNCHANGED <<chan, pending, cur, ierr, tables, next_id, eh, loop, open, made>>

EndOrForget(t) ==
    /\ At(t, {"forget", "reject", "fail"})
    /\ LET s == Step(t).do
       IN  /\ ierr' = [ierr EXCEPT ![t] = CASE s = "forget" -> "ok" [] s = "fail" -> "err"
                                            [] OTHER -> @]
           /\ todo' = [todo EXCEPT ![t] = IF s = "forget" \/ (s = "reject" /\ ierr[t] = "ok")
                                          THEN Tail(@) ELSE IF s = "fail" THEN PioErr ELSE <<>>]
    /\ UNCHANGED <<chan, pending, cur, tables, next_id, eh, loop, open, made, aborted>>

Record(t, kind) ==
    LET c == CompOf(t)
    IN  /\ tables' = [tables EXCEPT ![t] = @ \cup
                         {[kind |-> kind, id |-> next_id[t][kind], c |-> c, n |-> made[t][c][kind] + 1]}]
        /\ cur' = [cur EXCEPT ![t][kind] = next_id[t][kind]]
        /\ next_id' = [next_id EXCEPT ![t][kind] = @ + 1]
        /\ made' = [made EXCEPT ![t][c][kind] = @ + 1]

\* Mutant: the I/O tasks keep the decomposition.
DropOnComp(t, kind) ==
    /\ tables' = [tables EXCEPT ![t] = {e \in @ : (t \in IOTask /\ kind = "decomp")
                                                  \/ ~(e.kind = kind /\ e.id = cur[t][kind])}]
    /\ UNCHANGED <<cur, next_id, made>>

Drop(t, kind) ==
    /\ tables' = [tables EXCEPT ![t] = {e \in @ : ~(e.kind = kind /\ e.id = cur[t][kind])}]
    /\ UNCHANGED <<cur, next_id, made>>

TakeEffect(t) ==
    /\ At(t, {"effect"})
    /\ LET e == Step(t).x
       IN  /\ CASE e \in {"file", "decomp"} -> Record(t, e)
                [] e = "close" -> Drop(t, "file")
                [] e = "freedecomp" -> Drop(t, "decomp")
                [] OTHER -> UNCHANGED <<tables, cur, next_id, made>>
           /\ eh' = IF e = "error_handler" THEN [eh EXCEPT ![t][CompOf(t)] = cur[t].method] ELSE eh
           /\ open' = IF e = "exit" THEN [open EXCEPT ![t] = @ \ {CompOf(t)}] ELSE open
    /\ Goes(t)
    /\ UNCHANGED <<chan, pending, ierr, loop, aborted>>

-----------------------------------------------------------------------------
(***************************************************************************)
(* The message loop (pio_msg_handler2).                                    *)
(***************************************************************************)
Moves(t, l) == loop' = [loop EXCEPT ![t] = l]

\* MPI_Waitsome gives the first I/O task some of the messages that have come.
WaitSome(S) ==
    /\ ~aborted /\ loop[ioroot].at = "top"
    /\ S # {} /\ \A c \in S : c \in open[ioroot] /\ chan[MsgLink(c)] # <<>>
    /\ \A l \in LoopLinks : Len(chan[l]) < Cap
    /\ \E q \in SetToSeqs(S) :
           /\ chan' = [l \in Links |->
                          IF l \in LoopLinks THEN Append(chan[l], Item(INT("outcount"), FALSE, Len(q)))
                          ELSE IF l \in {MsgLink(c) : c \in S} THEN Tail(chan[l]) ELSE chan[l]]
           /\ Moves(ioroot, [Top EXCEPT !.at = "request",
                                        !.queue = [i \in DOMAIN q |-> <<q[i], Head(chan[MsgLink(q[i])]).x>>]])
    /\ UNCHANGED <<todo, pending, cur, ierr, tables, next_id, eh, open, made, aborted>>

Handles(l, c, msg) == [l EXCEPT !.at = "handler", !.c = c, !.msg = msg, !.queue = Tail(@)]

\* Index and message go to the other I/O tasks.
NextRequest ==
    /\ ~aborted /\ loop[ioroot].at = "request"
    /\ LET r == Head(loop[ioroot].queue)
       IN  /\ Send(LoopLinks, Item(INT("idx, msg"), FALSE, r))
           /\ Moves(ioroot, Handles(loop[ioroot], r[1], r[2]))
    /\ UNCHANGED <<todo, pending, cur, ierr, tables, next_id, eh, open, made, aborted>>

HearRequest(t) ==
    LET l == <<"loop", "io", t>>
    IN  /\ ~aborted /\ loop[t].at \in {"top", "request"} /\ Take(l)
        /\ LET m == Head(chan[l]).val
           IN  IF loop[t].at = "top"
               THEN Moves(t, [Top EXCEPT !.at = "request", !.queue = [i \in 1..m |-> <<>>]])
               ELSE Moves(t, Handles(loop[t], m[1], m[2]))
        /\ UNCHANGED <<todo, pending, cur, ierr, tables, next_id, eh, open, made, aborted>>

Expected(t) == Handler(loop[t].msg, loop[t].f)["recv"]
InterLink(t) == <<"inter", loop[t].c, t>>

TakeArg(t) ==
    /\ ~aborted /\ loop[t].at = "handler" /\ Take(InterLink(t))
    /\ loop[t].got < Len(Expected(t))
    /\ LET m == Head(chan[InterLink(t)])
       IN  /\ Moves(t, [loop[t] EXCEPT !.got = @ + 1, !.f = IF m.set THEN @ \cup {m.x[2]} ELSE @])
           /\ cur' = CASE m.x = INT("ncid") -> [cur EXCEPT ![t].file = m.val]
                       [] m.x = INT("ioid") -> [cur EXCEPT ![t].decomp = m.val]
                       [] m.x = INT("method") -> [cur EXCEPT ![t].method = m.val]
                       [] OTHER -> cur
    /\ UNCHANGED <<todo, pending, ierr, tables, next_id, eh, open, made, aborted>>

\* The library function called by the handler checks its arguments first; the
\* loop is left after a message it does not know.
ServeCall(t) ==
    /\ ~aborted /\ loop[t].at = "handler" /\ loop[t].got = Len(Expected(t))
    /\ LET call == Handler(loop[t].msg, loop[t].f)["call"]
           known == /\ cur[t].file \in {0} \cup Ids(t, "file")
                    /\ cur[t].decomp \in {0} \cup Ids(t, "decomp")
       IN  /\ Moves(t, [loop[t] EXCEPT !.at = IF "unknown" \in call.checks THEN "left" ELSE "call",
                                     !.msg = "none", !.f = {}, !.got = 0])
           /\ todo' = [todo EXCEPT ![t] = IF "PIO_EBADID" \in call.checks /\ ~known THEN <<Fail>>
                                          ELSE IOSteps(call)]
           /\ ierr' = [ierr EXCEPT ![t] = "ok"]
    /\ UNCHANGED <<chan, pending, cur, tables, next_id, eh, open, made, aborted>>

\* Mutants: only the first of the messages that MPI_Waitsome gave is served; the
\* loop is not left after the last component.
EndRequestServesOne(t) ==
    /\ ~aborted /\ loop[t].at = "call" /\ todo[t] = <<>>
    /\ Moves(t, [Top EXCEPT !.c = loop[t].c, !.at = IF open[t] = {} THEN "left" ELSE "top"])
    /\ cur' = [cur EXCEPT ![t] = NoArgs]
    /\ UNCHANGED <<chan, todo, pending, ierr, tables, next_id, eh, open, made, aborted>>

EndRequestStays(t) ==
    /\ ~aborted /\ loop[t].at = "call" /\ todo[t] = <<>>
    /\ Moves(t, [Top EXCEPT !.c = loop[t].c, !.queue = loop[t].queue,
                            !.at = IF loop[t].queue = <<>> THEN "top" ELSE "request"])
    /\ cur' = [cur EXCEPT ![t] = NoArgs]
    /\ UNCHANGED <<chan, todo, pending, ierr, tables, next_id, eh, open, made, aborted>>

\* The loop ends with the last component.
EndRequest(t) ==
    /\ ~aborted /\ loop[t].at = "call" /\ todo[t] = <<>>
    /\ Moves(t, [Top EXCEPT !.c = loop[t].c, !.queue = loop[t].queue,
                            !.at = IF open[t] = {} THEN "left"
                                   ELSE IF loop[t].queue = <<>> THEN "top" ELSE "request"])
    /\ cur' = [cur EXCEPT ![t] = NoArgs]
    /\ UNCHANGED <<chan, todo, pending, ierr, tables, next_id, eh, open, made, aborted>>
-----------------------------------------------------------------------------
(***************************************************************************)
(* PIOc_init_async has been called on all tasks.                           *)
(***************************************************************************)
Init ==
    /\ chan = [l \in Links |-> <<>>]
    /\ todo = [t \in Task |-> <<>>]
    /\ pending = [t \in CompTasks |-> <<>>]
    /\ cur = [t \in Task |-> NoArgs]
    /\ ierr = [t \in Task |-> "ok"]
    /\ tables = [t \in Task |-> {}]
    /\ next_id = [t \in Task |-> [file |-> 16, decomp |-> 512]]
    /\ \E h \in Handlers : eh = [t \in Task |-> [c \in Component |-> h]]
    /\ loop = [t \in IOTask |-> Top]
    /\ open = [t \in Task |-> IF t \in IOTask THEN Component ELSE {t[1]}]
    /\ made = [t \in Task |-> [c \in Component |-> [file |-> 0, decomp |-> 0]]]
    /\ aborted = FALSE

\* What a task does once it is in a call or in the loop.
CallStep(t) ==
    \/ SendMessage(t) \/ SendArg(t) \/ PassOver(t) \/ SendShare(t) \/ SendAnswer(t) \/ SendOutcome(t)
    \/ Receives(t) \/ OwnResult(t) \/ HandleError(t) \/ EndOrForget(t) \/ TakeEffect(t)

LoopStep(t) ==
    \/ t = ioroot /\ ((\E S \in SUBSET Component : WaitSome(S)) \/ NextRequest)
    \/ t # ioroot /\ HearRequest(t)
    \/ TakeArg(t) \/ ServeCall(t) \/ EndRequest(t)

\* All components have freed their iosystem, or the program was aborted.
Finished ==
    \/ aborted
    \/ (\A t \in Task : open[t] = {} /\ todo[t] = <<>>) /\ (\A t \in IOTask : loop[t].at = "left")

Done == Finished /\ UNCHANGED vars

Next ==
    \/ \E t \in CompTasks : Begin(t) \/ Follow(t)
    \/ \E t \in Task : CallStep(t)
    \/ \E t \in IOTask : LoopStep(t)
    \/ Done

\* A task that can go on does; MPI_Waitsome does not pass over a message for ever
\* (the fairness the MPI standard promises of it).  Nobody has to make a call.
Fairness ==
    /\ \A t \in CompTasks : WF_vars(Follow(t) \/ CallStep(t))
    /\ \A t \in IOTask : WF_vars(CallStep(t) \/ LoopStep(t))
    /\ \A c \in Component : SF_vars(\E S \in SUBSET Component : c \in S /\ WaitSome(S))

Spec == Init /\ [][Next]_vars /\ Fairness

-----------------------------------------------------------------------------
(***************************************************************************)
(* How the texts of a function, of its handler and of its copy on the I/O  *)
(* tasks agree.                                                            *)
(***************************************************************************)
Local == {"check", "check_filter", "check_default", "pio_err", "forget"}

\* What the callers do by themselves after a call that has failed in another one.
Extra == {"check", "pio_err"}

\* The callers take step s together with the I/O tasks' step o: the same exchange,
\* after an error the same steps and then some of the callers' own.
Same(s, o) ==
    /\ s.do = o.do /\ s.do \notin {"message", "arg"}
    /\ s.do \in FromComp \cup {"answer", "next_id", "effect"} => s.x = o.x
    /\ s.do = "outcome" =>
           /\ o.fail \in Seq(Range(o.fail)) /\ Len(o.fail) <= Len(s.fail)
           /\ s.on = o.on /\ (s.on => Len(s.fail) = Len(o.fail))
           /\ \A i \in DOMAIN o.fail : o.fail[i] = s.fail[i]
           /\ \A i \in DOMAIN s.fail : i > Len(o.fail) =>
                  /\ s.fail[i].do \in Extra
                  /\ s.fail[i].do = "check" => \E j \in DOMAIN o.fail : o.fail[j].do = "check"

\* The steps a of the callers begin with the steps b of the I/O tasks; steps of
\* their own may follow, then the next message or nothing.
Covers(a, b) ==
    \E e \in Len(b)..Len(a) :
        /\ \A i \in DOMAIN b : Same(a[i], b[i])
        /\ \A i \in (Len(b) + 1)..e : a[i].do \in Extra
        /\ e = Len(a) \/ a[e + 1].do = "message"

\* The flags among the first k arguments that are set.
Told(a, k) == {a[i].x[2] : i \in {i \in 1..k : a[i].v}}

\* The arguments that a begins with are what the handler of msg receives, flags f
\* and got arguments after the first; the rest is what the handler then calls.
Understood(a, msg, f, got) ==
    \E n \in DOMAIN a :
        /\ a[n].do = "share"
        /\ \A k \in 1..(n - 1) :
               LET e == Handler(msg, f \cup Told(a, k - 1))["recv"]
               IN  a[k].do = "arg" /\ got + k <= Len(e) /\ e[got + k] = a[k].x
        /\ LET h == Handler(msg, f \cup Told(a, n - 1))
               b == IOSteps(h["call"])
           IN  /\ Len(h["recv"]) = got + n - 1 /\ "unknown" \notin h["call"].checks
               /\ b \in Seq(Range(b)) /\ Covers(SubSeq(a, n, Len(a)), b)

\* What an effect is about has been broadcast in the same exchange.
Needs(effect) == CASE effect \in {"file", "decomp"} -> NextId(effect)
                   [] effect = "close" -> INT("ncid")
                   [] effect = "freedecomp" -> INT("ioid")
                   [] effect = "error_handler" -> INT("method")
                   [] OTHER -> Ierr

Gives(s) == CASE s.do = "arg" /\ s.x \in {INT("ncid"), INT("ioid"), INT("method")} -> s.x
              [] s.do = "next_id" -> NextId(s.x)
              [] OTHER -> Status

Supplied(a, i) ==
    \E j \in 1..(i - 1) : /\ Gives(a[j]) = Needs(a[i].x)
                         /\ \A k \in (j + 1)..(i - 1) : a[k].do \notin {"message", "effect"}

\* Every message and its arguments are understood; a call that has failed or has
\* changed the tables sends no other message, unless it has only made something.
Agrees(call) ==
    LET a == CompSteps(call)
    IN  /\ a \in Seq(Range(a)) /\ a # <<>> /\ a[1].do = "message"
        /\ \A i \in DOMAIN a :
               /\ a[i].do \notin Local \cup {"status"}
               /\ a[i].do = "message" => Understood(SubSeq(a, i + 1, Len(a)), a[i].x, {}, 0)
               /\ a[i].do = "verdict" => \A j \in i..Len(a) : a[j].do # "message"
               /\ a[i].do = "next_id" => a[i].x \in {"file", "decomp"}
               /\ a[i].do = "effect" =>
                      /\ i = Len(a) \/ (a[i + 1].do = "message" /\ a[i].x \in {"file", "decomp"})
                      /\ a[i].x # "exit" => Supplied(a, i)
               /\ a[i].do = "outcome" =>
                      /\ a[i].fail \in Seq(Range(a[i].fail))
                      /\ a[i].on => i = Len(a)
                      /\ \A j \in DOMAIN a[i].fail : a[i].fail[j].do \in Local
                      /\ \A j, k \in DOMAIN a[i].fail :
                             ~Inner(call) /\ a[i].fail[j].do = "check" /\ a[i].fail[k].do = "check" => j = k

\* Every call is understood by the message loop, step by step: not true of a call
\* without a case in the loop nor of PIOc_inq_varid({}) and PIOc_def_dim({}).
CallsAgree == \A call \in Calls : Agrees(call)

-----------------------------------------------------------------------------
(***************************************************************************)
(* Properties.                                                             *)
(***************************************************************************)
\* Every broadcast is understood: what a task receives in a library function or
\* in a message handler is what the root of the broadcast sent there, so that a
\* function, its handler and its copy on the I/O tasks agree on the order, the
\* type and the presence of everything they exchange (pio_nc.c and pio_msg.c).
InStep ==
    /\ \A t \in Task : Waits(t) /\ chan[Source(t)] # <<>> =>
                         Head(chan[Source(t)]).x = Meant(Step(t))
    /\ \A t \in IOTask : loop[t].at = "handler" /\ chan[InterLink(t)] # <<>> =>
                         LET e == Expected(t)
                         IN  loop[t].got < Len(e) => Head(chan[InterLink(t)]).x = e[loop[t].got + 1]

\* The tasks of component c have all returned from the same calls and the I/O
\* tasks have served them.
Quiet(c) ==
    /\ \A t \in CompTask(c) : todo[t] = <<>> /\ pending[t] = <<>>
    /\ chan[MsgLink(c)] = <<>>
    /\ \A t \in IOTask : loop[t].at \in {"top", "left"} /\ loop[t].c \in {c, "none"}
    /\ \A l \in LoopLinks : chan[l] = <<>>

\* Nothing that was broadcast in a call is left over for the next one to take
\* for its own: after an error as after success every function leaves the
\* communicators of its iosystem empty.  Not so after PIOc_inq_varid or PIOc_def_dim
\* with a NULL pointer for the id: Calls may not have them (MCPioAsync, NullIdCalls).
NothingLeft == \A c \in Component : Quiet(c) => \A l \in LinksOf(c) : chan[l] = <<>>

\* A call has the same result on all tasks, those that did the I/O included:
\* each function broadcasts ierr before it looks at it (check_netcdf).
SameAnswer ==
    \A c \in Component : Quiet(c) /\ (\A t \in IOTask : loop[t].c = c) =>
        \A t \in CompTask(c) \cup IOTask : ierr[t] = ierr[ioroot]

\* The same files and decompositions of a component go by the same numbers on
\* its tasks and on the I/O tasks, and no number is given twice there: the
\* lists of open files are the same after every create, open, close and free,
\* though each I/O task serves several components (pio_next_ncid, pio_lists.c).
TablesAgree ==
    /\ \A c \in Component : Quiet(c) =>
          \A t \in CompTask(c), o \in IOTask : tables[t] = {e \in tables[o] : e.c = c}
    /\ \A t \in IOTask : \A e, f \in tables[t] : e.kind = f.kind /\ e.id = f.id => e = f

\* Every call returns, unless the program is aborted: no broadcast waits for a
\* task that will not take part, and no component is forgotten by the loop.
CallsReturn == \A t \in CompTasks : todo[t] # <<>> ~> (todo[t] = <<>> \/ aborted)

\* When all components have freed their iosystem the I/O tasks leave the loop
\* of pio_msg_handler2, and not before.
LoopEnds ==
    /\ (\A t \in CompTasks : open[t] = {}) ~> (aborted \/ \A t \in IOTask : loop[t].at = "left")
    /\ [](\A t \in IOTask : loop[t].at = "left" =>
            \A o \in CompTasks : open[o] = {} \/ todo[o] # <<>> \/ pending[o] # <<>>)
=============================================================================
