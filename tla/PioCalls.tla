------------------------------ MODULE PioCalls ------------------------------
(***************************************************************************)
(* The calls of the parallel I/O library as they run with asynchronous     *)
(* I/O: a call is made by all computation tasks of a component, its first  *)
(* computation task tells the I/O tasks what is called and with which      *)
(* arguments, and everybody then takes part in the same broadcasts.  One   *)
(* operator per function of the C library says what it exchanges, in the   *)
(* order in which it does so; the values exchanged are named, not computed.*)
(* The handlers, which follow, say what the I/O tasks expect; module       *)
(* PioAsync runs both sides.                                               *)
(*                                                                         *)
(* The argument p of a function is the set of its optional pointers that   *)
(* are not NULL, and of the conditions on its other arguments that decide  *)
(* what it exchanges ("long": the memory type is PIO_LONG_INTERNAL; "nat": *)
(* no type is given; "scalar": the variable has no dimensions; "eh": the   *)
(* caller wants errors handled).                                           *)
(***************************************************************************)
EXTENDS Naturals, Sequences, SequencesExt

(***************************************************************************)
(* What is broadcast: an MPI type and the name of the value.               *)
(***************************************************************************)
INT(n)  == <<"INT", n>>
CHAR(n) == <<"CHAR", n>>
OFFSET(n)  == <<"OFFSET", n>>
BYTE(n) == <<"BYTE", n>>
FLOAT(n)  == <<"FLOAT", n>>
UNSIGNED(n)  == <<"UNSIGNED", n>>
SIZE_T(n) == <<"SIZE_T", n>>

\* The flag that says whether optional pointer n is there.
Flag(n) == <<"CHAR", n>>

Given(c, s) == IF c THEN s ELSE <<>>

(***************************************************************************)
(* The steps of a call.  The I/O tasks take no part in a Message or an Arg *)
(* (they receive them in a handler), the computation tasks other than the  *)
(* first none either.                                                      *)
(***************************************************************************)
Message(m)    == [do |-> "message", x |-> m]
Arg(x, v)     == [do |-> "arg", x |-> x, v |-> v]        \* to the I/O tasks
Share(x)      == [do |-> "share", x |-> x]               \* from the first computation task to all
Answer(x)     == [do |-> "answer", x |-> x]              \* from the first I/O task to all
Next_id(x)    == [do |-> "next_id", x |-> x]             \* the same for the id to be given
Effect(e)     == [do |-> "effect", x |-> e]              \* the task's tables change

\* The first computation task shares whether the arguments are in order: Reject
\* ends the call on all tasks if they are not.
Verdict(x)    == [do |-> "verdict", x |-> x]
Reject        == [do |-> "reject"]

\* The call ends with an error, on all tasks.
Fail          == [do |-> "fail"]

\* ierr goes from the first I/O task to all: an error leads to the steps "fail",
\* which end the call unless "on" says that it goes on regardless.
Outcome(fail) == [do |-> "outcome", fail |-> fail, on |-> FALSE]

\* ierr stays with the task that has it.
Own(fail)     == [do |-> "own", fail |-> fail, on |-> FALSE]

\* pioc_support.c check_netcdf2, pio_err: what the error handler in force does.
Check         == <<[do |-> "check"]>>
CheckDefault  == <<[do |-> "check_default"]>>

\* As Check, but NC_ENOFILTER is an answer and no error.
CheckFilter   == <<[do |-> "check_filter"]>>
PioErr        == <<[do |-> "pio_err"]>>

\* ierr is set back to PIO_NOERR, or the call's result is not looked at.
Forget        == <<[do |-> "forget"]>>

Call(checks, pre, msg, args, p, share, tail) ==
    [checks |-> checks, pre |-> pre, msg |-> msg,
     args |-> [i \in DOMAIN args |-> Arg(args[i], args[i][2] \in p)],
     rest |-> <<Share(INT("mpierr"))>> \o [i \in DOMAIN share |-> Share(share[i])] \o tail]

Answers(items) == [i \in DOMAIN items |-> Answer(items[i])]

\* The common form: arguments, netCDF call, its error code, the results.
Simple(checks, msg, args, p, results) ==
    Call(checks, <<>>, msg, args, p, <<>>, <<Outcome(Check)>> \o Answers(results))

\* The steps of the computation tasks and of the I/O tasks.
CompSteps(c) == c.pre \o <<Message(c.msg)>> \o c.args \o c.rest
IOSteps(c) == c.rest

\* A call made by the computation tasks in the course of another one, which
\* goes on with the steps "after" and gives up if it fails.
Nested(c, after) ==
    [i \in DOMAIN CompSteps(c) |->
        LET s == CompSteps(c)[i]
        IN  IF "fail" \in DOMAIN s THEN [s EXCEPT !.fail = @ \o after] ELSE s]

\* A call whose result is ignored.
NestedIgnored(c) ==
    [i \in DOMAIN CompSteps(c) |->
        LET s == CompSteps(c)[i]
        IN  IF "fail" \in DOMAIN s THEN [s EXCEPT !.fail = @ \o Forget, !.on = TRUE] ELSE s]

\* The call c, made by a function that first makes others.
After(pre, c) == [c EXCEPT !.pre = pre \o @]

BadId  == {"PIO_EBADID"}
Inval  == BadId \cup {"PIO_EINVAL"}
NotNc4 == BadId \cup {"PIO_ENOTNC4"}

Name == <<INT("namelen"), CHAR("name")>>
NameAnswer == <<INT("slen"), CHAR("name")>>

-----------------------------------------------------------------------------
(***************************************************************************)
(* Inquiries (pio_nc.c).                                                   *)
(***************************************************************************)
PIOc_inq(p) ==
    Simple(BadId, "INQ",
           <<INT("ncid"), Flag("ndims"), Flag("nvars"), Flag("ngatts"), Flag("unlimdimid")>>, p,
           Given("ndims" \in p, <<INT("ndims")>>) \o Given("nvars" \in p, <<INT("nvars")>>)
           \o Given("ngatts" \in p, <<INT("ngatts")>>)
           \o Given("unlimdimid" \in p, <<INT("unlimdimid")>>))

\* PIOc_inq_ndims, _nvars, _natts and _unlimdim ask for one value.
PIOc_inq_one == {{"ndims"}, {"nvars"}, {"ngatts"}, {"unlimdimid"}}

PIOc_inq_unlimdims(p) ==
    Simple(BadId, "INQ_UNLIMDIMS",
           <<INT("ncid"), Flag("nunlimdims"), Flag("unlimdimids")>>, p,
           <<INT("tmp_nunlimdims")>> \o Given("nunlimdims" \in p, <<INT("nunlimdims")>>)
           \o Given("unlimdimids" \in p, <<INT("unlimdimids")>>))

PIOc_inq_type(p) ==
    Simple(BadId, "INQ_TYPE", <<INT("ncid"), INT("xtype"), Flag("name"), Flag("size")>>, p,
           Given("name" \in p, NameAnswer) \o Given("size" \in p, <<OFFSET("size")>>))

PIOc_inq_format(p) ==
    Simple(BadId, "INQ_FORMAT", <<INT("ncid"), Flag("format")>>, p,
           Given("format" \in p, <<INT("format")>>))

PIOc_inq_dim(p) ==
    Simple(BadId, "INQ_DIM", <<INT("ncid"), INT("dimid"), Flag("name"), Flag("len")>>, p,
           Given("name" \in p, NameAnswer) \o Given("len" \in p, <<OFFSET("len")>>))

PIOc_inq_dimid(p) ==
    Simple(Inval, "INQ_DIMID", <<INT("ncid")>> \o Name \o <<Flag("id")>>, p,
           Given("id" \in p, <<INT("id")>>))

PIOc_inq_var(p) ==
    Simple(BadId, "INQ_VAR",
           <<INT("ncid"), INT("varid"), Flag("name"), Flag("xtype"), Flag("ndims"),
             Flag("dimids"), Flag("natts")>>, p,
           Given("name" \in p, NameAnswer) \o Given("xtype" \in p, <<INT("xtype")>>)
           \o Given("ndims" \in p, <<INT("ndims")>>)
           \o Given("dimids" \in p, <<INT("ndims"), INT("dimids")>>)
           \o Given("natts" \in p, <<INT("natts")>>))

\* PIOc_inq_varname, _vartype, _varndims, _vardimid and _varnatts.
PIOc_inq_var_one == {{"name"}, {"xtype"}, {"ndims"}, {"dimids"}, {"natts"}}

PIOc_inq_varid(p) ==
    Simple(Inval, "INQ_VARID", <<INT("ncid")>> \o Name, p,
           Given("id" \in p, <<INT("id")>>))

\* With eh = 0 an error is returned without being handled.
PIOc_inq_att_eh(p) ==
    Call(Inval, <<>>, "INQ_ATT",
         <<INT("ncid"), INT("varid")>> \o Name \o <<Flag("xtype"), Flag("len"), INT("eh")>>, p, <<>>,
         <<Outcome(Given("eh" \in p, Check))>>
         \o Answers(Given("xtype" \in p, <<INT("xtype")>>) \o Given("len" \in p, <<OFFSET("len")>>)))

PIOc_inq_att(p) == PIOc_inq_att_eh(p \cup {"eh"})

PIOc_inq_attname(p) ==
    Simple(BadId, "INQ_ATTNAME", <<INT("ncid"), INT("varid"), INT("attnum"), Flag("name")>>, p,
           Given("name" \in p, <<INT("namelen"), CHAR("name")>>))

PIOc_inq_attid(p) ==
    Simple(Inval, "INQ_ATTID", <<INT("ncid"), INT("varid")>> \o Name \o <<Flag("id")>>, p,
           Given("id" \in p, <<INT("id")>>))

(***************************************************************************)
(* Definitions and changes (pio_nc.c).                                     *)
(***************************************************************************)
PIOc_rename_dim(p) ==
    Simple(Inval, "RENAME_DIM", <<INT("ncid"), INT("dimid")>> \o Name, p, <<>>)

PIOc_rename_var(p) ==
    Simple(Inval, "RENAME_VAR", <<INT("ncid"), INT("varid")>> \o Name, p, <<>>)

PIOc_rename_att(p) ==
    Simple(Inval, "RENAME_ATT",
           <<INT("ncid"), INT("varid")>> \o Name \o <<INT("newnamelen"), CHAR("newname")>>, p, <<>>)

PIOc_del_att(p) ==
    Simple(Inval, "DEL_ATT", <<INT("ncid"), INT("varid")>> \o Name, p, <<>>)

PIOc_set_fill(p) ==
    Simple(BadId, "SET_FILL", <<INT("ncid"), INT("fillmode"), INT("old_mode")>>, p,
           Given("old_mode" \in p, <<INT("old_mode")>>))

\* PIOc_enddef and PIOc_redef.
pioc_change_def(p) ==
    Simple(BadId, IF "enddef" \in p THEN "ENDDEF" ELSE "REDEF", <<INT("ncid")>>, p, <<>>)

PIOc_def_dim(p) ==
    Simple(Inval, "DEF_DIM", <<INT("ncid")>> \o Name \o <<INT("len")>>, p,
           Given("id" \in p, <<INT("id")>>))

\* An unlimited dimension that is not the first ends the call on all tasks.
PIOc_def_var(p) ==
    Call(Inval,
         Nested(PIOc_inq_type({"size"}), Check)
         \o Nested(PIOc_inq_unlimdims({"nunlimdims"}), Check)
         \o Given("unlim" \in p, Nested(PIOc_inq_unlimdims({"unlimdimids"}), Check)),
         "DEF_VAR", <<INT("ncid")>> \o Name \o <<INT("xtype"), INT("ndims"), INT("dimids")>>, p,
         <<INT("rec_var")>>,
         <<Verdict(INT("invalid_unlim_dim")), Share(OFFSET("pio_type_size")), Share(INT("mpi_type")),
           Share(INT("mpi_type_size")), Reject, Outcome(Check), Answer(INT("varid"))>>)

PIOc_def_var_fill(p) ==
    Call(Inval, Nested(PIOc_inq_var({"xtype"}), Check) \o Nested(PIOc_inq_type({"size"}), Check),
         "DEF_VAR_FILL",
         <<INT("ncid"), INT("varid"), INT("fill_mode"), OFFSET("type_size"), Flag("fill_value")>>
         \o Given("fill_value" \in p, <<CHAR("fill_value[]")>>), p,
         <<INT("xtype"), OFFSET("type_size")>>, <<Outcome(Check)>>)

PIOc_inq_var_fill(p) ==
    Call(BadId, Nested(PIOc_inq_var({"xtype"}), Check) \o Nested(PIOc_inq_type({"size"}), Check),
         "INQ_VAR_FILL",
         <<INT("ncid"), INT("varid"), OFFSET("type_size"), Flag("no_fill"), Flag("fill_value")>>, p,
         <<INT("xtype"), OFFSET("type_size")>>,
         <<Outcome(Check)>> \o Answers(Given("no_fill" \in p, <<INT("no_fill")>>)
                                       \o Given("fill_value" \in p, <<CHAR("fill_value")>>)))

-----------------------------------------------------------------------------
(***************************************************************************)
(* netCDF-4 settings (pio_nc4.c).                                          *)
(***************************************************************************)
OfVar == <<INT("ncid"), INT("varid")>>

PIOc_def_var_deflate(p) ==
    Simple(NotNc4, "DEF_VAR_DEFLATE",
           OfVar \o <<INT("shuffle"), INT("deflate"), INT("deflate_level")>>, p, <<>>)

PIOc_def_var_szip(p) ==
    Simple(NotNc4, "DEF_VAR_SZIP", OfVar \o <<INT("options_mask"), INT("pixels_per_block")>>, p, <<>>)

PIOc_def_var_bzip2(p) == Simple(NotNc4, "DEF_VAR_BZIP2", OfVar \o <<INT("level")>>, p, <<>>)

PIOc_def_var_zstandard(p) == Simple(NotNc4, "DEF_VAR_ZSTANDARD", OfVar \o <<INT("level")>>, p, <<>>)

\* A value is sent along with each flag that is set.
PIOc_inq_var_deflate(p) ==
    Simple(NotNc4, "INQ_VAR_DEFLATE",
           OfVar \o <<Flag("shuffle")>> \o Given("shuffle" \in p, <<INT("shuffle")>>)
           \o <<Flag("deflate")>> \o Given("deflate" \in p, <<INT("deflate")>>)
           \o <<Flag("level")>> \o Given("level" \in p, <<INT("level")>>), p,
           Given("shuffle" \in p, <<INT("shuffle")>>) \o Given("deflate" \in p, <<INT("deflate")>>)
           \o Given("level" \in p, <<INT("level")>>))

PIOc_def_var_chunking(p) ==
    Call(NotNc4, Nested(PIOc_inq_var({"ndims"}), Check), "DEF_VAR_CHUNKING",
         OfVar \o <<INT("storage"), INT("ndims"), Flag("chunksizes")>>
         \o Given("chunksizes" \in p, <<OFFSET("chunksizes")>>), p, <<INT("ndims")>>,
         <<Outcome(Check)>>)

PIOc_inq_var_chunking(p) ==
    Call(NotNc4, Nested(PIOc_inq_var({"ndims"}), PioErr), "INQ_VAR_CHUNKING",
         OfVar \o <<Flag("storage"), INT("ndims"), Flag("chunksizes")>>, p, <<INT("ndims")>>,
         <<Outcome(Check)>>
         \o Answers(<<INT("ndims")>> \o Given("storage" \in p, <<INT("storage")>>)
                    \o Given("chunksizes" \in p, <<OFFSET("chunksizes")>>)))

PIOc_def_var_endian(p) == Simple(NotNc4, "DEF_VAR_ENDIAN", OfVar \o <<INT("endian")>>, p, <<>>)

PIOc_inq_var_endian(p) ==
    Simple(NotNc4, "INQ_VAR_ENDIAN", OfVar \o <<Flag("endian")>>, p,
           Given("endian" \in p, <<INT("endian")>>))

CacheValues(p) ==
    Given("size" \in p, <<OFFSET("size")>>) \o Given("nelems" \in p, <<OFFSET("nelems")>>)
    \o Given("preemption" \in p, <<FLOAT("preemption")>>)

CacheFlags == <<Flag("size"), Flag("nelems"), Flag("preemption")>>

\* What the error handler says is not returned: the call succeeds.
PIOc_set_chunk_cache(p) ==
    Call(Inval, <<>>, "SET_CHUNK_CACHE",
         <<INT("iosysid"), INT("iotype"), OFFSET("size"), OFFSET("nelems"), FLOAT("preemption")>>, p, <<>>,
         <<[Outcome(Check \o Forget) EXCEPT !.on = TRUE]>>)

PIOc_get_chunk_cache(p) ==
    Call(Inval, <<>>, "GET_CHUNK_CACHE", <<INT("iosysid"), INT("iotype")>> \o CacheFlags, p, <<>>,
         <<Outcome(CheckDefault)>> \o Answers(CacheValues(p)))

PIOc_set_var_chunk_cache(p) ==
    Simple(NotNc4, "SET_VAR_CHUNK_CACHE",
           OfVar \o <<OFFSET("size"), OFFSET("nelems"), FLOAT("preemption")>>, p, <<>>)

PIOc_get_var_chunk_cache(p) ==
    Simple(NotNc4, "GET_VAR_CHUNK_CACHE", OfVar \o CacheFlags, p, CacheValues(p))

PIOc_def_var_filter(p) ==
    Simple(NotNc4, "DEF_VAR_FILTER", OfVar \o <<INT("id"), SIZE_T("nparams"), UNSIGNED("params")>>, p, <<>>)

PIOc_inq_var_filter_ids(p) ==
    Simple(NotNc4, "INQ_VAR_FILTER_IDS",
           OfVar \o <<Flag("nfilters"), Flag("ids")>> \o Given("ids" \in p, <<SIZE_T("cnt")>>), p,
           Given("nfilters" \in p, <<OFFSET("nfilters")>>) \o Given("ids" \in p, <<UNSIGNED("ids")>>))

PIOc_inq_var_filter_info(p) ==
    Simple(NotNc4, "INQ_VAR_FILTER_INFO",
           OfVar \o <<UNSIGNED("id"), Flag("nparams"), Flag("params")>>
           \o Given("params" \in p, <<SIZE_T("cnt")>>), p,
           Given("nparams" \in p, <<OFFSET("nparams")>>) \o Given("params" \in p, <<UNSIGNED("params")>>))

HasFilter(msg, p) ==
    Simple(NotNc4, msg, OfVar \o <<Flag("hasfilter"), Flag("level")>>, p,
           Given("hasfilter" \in p, <<INT("hasfilter")>>) \o Given("level" \in p, <<INT("level")>>))

PIOc_inq_var_bzip2(p) == HasFilter("INQ_VAR_BZIP2", p)

PIOc_inq_var_zstandard(p) == HasFilter("INQ_VAR_ZSTANDARD", p)

PIOc_inq_filter_avail(p) ==
    Call(NotNc4, <<>>, "INQ_FILTER_AVAIL", <<INT("ncid"), INT("id")>>, p, <<>>,
         <<Outcome(CheckFilter)>>)

PIOc_def_var_quantize(p) ==
    Simple(NotNc4, "DEF_VAR_QUANTIZE", OfVar \o <<INT("mode"), INT("nsd")>>, p, <<>>)

PIOc_inq_var_quantize(p) ==
    Simple(NotNc4, "INQ_VAR_QUANTIZE", OfVar \o <<Flag("mode"), Flag("nsd")>>, p,
           Given("mode" \in p, <<INT("mode")>>) \o Given("nsd" \in p, <<INT("nsd")>>))

-----------------------------------------------------------------------------
(***************************************************************************)
(* Attributes and data of variables (pio_getput_int.c, and the functions   *)
(* for each type in pio_nc.c, pio_get_nc.c, pio_put_nc.c).  The memory     *)
(* type "long" needs no inquiry of its size.                               *)
(***************************************************************************)
InqSize(p) == Given("long" \notin p, Nested(PIOc_inq_type({"size"}), Check))

\* netCDF is called by the I/O tasks, for the memory type at hand, and everybody
\* hears how that went; what was read goes from the first I/O task to all.
AttWritten  == <<Outcome(Check)>>
AttRead     == <<Outcome(Check), Answer(BYTE("ip"))>>
VarsRead    == <<Outcome(Check), Answer(BYTE("buf"))>>
VarsWritten == <<Outcome(Check)>>

PIOc_put_att_tc(p) ==
    Call(Inval, Nested(PIOc_inq_type({"size"}), Check) \o InqSize(p), "PUT_ATT",
         OfVar \o Name \o <<INT("atttype"), OFFSET("len"), OFFSET("atttype_len"), INT("memtype"),
           OFFSET("memtype_len"), BYTE("op")>>, p,
         <<OFFSET("atttype_len"), OFFSET("memtype_len")>>, AttWritten)

\* A missing attribute is returned without a second look at the error handler.
PIOc_get_att_tc(p) ==
    Call(Inval,
         Nested(PIOc_inq_att({"xtype", "len"}), <<>>) \o Nested(PIOc_inq_type({"size"}), Check)
         \o InqSize(p),
         "GET_ATT",
         OfVar \o Name \o <<INT("iotype"), INT("atttype"), OFFSET("attlen"), OFFSET("atttype_len"),
           INT("memtype"), OFFSET("memtype_len")>>, p,
         <<OFFSET("attlen"), OFFSET("atttype_len"), OFFSET("memtype_len")>>, AttRead)

PIOc_put_att_text(p) == PIOc_put_att_tc(p)

PIOc_get_att_text(p) == PIOc_get_att_tc(p)

\* The type is asked for first.
PIOc_get_att(p) == After(Nested(PIOc_inq_att({"xtype"}), <<>>), PIOc_get_att_tc(p))

VarsArgs(p) ==
    OfVar \o <<INT("ndims"), Flag("start")>> \o Given("start" \in p, <<OFFSET("start[]")>>)
    \o <<Flag("count")>> \o Given("count" \in p, <<OFFSET("count[]")>>)
    \o <<Flag("stride")>> \o Given("stride" \in p, <<OFFSET("stride[]")>>)
    \o <<INT("xtype"), OFFSET("num_elem"), OFFSET("typelen")>>

PIOc_get_vars_tc(p) ==
    Call(Inval,
         Nested(PIOc_inq_var({"xtype"}), Check) \o InqSize(p)
         \o Nested(PIOc_inq_var({"ndims"}), Check),
         "GET_VARS", VarsArgs(p), p,
         <<OFFSET("num_elem"), OFFSET("typelen"), INT("xtype"), INT("ndims")>>, VarsRead)

PIOc_put_vars_tc(p) ==
    Call(Inval,
         Nested(PIOc_inq_var({"xtype"}), Check) \o Nested(PIOc_inq_var({"ndims"}), Check)
         \o InqSize(p),
         "PUT_VARS", VarsArgs(p) \o <<BYTE("buf")>>, p,
         <<INT("ndims"), INT("xtype")>>, VarsWritten)

\* One element: the number of dimensions is asked for first.
PIOc_get_var1_tc(p) ==
    After(Nested(PIOc_inq_var({"ndims"}), PioErr), PIOc_get_vars_tc(p \cup {"start", "count"}))

PIOc_put_var1_tc(p) ==
    After(Nested(PIOc_inq_var({"ndims"}), PioErr), PIOc_put_vars_tc(p \cup {"start", "count"}))

\* The whole variable, of one dimension unless it is scalar: its dimensions
\* and their lengths are asked for first.
InqShape(p, after) ==
    Nested(PIOc_inq_var({"ndims"}), PioErr)
    \o Given("scalar" \notin p,
             Nested(PIOc_inq_var({"dimids"}), after) \o Nested(PIOc_inq_dim({"len"}), PioErr))

Whole(p) == IF "scalar" \in p THEN p \ {"scalar"} ELSE p \cup {"start", "count"}

PIOc_get_var_tc(p) == After(InqShape(p, PioErr), PIOc_get_vars_tc(Whole(p)))

PIOc_put_var_tc(p) == After(InqShape(p, Check), PIOc_put_vars_tc(Whole(p)))

PIOc_get_vars_text(p) == PIOc_get_vars_tc(p \cup {"start", "count", "stride"})
PIOc_get_vara_text(p) == PIOc_get_vars_tc(p \cup {"start", "count"})
PIOc_get_var1_text(p) == PIOc_get_var1_tc(p)
PIOc_get_var_text(p)  == PIOc_get_var_tc(p)

PIOc_put_vars_text(p) == PIOc_put_vars_tc(p \cup {"start", "count", "stride"})
PIOc_put_vara_text(p) == PIOc_put_vars_tc(p \cup {"start", "count"})
PIOc_put_var1_text(p) == PIOc_put_var1_tc(p)
PIOc_put_var_text(p)  == PIOc_put_var_tc(p)

-----------------------------------------------------------------------------
(***************************************************************************)
(* Files (pio_file.c, pioc_support.c).  The number of a new file or        *)
(* decomposition is given by the I/O tasks, which serve several components.*)
(***************************************************************************)
FileName == <<INT("len"), CHAR("filename")>>

PIOc_createfile_int(p) ==
    Call({"PIO_EINVAL"}, <<>>, "CREATE_FILE",
         FileName \o <<INT("iotype"), INT("mode"), INT("use_ext_ncid"), Flag("ncidp")>>
         \o Given("ncidp" \in p, <<INT("*ncidp")>>), p, <<>>,
         <<Outcome(Check), Answer(INT("writable")), Next_id("file"), Effect("file")>>)

\* The file is then set not to be filled, in a call of its own.
PIOc_createfile(p) == After(Nested(PIOc_createfile_int(p), PioErr), PIOc_set_fill({}))

PIOc_create(p) == PIOc_createfile_int(p)

\* The file is opened by the I/O tasks, a second time as a classic netCDF file if
\* it is not of the kind that was asked for; then what is known of its variables
\* goes to all tasks, which make the same list of them.
FileOpened ==
    <<Outcome(Check), Answer(INT("writable")), Next_id("file")>>
    \o Answers(<<INT("nvars"), INT("rec_var"), INT("pio_type"), INT("pio_type_size"),
                 INT("mpi_type"), INT("mpi_type_size"), INT("ndims")>>)
    \o <<Effect("file")>>

PIOc_openfile_retry(p) ==
    Call({"PIO_EINVAL"}, <<>>, "OPEN_FILE",
         FileName \o <<INT("iotype"), INT("mode"), INT("use_ext_ncid")>>, p, <<>>, FileOpened)

PIOc_openfile(p)  == PIOc_openfile_retry(p)
PIOc_openfile2(p) == PIOc_openfile_retry(p)
PIOc_open(p)      == PIOc_openfile_retry(p)

\* Nobody is told the result but the task that has it.
PIOc_sync(p) == Call(BadId, <<>>, "SYNC", <<INT("ncid")>>, p, <<>>, <<Own(Check)>>)

\* A file that could not be closed stays open.
PIOc_closefile(p) ==
    Call(BadId, NestedIgnored(PIOc_sync({})), "CLOSE_FILE", <<INT("ncid")>>, p, <<>>,
         <<Outcome(Check), Effect("close")>>)

PIOc_deletefile(p) == Call({}, <<>>, "DELETE_FILE", FileName, p, <<>>, <<Outcome(Check)>>)

-----------------------------------------------------------------------------
(***************************************************************************)
(* Decompositions, records, distributed arrays, settings and the end       *)
(* (pioc.c, pioc_support.c, pio_darray.c).  The exchange of the array's    *)
(* data is module PioSwap's.                                               *)
(***************************************************************************)
\* The first I/O task says how many I/O tasks hold data, and the number of the
\* decomposition, which is then recorded.  (How it is made is PioRearrange's.)
DecompMade == <<Answer(INT("num_aiotasks")), Next_id("decomp"), Effect("decomp")>>

\* With asynchronous I/O a rearranger other than the default one is refused.
PIOc_InitDecomp(p) ==
    Call({"PIO_EINVAL"}, <<>>, "INITDECOMP_DOF",
         <<INT("iosysid"), INT("pio_type"), INT("ndims"), INT("dims"), INT("maplen"), OFFSET("compmap"),
           Flag("rearranger")>> \o Given("rearranger" \in p, <<INT("other_rearranger")>>)
         \o <<Flag("iostart")>> \o Given("iostart" \in p, <<OFFSET("iostart")>>)
         \o <<Flag("iocount")>> \o Given("iocount" \in p, <<OFFSET("iocount")>>), p, <<>>,
         Given("other_rearranger" \in p, <<Fail>>) \o DecompMade)

PIOc_freedecomp(p) ==
    Call(BadId, <<>>, "FREEDECOMP", <<INT("iosysid"), INT("ioid")>>, p, <<>>, <<Effect("freedecomp")>>)

PIOc_setframe(p) ==
    Call(BadId, <<>>, "SETFRAME", OfVar \o <<INT("frame")>>, p, <<>>, <<>>)

PIOc_advanceframe(p) == Call(BadId, <<>>, "ADVANCEFRAME", OfVar, p, <<>>, <<>>)

PIOc_write_darray_multi(p) ==
    Call(Inval, Nested(PIOc_inq_var({"ndims"}), Check), "WRITEDARRAYMULTI",
         <<INT("ncid"), INT("nvars"), INT("varids"), INT("ioid"), OFFSET("arraylen"), CHAR("array"),
           Flag("frame")>> \o Given("frame" \in p, <<INT("frame")>>)
         \o <<Flag("fillvalue")>> \o Given("fillvalue" \in p, <<CHAR("fillvalue[]")>>)
         \o <<INT("flushtodisk")>>, p, <<INT("fndims")>>, <<>>)

PIOc_read_darray(p) ==
    Call(BadId, <<>>, "READDARRAY", OfVar \o <<INT("ioid"), OFFSET("arraylen")>>, p, <<>>, <<>>)

\* The record is set first.
PIOc_get_vard_tc(p) == After(Nested(PIOc_setframe({}), <<>>), PIOc_read_darray(p))

PIOc_set_iosystem_error_handling(p) ==
    Call({"PIO_EINVAL"}, <<>>, "SETERRORHANDLING", <<INT("method"), Flag("old_method")>>, p, <<>>,
         <<Effect("error_handler")>>)

\* The level goes to all tasks before the code of MPI errors does (a library
\* built with PIO_ENABLE_LOGGING; without it the call does nothing).
PIOc_set_global_log_level(p) ==
    LET c == Call(BadId, <<>>, "SETLOGLEVEL", <<INT("iosysid")>>, p, <<>>, <<>>)
    IN  [c EXCEPT !.rest = <<Share(INT("level"))>> \o @]

PIOc_free_iosystem(p) == Call({}, <<>>, "EXIT", <<INT("iosysid")>>, p, <<>>, <<Effect("exit")>>)

-----------------------------------------------------------------------------
(***************************************************************************)
(* What the I/O tasks do with a message (pio_msg.c): one operator per      *)
(* handler gives the arguments it receives, in the order in which it       *)
(* receives them, and the library function it then calls.  The argument f  *)
(* is the set of flags received as true so far: it decides what else is    *)
(* received, and which pointers are handed to the function.  The result of *)
(* that function is not looked at.                                         *)
(***************************************************************************)
Receive(items, call) == [k \in {"recv", "call"} |-> IF k = "recv" THEN items ELSE call]

inq_type_handler(f) ==
    Receive(<<INT("ncid"), INT("xtype"), Flag("name"), Flag("size")>>, PIOc_inq_type(f))

\* Mutant: the pointer is handed on whether the caller had one or not.
inq_format_handler_always(f) ==
    Receive(<<INT("ncid"), Flag("format")>>, PIOc_inq_format({"format"}))

inq_format_handler(f) == Receive(<<INT("ncid"), Flag("format")>>, PIOc_inq_format(f))

set_fill_handler(f) ==
    Receive(<<INT("ncid"), INT("fillmode"), INT("old_mode")>>, PIOc_set_fill(f))

create_file_handler(f) ==
    Receive(FileName \o <<INT("iotype"), INT("mode"), INT("use_ext_ncid"), Flag("ncidp")>>
            \o Given("ncidp" \in f, <<INT("*ncidp")>>), PIOc_createfile_int(f))

close_file_handler(f) == Receive(<<INT("ncid")>>, PIOc_closefile(f))

inq_handler(f) ==
    Receive(<<INT("ncid"), Flag("ndims"), Flag("nvars"), Flag("ngatts"), Flag("unlimdimid")>>,
            PIOc_inq(f))

inq_unlimdims_handler(f) ==
    Receive(<<INT("ncid"), Flag("nunlimdims"), Flag("unlimdimids")>>, PIOc_inq_unlimdims(f))

\* Mutant: two flags are received in the wrong order.
inq_dim_handler_swapped(f) ==
    Receive(<<INT("ncid"), INT("dimid"), Flag("len"), Flag("name")>>, PIOc_inq_dim(f))

inq_dim_handler(f) ==
    Receive(<<INT("ncid"), INT("dimid"), Flag("name"), Flag("len")>>, PIOc_inq_dim(f))

inq_dimid_handler(f) == Receive(<<INT("ncid")>> \o Name \o <<Flag("id")>>, PIOc_inq_dimid(f))

inq_att_handler(f) ==
    Receive(OfVar \o Name \o <<Flag("xtype"), Flag("len"), INT("eh")>>, PIOc_inq_att_eh(f))

inq_attname_handler(f) ==
    Receive(OfVar \o <<INT("attnum"), Flag("name")>>, PIOc_inq_attname(f))

inq_attid_handler(f) == Receive(OfVar \o Name \o <<Flag("id")>>, PIOc_inq_attid(f))

att_put_handler(f) ==
    Receive(OfVar \o Name \o <<INT("atttype"), OFFSET("len"), OFFSET("atttype_len"), INT("memtype"),
                               OFFSET("memtype_len"), BYTE("op")>>, PIOc_put_att_tc(f))

att_get_handler(f) ==
    Receive(OfVar \o Name \o <<INT("iotype"), INT("atttype"), OFFSET("attlen"), OFFSET("atttype_len"),
                               INT("memtype"), OFFSET("memtype_len")>>, PIOc_get_att_tc(f))

VarsReceived(f) ==
    OfVar \o <<INT("ndims"), Flag("start")>> \o Given("start" \in f, <<OFFSET("start[]")>>)
    \o <<Flag("count")>> \o Given("count" \in f, <<OFFSET("count[]")>>)
    \o <<Flag("stride")>> \o Given("stride" \in f, <<OFFSET("stride[]")>>)
    \o <<INT("xtype"), OFFSET("num_elem"), OFFSET("typelen")>>

put_vars_handler(f) == Receive(VarsReceived(f) \o <<BYTE("buf")>>, PIOc_put_vars_tc(f))

get_vars_handler(f) == Receive(VarsReceived(f), PIOc_get_vars_tc(f))

inq_var_handler(f) ==
    Receive(OfVar \o <<Flag("name"), Flag("xtype"), Flag("ndims"), Flag("dimids"), Flag("natts")>>,
            PIOc_inq_var(f))

inq_var_chunking_handler(f) ==
    Receive(OfVar \o <<Flag("storage"), INT("ndims"), Flag("chunksizes")>>, PIOc_inq_var_chunking(f))

inq_var_filter_ids_handler(f) ==
    Receive(OfVar \o <<Flag("nfilters"), Flag("ids")>> \o Given("ids" \in f, <<SIZE_T("cnt")>>),
            PIOc_inq_var_filter_ids(f))

inq_var_filter_info_handler(f) ==
    Receive(OfVar \o <<UNSIGNED("id"), Flag("nparams"), Flag("params")>>
            \o Given("params" \in f, <<SIZE_T("cnt")>>), PIOc_inq_var_filter_info(f))

inq_var_quantize_handler(f) ==
    Receive(OfVar \o <<Flag("mode"), Flag("nsd")>>, PIOc_inq_var_quantize(f))

def_var_quantize_handler(f) ==
    Receive(OfVar \o <<INT("mode"), INT("nsd")>>, PIOc_def_var_quantize(f))

inq_var_zstandard_handler(f) ==
    Receive(OfVar \o <<Flag("hasfilter"), Flag("level")>>, PIOc_inq_var_zstandard(f))

def_var_zstandard_handler(f) == Receive(OfVar \o <<INT("level")>>, PIOc_def_var_zstandard(f))

inq_var_fill_handler(f) ==
    Receive(OfVar \o <<OFFSET("type_size"), Flag("no_fill"), Flag("fill_value")>>, PIOc_inq_var_fill(f))

inq_var_endian_handler(f) == Receive(OfVar \o <<Flag("endian")>>, PIOc_inq_var_endian(f))

inq_var_deflate_handler(f) ==
    Receive(OfVar \o <<Flag("shuffle")>> \o Given("shuffle" \in f, <<INT("shuffle")>>)
            \o <<Flag("deflate")>> \o Given("deflate" \in f, <<INT("deflate")>>)
            \o <<Flag("level")>> \o Given("level" \in f, <<INT("level")>>), PIOc_inq_var_deflate(f))

\* There is no flag for the id: the handler always asks for it, whatever the caller did.
inq_varid_handler(f) == Receive(<<INT("ncid")>> \o Name, PIOc_inq_varid({"id"}))

sync_file_handler(f) == Receive(<<INT("ncid")>>, PIOc_sync(f))

setframe_handler(f) == Receive(OfVar \o <<INT("frame")>>, PIOc_setframe(f))

advanceframe_handler(f) == Receive(OfVar, PIOc_advanceframe(f))

\* Called for PIO_MSG_ENDDEF and PIO_MSG_REDEF.
change_def_file_handler(enddef) == Receive(<<INT("ncid")>>, pioc_change_def(enddef))

def_var_handler(f) ==
    Receive(<<INT("ncid")>> \o Name \o <<INT("xtype"), INT("ndims"), INT("dimids")>>, PIOc_def_var(f))

def_var_chunking_handler(f) ==
    Receive(OfVar \o <<INT("storage"), INT("ndims"), Flag("chunksizes")>>
            \o Given("chunksizes" \in f, <<OFFSET("chunksizes")>>), PIOc_def_var_chunking(f))

def_var_fill_handler(f) ==
    Receive(OfVar \o <<INT("fill_mode"), OFFSET("type_size"), Flag("fill_value")>>
            \o Given("fill_value" \in f, <<CHAR("fill_value[]")>>), PIOc_def_var_fill(f))

def_var_endian_handler(f) == Receive(OfVar \o <<INT("endian")>>, PIOc_def_var_endian(f))

def_var_deflate_handler(f) ==
    Receive(OfVar \o <<INT("shuffle"), INT("deflate"), INT("deflate_level")>>, PIOc_def_var_deflate(f))

set_var_chunk_cache_handler(f) ==
    Receive(OfVar \o <<OFFSET("size"), OFFSET("nelems"), FLOAT("preemption")>>, PIOc_set_var_chunk_cache(f))

\* As inq_varid_handler.
def_dim_handler(f) == Receive(<<INT("ncid")>> \o Name \o <<INT("len")>>, PIOc_def_dim({"id"}))

rename_dim_handler(f) == Receive(<<INT("ncid"), INT("dimid")>> \o Name, PIOc_rename_dim(f))

rename_var_handler(f) == Receive(OfVar \o Name, PIOc_rename_var(f))

rename_att_handler(f) ==
    Receive(OfVar \o Name \o <<INT("newnamelen"), CHAR("newname")>>, PIOc_rename_att(f))

delete_att_handler(f) == Receive(OfVar \o Name, PIOc_del_att(f))

open_file_handler(f) ==
    Receive(FileName \o <<INT("iotype"), INT("mode"), INT("use_ext_ncid")>>, PIOc_openfile_retry(f))

delete_file_handler(f) == Receive(FileName, PIOc_deletefile(f))

initdecomp_dof_handler(f) ==
    Receive(<<INT("iosysid"), INT("pio_type"), INT("ndims"), INT("dims"), INT("maplen"),
              OFFSET("compmap"), Flag("rearranger")>> \o Given("rearranger" \in f, <<INT("other_rearranger")>>)
            \o <<Flag("iostart")>> \o Given("iostart" \in f, <<OFFSET("iostart")>>)
            \o <<Flag("iocount")>> \o Given("iocount" \in f, <<OFFSET("iocount")>>), PIOc_InitDecomp(f))

write_darray_multi_handler(f) ==
    Receive(<<INT("ncid"), INT("nvars"), INT("varids"), INT("ioid"), OFFSET("arraylen"), CHAR("array"),
              Flag("frame")>> \o Given("frame" \in f, <<INT("frame")>>)
            \o <<Flag("fillvalue")>> \o Given("fillvalue" \in f, <<CHAR("fillvalue[]")>>)
            \o <<INT("flushtodisk")>>, PIOc_write_darray_multi(f))

read_darray_handler(f) == Receive(OfVar \o <<INT("ioid"), OFFSET("arraylen")>>, PIOc_read_darray(f))

seterrorhandling_handler(f) ==
    Receive(<<INT("method"), Flag("old_method")>>, PIOc_set_iosystem_error_handling(f))

set_chunk_cache_handler(f) ==
    Receive(<<INT("iosysid"), INT("iotype"), OFFSET("size"), OFFSET("nelems"), FLOAT("preemption")>>,
            PIOc_set_chunk_cache(f))

get_chunk_cache_handler(f) ==
    Receive(<<INT("iosysid"), INT("iotype")>> \o CacheFlags, PIOc_get_chunk_cache(f))

get_var_chunk_cache_handler(f) == Receive(OfVar \o CacheFlags, PIOc_get_var_chunk_cache(f))

freedecomp_handler(f) == Receive(<<INT("iosysid"), INT("ioid")>>, PIOc_freedecomp(f))

finalize_handler(f) == Receive(<<INT("iosysid")>>, PIOc_free_iosystem(f))

set_loglevel_handler(f) == Receive(<<INT("iosysid")>>, PIOc_set_global_log_level(f))

inq_filter_avail_handler(f) == Receive(<<INT("ncid"), INT("id")>>, PIOc_inq_filter_avail(f))

def_var_filter_handler(f) ==
    Receive(OfVar \o <<INT("id"), SIZE_T("nparams"), UNSIGNED("params")>>, PIOc_def_var_filter(f))
=============================================================================
