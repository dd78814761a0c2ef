----------------------------- MODULE MCPioAsync -----------------------------
(* Calls of all kinds for the asynchronous I/O of the parallel I/O library. *)
EXTENDS PioAsync

\* No pointer, each one alone, all of them.
Some(names) == {{}, names} \cup {{n} : n \in names}

\* Every call is offered with its optional pointers NULL and not, except two kinds:
\* NULL ids of PIOc_inq_varid and PIOc_def_dim (NullIdCalls offers them), and
\* PIOc_inq_var_filter_ids and _info without the pointer to the number, which
\* is dereferenced whether it is there or not.  Where a call has three pointers
\* or more: none, each one alone and all of them, or every combination.
FileCalls ==
    {PIOc_inq(p) : p \in PIOc_inq_one \cup {{}, {"ndims", "nvars", "ngatts", "unlimdimid"}}}
    \cup {PIOc_inq_unlimdims(p) : p \in SUBSET {"nunlimdims", "unlimdimids"}}
    \cup {PIOc_inq_type(p) : p \in SUBSET {"name", "size"}}
    \cup {PIOc_inq_format(p) : p \in SUBSET {"format"}}
    \cup {PIOc_inq_dim(p) : p \in SUBSET {"name", "len"}}
    \cup {PIOc_inq_dimid(p) : p \in SUBSET {"id"}}
    \cup {PIOc_inq_varid({"id"}), PIOc_def_dim({"id"})}
    \cup {PIOc_inq_var(p) : p \in PIOc_inq_var_one \cup {{}, UNION PIOc_inq_var_one}}
    \cup {PIOc_inq_att_eh(p) : p \in SUBSET {"xtype", "len", "eh"}}
    \cup {PIOc_inq_attname(p) : p \in SUBSET {"name"}}
    \cup {PIOc_inq_attid(p) : p \in SUBSET {"id"}}
    \cup {PIOc_rename_dim({}), PIOc_rename_var({}), PIOc_rename_att({}), PIOc_del_att({})}
    \cup {PIOc_set_fill(p) : p \in SUBSET {"old_mode"}}
    \cup {pioc_change_def(p) : p \in SUBSET {"enddef"}}
    \cup {PIOc_def_var(p) : p \in SUBSET {"unlim"}}
    \cup {PIOc_def_var_fill(p) : p \in SUBSET {"fill_value"}}
    \cup {PIOc_inq_var_fill(p) : p \in SUBSET {"no_fill", "fill_value"}}
    \cup {PIOc_def_var_deflate({}), PIOc_def_var_zstandard({}), PIOc_def_var_endian({}),
          PIOc_set_var_chunk_cache({}), PIOc_def_var_filter({}), PIOc_inq_filter_avail({}),
          PIOc_def_var_quantize({}), PIOc_set_chunk_cache({}), PIOc_sync({}), PIOc_deletefile({})}
    \cup {PIOc_inq_var_deflate(p) : p \in SUBSET {"shuffle", "deflate", "level"}}
    \cup {PIOc_def_var_chunking(p) : p \in SUBSET {"chunksizes"}}
    \cup {PIOc_inq_var_chunking(p) : p \in SUBSET {"storage", "chunksizes"}}
    \cup {PIOc_inq_var_endian(p) : p \in SUBSET {"endian"}}
    \cup {PIOc_get_chunk_cache(p) : p \in Some({"size", "nelems", "preemption"})}
    \cup {PIOc_get_var_chunk_cache(p) : p \in Some({"size", "nelems", "preemption"})}
    \cup {PIOc_inq_var_filter_ids({"nfilters"}), PIOc_inq_var_filter_ids({"nfilters", "ids"}),
          PIOc_inq_var_filter_info({"nparams"}), PIOc_inq_var_filter_info({"nparams", "params"})}
    \cup {PIOc_inq_var_zstandard(p) : p \in SUBSET {"hasfilter", "level"}}
    \cup {PIOc_inq_var_quantize(p) : p \in SUBSET {"mode", "nsd"}}
    \cup {PIOc_put_att_text(p) : p \in SUBSET {"long"}}
    \cup {PIOc_get_att_text(p) : p \in SUBSET {"long"}} \cup {PIOc_get_att({})}
    \cup {PIOc_get_vars_text({"long"}), PIOc_get_vara_text({}), PIOc_get_var1_text({}),
          PIOc_put_vars_text({"long"}), PIOc_put_vara_text({}), PIOc_put_var1_text({})}
    \cup {PIOc_get_var_text(p) : p \in SUBSET {"scalar"}}
    \cup {PIOc_put_var_text(p) : p \in SUBSET {"scalar"}}
    \cup {PIOc_setframe({}), PIOc_advanceframe({})}
    \cup {PIOc_createfile(p) : p \in {{"ncidp"}}}
    \cup {PIOc_create({"ncidp"}), PIOc_openfile({}), PIOc_openfile2({}), PIOc_open({}), PIOc_closefile({})}

TableCalls ==
    {PIOc_freedecomp({}), PIOc_write_darray_multi({}), PIOc_write_darray_multi({"frame", "fillvalue"}),
     PIOc_read_darray({}), PIOc_get_vard_tc({}), PIOc_set_global_log_level({}), PIOc_free_iosystem({})}
    \cup {PIOc_set_iosystem_error_handling(p) : p \in SUBSET {"old_method"}}
    \cup {PIOc_InitDecomp(p) : p \in {{}, {"rearranger"}, {"iostart", "iocount"},
                                      {"rearranger", "other_rearranger"}}}

AllCalls == FileCalls \cup TableCalls

\* A component's life in short.
FewCalls == {PIOc_create({"ncidp"}), PIOc_free_iosystem({})}

\* A call that makes another one, and calls that the message loop does not know.
InnerCalls == {PIOc_create({"ncidp"}), PIOc_def_var({})}
UnknownCalls == {PIOc_create({"ncidp"}), PIOc_def_var_szip({}), PIOc_def_var_bzip2({}),
                 PIOc_inq_var_bzip2({"hasfilter"})}

\* The id is not asked for: PIOc_inq_varid and PIOc_def_dim allow it ("Ignore NULL
\* parameters"), but their handlers have a pointer all the same: the first I/O task
\* broadcasts an id that no computation task takes, and NothingLeft is violated.
NullIdCalls == {PIOc_create({"ncidp"}), PIOc_inq_varid({}), PIOc_def_dim({})}
=============================================================================
