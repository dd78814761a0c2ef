--------------------------- MODULE MCDriverLoop ---------------------------
(***************************************************************************)
(* Namelists for TLC.  Base is a run of two days of four steps: atmosphere, *)
(* land and ice every step, ocean every second one, river and land ice     *)
(* once a day, a year of two days.                                         *)
(***************************************************************************)
EXTENDS DriverLoop

Base ==
    [present |-> {"atm", "lnd", "ice", "ocn", "rof", "glc"},
     prognostic |-> {"atm", "lnd", "ice", "ocn", "rof", "glc"}, rof_heat |-> FALSE,
     dt |-> [c \in Comps |-> CASE c = "ocn" -> 2 [] c \in {"rof", "glc"} -> 4 [] OTHER -> 1],
     offset |-> [c \in Comps |-> 0],
     stop_n |-> 8, stop_date |-> Never, restart_n |-> 4, end_restart |-> FALSE,
     glc_avg |-> "yearly", seq |-> "CESM1_MOD_TIGHT",
     wall_limit |-> FALSE, force_stop_at |-> "day"]

\* Each differs from Base in what it is named for.
EndRestart == [Base EXCEPT !.restart_n = 0, !.end_restart = TRUE, !.wall_limit = TRUE,
                           !.seq = "CESM1_MOD", !.stop_n = 16, !.glc_avg = "glc_coupling_period"]
MonthStop == [EndRestart EXCEPT !.force_stop_at = "month", !.restart_n = 8]
StopDate == [Base EXCEPT !.stop_n = 0, !.stop_date = 12, !.seq = "RASM_OPTION1"]
Offsets == {[Base EXCEPT !.dt["ocn"] = 4, !.dt["rof"] = 2, !.offset["ocn"] = o, !.offset["rof"] = r, !.seq = s, !.restart_n = n] :
    o \in {-2, 1, 4}, r \in {-1, 0}, n \in {2, 4},
    s \in {"CESM1_MOD", "CESM1_MOD_TIGHT", "RASM_OPTION1", "RASM_OPTION2"}}
GlcOffsets == {[Base EXCEPT !.offset["glc"] = g, !.glc_avg = a] :
    g \in {-4, -1, 2}, a \in {"yearly", "glc_coupling_period"}}
FrequentRestarts == [Base EXCEPT !.restart_n = 3, !.stop_n = 12, !.dt["glc"] = 3,
                                 !.present = @ \ {"ocn"}, !.prognostic = @ \ {"ocn"},
                                 !.dt["rof"] = 3, !.seq = "NUOPC_TIGHT",
                                 !.glc_avg = "glc_coupling_period"]

PassNamelists ==
    {Base, EndRestart, MonthStop, StopDate, FrequentRestarts} \union Offsets \union GlcOffsets
RofHeat == {[Base EXCEPT !.rof_heat = TRUE, !.restart_n = 3, !.dt["rof"] = 3, !.present = {"atm", "rof"},
                         !.prognostic = {"atm", "rof"}]}
LimitBeforeStopDate == {[MonthStop EXCEPT !.stop_date = 6]}
=============================================================================
