------------------------------ MODULE ArrayFile ------------------------------
(***************************************************************************)
(* What a writer of distributed arrays relies on.  Each record of each     *)
(* variable is put a number of times; a cell of the file shows the         *)
(* contents of one of these (0: what was there before).  It may lag behind *)
(* what was put, it never falls back, and when the file has been           *)
(* synchronised or closed every cell shows what was put last.              *)
(***************************************************************************)
EXTENDS Integers

VARIABLES
    puts,   \* how many times each record of each variable has been put
    at,     \* which of these each cell <<variable, record, place>> shows
    call    \* the kind of the last call

CellsShow(c) == puts[<<c[1], c[2]>>]

\* Some of what was put comes into the file.
Settle == \A c \in DOMAIN at : at[c] <= at'[c] /\ at'[c] <= CellsShow(c)'

Put ==
    /\ call' = "write"
    /\ \E r \in DOMAIN puts : puts' = [puts EXCEPT ![r] = @ + 1]
    /\ Settle

Synchronise ==
    /\ call' \in {"sync", "close"}
    /\ UNCHANGED puts
    /\ \A c \in DOMAIN at : at'[c] = CellsShow(c)

Other ==
    /\ call' \notin {"write", "sync", "close"}
    /\ UNCHANGED <<puts, at>>

ArrayFileInit ==
    /\ \A r \in DOMAIN puts : puts[r] = 0
    /\ \A c \in DOMAIN at : at[c] = 0
    /\ call = "init"

ArrayFileSpec == ArrayFileInit /\ [][Put \/ Synchronise \/ Other]_<<puts, at, call>>
=============================================================================
