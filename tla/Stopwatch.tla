------------------------------ MODULE Stopwatch ------------------------------
(***************************************************************************)
(* What the timing library promises the code it measures: every thread has *)
(* one stopwatch for every name, it may be started again while it runs,    *)
(* and its time is the time between the first start and the matching stop. *)
(* Nothing is said of hash tables, pointers, handles, call stacks or how a *)
(* name is put together.                                                   *)
(***************************************************************************)
EXTENDS Integers

CONSTANTS Owners,     \* the threads
          Keys,       \* the full names
          MaxOpen     \* places of the call stack

VARIABLES watch,      \* [Owners -> [Keys -> [runs, since, total, calls]]]
          open,       \* [Owners -> starts not undone, repeated starts left out]
          limit,      \* starts an owner may have open before they are only counted
          off,        \* the library is disabled
          asked,      \* the last call
          time

vars == <<watch, open, limit, off, asked, time>>

Stopped == [runs |-> 0, since |-> 0, total |-> 0, calls |-> 0]

Init == /\ watch = [o \in Owners |-> [k \in Keys |-> Stopped]]
        /\ open = [o \in Owners |-> 0]
        /\ limit \in Nat
        /\ off = FALSE
        /\ asked.op = "none"
        /\ time = 0

Started(w) == IF w.runs = 0 THEN [w EXCEPT !.runs = 1, !.since = time]
              ELSE [w EXCEPT !.runs = @ + 1]

Halted(w) == IF w.runs = 1
             THEN [w EXCEPT !.runs = 0, !.since = 0, !.calls = @ + 1, !.total = @ + time - w.since]
             ELSE [w EXCEPT !.runs = @ - 1, !.calls = @ + 1]

Start(o, k) ==
  LET skip == open[o] >= limit \/ (watch[o][k].runs = 0 /\ open[o] + 1 >= MaxOpen)
  IN  /\ open' = [open EXCEPT ![o] = IF skip \/ watch[o][k].runs = 0 THEN @ + 1 ELSE @]
      /\ watch' = IF skip THEN watch ELSE [watch EXCEPT ![o][k] = Started(@)]

Stop(o, k) ==
  IF open[o] > limit
  THEN open' = [open EXCEPT ![o] = @ - 1] /\ UNCHANGED watch
  ELSE IF watch[o][k].runs = 0 THEN UNCHANGED <<watch, open>>
  ELSE /\ watch' = [watch EXCEPT ![o][k] = Halted(@)]
       /\ open' = [open EXCEPT ![o] = IF watch[o][k].runs = 1 THEN @ - 1 ELSE @]

More(w, dt, calls) == [w EXCEPT !.total = @ + dt, !.calls = @ + calls]

\* A call measured elsewhere; a watch that would be too deep is not made
Add(o, k, dt, calls) ==
  \/ /\ watch' = [watch EXCEPT ![o][k] = More(@, dt, calls)]
     /\ UNCHANGED open
  \/ /\ watch[o][k] = Stopped /\ UNCHANGED watch
     /\ \/ open[o] >= limit /\ UNCHANGED open
        \/ open[o] + 1 >= MaxOpen /\ open' = [open EXCEPT ![o] = @ + 1]

Zero == /\ watch' = [o \in Owners |-> [k \in Keys |-> Stopped]]
        /\ UNCHANGED open

Serve(a) ==
  /\ time' = time + 1 /\ UNCHANGED limit
  /\ off' = CASE a.op = "disable" -> TRUE [] a.op = "enable" -> FALSE [] OTHER -> off
  /\ CASE a.op = "start" /\ ~off -> Start(a.o, a.k)
       [] a.op = "stop" /\ ~off  -> Stop(a.o, a.k)
       [] a.op = "add" /\ ~off   -> Add(a.o, a.k, a.dt, a.calls)
       [] a.op = "reset"         -> Zero
       [] OTHER                  -> UNCHANGED <<watch, open>>

Next == Serve(asked')

Spec == Init /\ [][Next]_vars
=============================================================================
