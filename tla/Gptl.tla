-------------------------------- MODULE Gptl --------------------------------
(***************************************************************************)
(* The General Purpose Timing Library under the t_startf / t_stopf calls   *)
(* of the driver and the components (share/timing/gptl.c): what one MPI    *)
(* process keeps, and what each call makes of it.                          *)
(*                                                                         *)
(* Every OpenMP thread has a list of timers, a hash table on their names   *)
(* and a stack of the running ones; the process has a name prefix, the     *)
(* enabled flag and the depth limit.  A pointer to a timer is its place in *)
(* the thread's list (0 is NULL, 1 is GPTL_ROOT), so a bucket of the hash  *)
(* table is the set of places whose name hashes to it.  A name is a        *)
(* sequence of character codes; time is an integer given to each call.     *)
(* Left out: the formatting of the output, PAPI, the CPU stamps and the    *)
(* self-measurement of overhead, which have no part in the control.        *)
(***************************************************************************)
EXTENDS Integers, Sequences, FiniteSets, FiniteSetsExt, SequencesExt

CONSTANTS MAX_CHARS,    \* longest name kept (127 in private.h)
          MAX_STACK,    \* places of a call stack (128)
          tablesize,    \* buckets of a hash table (2048)
          maxthreads,   \* OpenMP threads of a process
          Names,        \* the names callers pass
          FLT_MAX       \* larger than any time

ASSUME GptlAssumption ==
  /\ {MAX_CHARS, MAX_STACK, tablesize, maxthreads} \subseteq Nat \ {0}
  /\ MAX_STACK >= 2
  /\ FLT_MAX \in Nat

Threads == 0 .. maxthreads - 1
Clip(name) == SubSeq(name, 1, Min({Len(name), MAX_CHARS}))

(***************************************************************************)
(* Names to timers.                                                        *)
(***************************************************************************)
Hash(name) ==
  LET sum[i \in 0 .. Len(name)] ==
        IF i = 0 THEN 0 ELSE sum[i - 1] + i * name[i]
  IN  sum[Len(name)] % tablesize

FirstIn(th, Is(_)) ==
  LET at == {i \in 2 .. Len(th.timers) : Is(th.timers[i].name)}
  IN  IF at = {} THEN 0 ELSE Min(at)

\* strcmp with the stored name
getentry(th, name) ==
  FirstIn(th, LAMBDA held : Hash(held) = Hash(Clip(name)) /\ held = name)

\* (mutant) the first timer of the bucket
getentryf_bucket(th, name) == FirstIn(th, LAMBDA held : Hash(held) = Hash(Clip(name)))

\* strncmp with as many characters as the wanted name has
getentryf(th, name) ==
  FirstIn(th, LAMBDA held : /\ Hash(held) = Hash(Clip(name))
                            /\ IsPrefix(Clip(name), held))

Prefixed(g, t) == g.prefix_nt # <<>> \/ g.th[t].prefix # <<>>

add_prefix(g, t, name) == Clip(g.prefix_nt \o g.th[t].prefix \o name)

\* The name a call looks up
FullName(g, t, name) == IF Prefixed(g, t) THEN add_prefix(g, t, name) ELSE name

(***************************************************************************)
(* GPTLinitialize and the thread numbers.                                  *)
(***************************************************************************)
NewTimer(name) ==
  [name |-> name, onflg |-> FALSE, recurselvl |-> 0, count |-> 0, nrecurse |-> 0,
   parent |-> <<>>, norphan |-> 0, children |-> <<>>,
   last |-> 0, latest |-> 0, accum |-> 0, max |-> 0, min |-> 0,
   prev_min |-> 0, latest_is_min |-> FALSE]

NewThread ==
  [timers    |-> << [NewTimer(<<>>) EXCEPT !.onflg = TRUE] >>,
   stackidx  |-> 0,
   callstack |-> [i \in 0 .. MAX_STACK - 1 |-> IF i = 0 THEN 1 ELSE 0],
   prefix    |-> <<>>,
   handle    |-> [n \in Names |-> 0]]      \* the variables callers keep handles in

GPTLinitialize(depthlimit) ==
  [disabled |-> FALSE, depthlimit |-> depthlimit, prefix_nt |-> <<>>,
   nthreads |-> -1, th |-> [t \in Threads |-> NewThread]]

get_thread_num(g) == [g EXCEPT !.nthreads = maxthreads]

(***************************************************************************)
(* Starting a timer.                                                       *)
(***************************************************************************)
update_ll_hash(th, name) == [th EXCEPT !.timers = Append(@, NewTimer(name))]

update_ptr(th, i, now) ==
  [th EXCEPT !.timers[i].onflg = TRUE, !.timers[i].last = now]

update_parent_info(th, i) ==
  LET up == th.callstack[th.stackidx - 1]
      at == {n \in DOMAIN th.timers[i].parent : th.timers[i].parent[n].of = up}
      on == [th EXCEPT !.callstack[th.stackidx] = i]
  IN  CASE th.stackidx = 0 -> [on EXCEPT !.timers[i].norphan = @ + 1]
        [] th.stackidx > 0 /\ at # {} ->
             [on EXCEPT !.timers[i].parent[Min(at)].calls = @ + 1]
        [] OTHER ->
             [on EXCEPT !.timers[i].parent = Append(@, [of |-> up, calls |-> 1])]

\* The rest of a start once the timer is looked up: place "found", or 0
StartFound(th, found, name, now) ==
  LET known == IF found = 0 THEN update_ll_hash(th, Clip(name)) ELSE th
      i     == IF found = 0 THEN Len(known.timers) ELSE found
      deep  == [known EXCEPT !.stackidx = @ + 1]
  IN  IF found # 0 /\ th.timers[i].onflg THEN [th EXCEPT !.timers[i].recurselvl = @ + 1]
      ELSE IF th.stackidx + 1 > MAX_STACK - 1 THEN [th EXCEPT !.stackidx = @ + 1]
      ELSE update_ptr(update_parent_info(deep, i), i, now)

TooDeep(g, t) == g.th[t].stackidx >= g.depthlimit

GPTLstart(g, t, name, now) ==
  LET full == FullName(g, t, name)
  IN  IF g.disabled THEN g
      ELSE IF TooDeep(g, t) THEN [get_thread_num(g) EXCEPT !.th[t].stackidx = @ + 1]
      ELSE [get_thread_num(g) EXCEPT
              !.th[t] = StartFound(@, getentry(@, full), full, now)]

GPTLstartf(g, t, name, now) ==
  LET full == FullName(g, t, name)
  IN  IF g.disabled THEN g
      ELSE IF TooDeep(g, t) THEN [get_thread_num(g) EXCEPT !.th[t].stackidx = @ + 1]
      ELSE [get_thread_num(g) EXCEPT
              !.th[t] = StartFound(@, getentryf(@, full), full, now)]

\* The handle is set once a timer really started
KeepHandle(before, after, name, i) ==
  IF before.handle[name] = 0 /\ after.stackidx > before.stackidx /\ i # 0
  THEN [after EXCEPT !.handle[name] = i] ELSE after

\* A start with a handle: the handle stands for the lookup, a prefix drops it
StartHandle(g, t, name, now, ByName(_, _), Plain(_, _, _, _)) ==
  LET th    == g.th[t]
      found == IF th.handle[name] # 0 THEN th.handle[name] ELSE ByName(th, name)
      new   == StartFound(th, found, name, now)
      i     == IF found # 0 THEN found
               ELSE IF Len(new.timers) > Len(th.timers) THEN Len(new.timers) ELSE 0
  IN  IF g.disabled THEN g
      ELSE IF TooDeep(g, t) THEN [get_thread_num(g) EXCEPT !.th[t].stackidx = @ + 1]
      ELSE IF Prefixed(g, t) THEN Plain([g EXCEPT !.th[t].handle[name] = 0], t, name, now)
      ELSE [get_thread_num(g) EXCEPT !.th[t] =
              IF new.stackidx > MAX_STACK - 1 THEN new ELSE KeepHandle(th, new, name, i)]

GPTLstart_handle(g, t, name, now) ==
  StartHandle(g, t, name, now, getentry, GPTLstart)

GPTLstartf_handle(g, t, name, now) ==
  StartHandle(g, t, name, now, getentryf, GPTLstartf)

(***************************************************************************)
(* Stopping a timer.                                                       *)
(***************************************************************************)
Timed(tm, delta) ==
  LET first == tm.count = 1
  IN  [tm EXCEPT
         !.accum = @ + delta, !.latest = delta,
         !.max = IF first \/ delta > @ THEN delta ELSE @,
         !.prev_min = IF first THEN FLT_MAX ELSE IF delta < tm.min THEN tm.min ELSE @,
         !.min = IF first \/ delta < @ THEN delta ELSE @,
         !.latest_is_min = first \/ delta < tm.min]

update_stats(th, i, now) ==
  LET left == th.stackidx - 1
      off  == [th EXCEPT !.timers[i].onflg = FALSE, !.stackidx = IF left < -1 THEN -1 ELSE left]
  IN  IF left < -1 THEN off
      ELSE [off EXCEPT !.timers[i] = Timed(@, now - th.timers[i].last)]

\* (mutant) a repeated start is not told from the first one
StopFound_first(th, i, now) ==
  IF i = 0 \/ ~(i # 0 /\ th.timers[i].onflg) THEN th
  ELSE update_stats([th EXCEPT !.timers[i].count = @ + 1], i, now)

\* The rest of a stop once the timer is looked up; a timer that is not
\* there or not running is an error and changes nothing
StopFound(th, i, now) ==
  IF i = 0 \/ ~(i # 0 /\ th.timers[i].onflg) THEN th
  ELSE LET counted == [th EXCEPT !.timers[i].count = @ + 1]
       IN  IF th.timers[i].recurselvl > 0
           THEN [counted EXCEPT !.timers[i].nrecurse = @ + 1,
                                !.timers[i].recurselvl = @ - 1]
           ELSE update_stats(counted, i, now)

WasTooDeep(g, t) == g.th[t].stackidx > g.depthlimit

GPTLstop(g, t, name, now) ==
  IF g.disabled THEN g
  ELSE IF WasTooDeep(g, t) THEN [get_thread_num(g) EXCEPT !.th[t].stackidx = @ - 1]
  ELSE [get_thread_num(g) EXCEPT
          !.th[t] = StopFound(@, getentry(@, FullName(g, t, name)), now)]

GPTLstopf(g, t, name, now) ==
  IF g.disabled THEN g
  ELSE IF WasTooDeep(g, t) THEN [get_thread_num(g) EXCEPT !.th[t].stackidx = @ - 1]
  ELSE [get_thread_num(g) EXCEPT
          !.th[t] = StopFound(@, getentryf(@, FullName(g, t, name)), now)]

StopHandle(g, t, name, now, ByName(_, _), Plain(_, _, _, _)) ==
  LET th  == g.th[t]
      i   == IF th.handle[name] # 0 THEN th.handle[name] ELSE ByName(th, name)
      new == StopFound(th, i, now)
  IN  IF g.disabled THEN g
      ELSE IF Prefixed(g, t) THEN Plain([g EXCEPT !.th[t].handle[name] = 0], t, name, now)
      ELSE IF WasTooDeep(g, t) THEN [get_thread_num(g) EXCEPT !.th[t].stackidx = @ - 1]
      ELSE [get_thread_num(g) EXCEPT !.th[t] =
              IF new.stackidx < th.stackidx /\ th.handle[name] = 0
              THEN [new EXCEPT !.handle[name] = i] ELSE new]

GPTLstop_handle(g, t, name, now) == StopHandle(g, t, name, now, getentry, GPTLstop)
GPTLstopf_handle(g, t, name, now) == StopHandle(g, t, name, now, getentryf, GPTLstopf)

(***************************************************************************)
(* GPTLstartstop_vals: a call and its time measured elsewhere.  add_count  *)
(* is 0 or 1, so that the mean of the added calls is the added time.       *)
(***************************************************************************)
Blank(tm, add_time, add_count) ==
  [tm EXCEPT !.count = add_count, !.max = add_time, !.min = add_time,
             !.prev_min = FLT_MAX, !.latest_is_min = TRUE,
             !.accum = @ - tm.latest, !.latest = 0]

Added(tm, add_time, add_count) ==
  LET latest == IF add_count > 0 /\ tm.count > add_count THEN add_time
                ELSE tm.latest + add_time
      only   == tm.count <= 1 \/ add_count = tm.count
      less   == add_count > 0 /\ latest < tm.min
      undo   == add_count = 0 /\ tm.latest_is_min
  IN  [tm EXCEPT
         !.accum = @ + add_time, !.latest = latest,
         !.max = IF latest > @ THEN latest ELSE @,
         !.prev_min = IF ~only /\ less THEN tm.min ELSE @,
         !.min = IF only \/ less THEN latest
                 ELSE IF undo THEN (IF tm.prev_min > latest THEN latest ELSE tm.prev_min)
                 ELSE @,
         !.latest_is_min = IF only \/ less THEN TRUE
                           ELSE IF undo THEN tm.prev_min > latest
                           ELSE IF add_count > 0 THEN FALSE ELSE @]

\* The same for a timer that was there
AddedCall(tm, now, add_time, add_count) ==
  Added(IF add_count > 0 THEN [tm EXCEPT !.count = @ + add_count, !.last = now] ELSE tm,
        add_time, add_count)

StartstopVals(g, t, name, now, add_time, add_count, Find(_, _), Go(_, _, _, _), Halt(_, _, _, _)) ==
  LET full  == FullName(g, t, name)
      found == Find(g.th[t], full)
      made  == Halt(Go(g, t, name, now), t, name, now)
      i     == Find(made.th[t], full)
  IN  IF g.disabled THEN g
      ELSE IF found # 0
      THEN [get_thread_num(g) EXCEPT !.th[t].timers[found] = AddedCall(@, now, add_time, add_count)]
      ELSE IF i = 0 THEN made
      ELSE [made EXCEPT !.th[t].timers[i] =
              Added(Blank(@, add_time, add_count), add_time, add_count)]

GPTLstartstop_vals(g, t, name, now, add_time, add_count) ==
  StartstopVals(g, t, name, now, add_time, add_count, getentry, GPTLstart, GPTLstop)

GPTLstartstop_valsf(g, t, name, now, add_time, add_count) ==
  StartstopVals(g, t, name, now, add_time, add_count, getentryf, GPTLstartf, GPTLstopf)

(***************************************************************************)
(* Prefixes: of the process in a serial region, of the thread in a         *)
(* parallel one.                                                           *)
(***************************************************************************)
GPTLprefix_set(g, t, serial, prefix) ==
  IF g.disabled THEN g
  ELSE IF serial THEN [g EXCEPT !.prefix_nt = Clip(prefix)]
  ELSE [get_thread_num(g) EXCEPT !.th[t].prefix = Clip(prefix)]

GPTLprefix_unset(g, t, serial) ==
  IF g.disabled THEN g
  ELSE IF serial THEN [g EXCEPT !.prefix_nt = <<>>]
  ELSE [get_thread_num(g) EXCEPT !.th[t].prefix = <<>>]

GPTLenable(g)  == [g EXCEPT !.disabled = FALSE]
GPTLdisable(g) == [g EXCEPT !.disabled = TRUE]

\* Times and counts to zero and the timers off; the stacks, the recursion
\* levels and the parents stay
ResetTimer(tm) ==
  [tm EXCEPT !.onflg = FALSE, !.count = 0, !.last = 0, !.latest = 0, !.accum = 0,
             !.max = 0, !.min = 0, !.prev_min = 0, !.latest_is_min = FALSE]

ResetThread(th) ==
  [th EXCEPT !.timers = [i \in DOMAIN th.timers |-> ResetTimer(th.timers[i])]]

GPTLreset(g) ==
  [g EXCEPT !.th = [t \in Threads |-> IF t >= g.nthreads THEN g.th[t] ELSE ResetThread(g.th[t])]]

\* GPTLquery without a prefix: whether the timer runs, its calls and its time
GPTLquery(g, t, name) ==
  LET i == getentry(g.th[t], name)
  IN  IF i = 0 THEN [onflg |-> FALSE, count |-> 0, wallclock |-> 0]
      ELSE [onflg |-> g.th[t].timers[i].onflg, count |-> g.th[t].timers[i].count,
            wallclock |-> g.th[t].timers[i].accum]

(***************************************************************************)
(* The tree of timers that GPTLpr_file prints.                             *)
(***************************************************************************)
\* the places that can be reached from i by children, i left out
Below(timers, i) ==
  LET step(S) == S \cup UNION {ToSet(timers[j].children) : j \in S}
      reach[n \in 0 .. Len(timers)] ==
        IF n = 0 THEN ToSet(timers[i].children) ELSE step(reach[n - 1])
  IN  reach[Len(timers)]

is_descendant(timers, node1, node2) == node2 \in Below(timers, node1)

\* (mutant) without the test for a loop
newchild_any(timers, parent, child) ==
  IF parent = child \/ child \in ToSet(timers[parent].children) THEN timers
  ELSE [timers EXCEPT ![parent].children = Append(@, child)]

newchild(timers, parent, child) ==
  IF \/ parent = child
     \/ child \in ToSet(timers[parent].children)
     \/ is_descendant(timers, child, parent)
  THEN timers
  ELSE [timers EXCEPT ![parent].children = Append(@, child)]

\* The parents a timer is linked to under the print method
Chosen(tm, method) ==
  LET n == Len(tm.parent)
      most == Max({0} \cup {tm.parent[k].calls : k \in 1 .. n})
  IN  IF n = 0 THEN <<>>
      ELSE CASE method = "first_parent"  -> << tm.parent[1].of >>
             [] method = "last_parent"   -> << tm.parent[n].of >>
             [] method = "most_frequent" ->
                  << tm.parent[Min({k \in 1 .. n : tm.parent[k].calls = most})].of >>
             [] method = "full_tree"     -> [k \in 1 .. n |-> tm.parent[k].of]

construct_tree(timers, method) ==
  FoldLeft(LAMBDA ts, i : FoldLeft(LAMBDA us, p : newchild(us, p, i),
                                   ts, Chosen(timers[i], method)),
           timers, [i \in DOMAIN timers |-> i])

PrintedThread(th, method) == [th EXCEPT !.timers = construct_tree(th.timers, method)]

GPTLpr_file(g, method) ==
  [g EXCEPT !.th = [t \in Threads |->
     IF t >= g.nthreads THEN g.th[t] ELSE PrintedThread(g.th[t], method)]]

(***************************************************************************)
(* The summary of one process: its threads' names and numbers.             *)
(***************************************************************************)
TimerNames(th) == [i \in 1 .. Len(th.timers) - 1 |-> th.timers[i + 1].name]

\* The list of thread 0, then what each other thread adds to it
merge_thread_data(g) ==
  LET add(list, t) == list \o SelectSeq(TimerNames(g.th[t]), LAMBDA n : n \notin ToSet(list))
      others == [i \in 1 .. Max({0, g.nthreads - 1}) |-> i]
  IN  FoldLeft(add, IF g.nthreads > 0 THEN TimerNames(g.th[0]) ELSE <<>>, others)

NoStats(iam) ==
  [onflgs |-> 0, count |-> 0, processes |-> 0, threads |-> 0, walltotal |-> 0,
   wallmax |-> 0, wallmax_p |-> iam, wallmax_t |-> 0,
   wallmin |-> 0, wallmin_p |-> iam, wallmin_t |-> 0]

\* One more thread t in the numbers s
ThreadStats(s, tm, t) ==
  [s EXCEPT
     !.onflgs = IF tm.onflg THEN @ + 1 ELSE @,
     !.threads = IF tm.count > 0 THEN @ + 1 ELSE @,
     !.walltotal = IF tm.count > 0 THEN @ + tm.accum ELSE @,
     !.count = @ + tm.count,
     !.wallmax = IF tm.accum > @ THEN tm.accum ELSE @,
     !.wallmax_t = IF tm.accum > s.wallmax THEN t ELSE @,
     !.wallmin = IF tm.accum < @ \/ @ = 0 THEN tm.accum ELSE @,
     !.wallmin_t = IF tm.accum < s.wallmin \/ s.wallmin = 0 THEN t ELSE @]

get_threadstats(g, iam, name) ==
  LET one(s, t) == LET i == getentry(g.th[t], name)
                   IN  IF i = 0 THEN s ELSE ThreadStats(s, g.th[t].timers[i], t)
      all == FoldLeft(one, NoStats(iam), [k \in 1 .. Max({0, g.nthreads}) |-> k - 1])
  IN  [all EXCEPT !.processes = IF all.count > 0 THEN 1 ELSE 0]

\* The numbers m of this process joined with those of another one
get_summarystats(m, slave) ==
  LET more == slave.wallmax > m.wallmax
      less == slave.wallmin < m.wallmin \/ m.count = 0
  IN  IF slave.count = 0 THEN m
      ELSE [onflgs    |-> m.onflgs + slave.onflgs,
            count     |-> m.count + slave.count,
            processes |-> m.processes + slave.processes,
            threads   |-> m.threads + slave.threads,
            walltotal |-> m.walltotal + slave.walltotal,
            wallmax   |-> IF more THEN slave.wallmax ELSE m.wallmax,
            wallmax_p |-> IF more THEN slave.wallmax_p ELSE m.wallmax_p,
            wallmax_t |-> IF more THEN slave.wallmax_t ELSE m.wallmax_t,
            wallmin   |-> IF less THEN slave.wallmin ELSE m.wallmin,
            wallmin_p |-> IF less THEN slave.wallmin_p ELSE m.wallmin_p,
            wallmin_t |-> IF less THEN slave.wallmin_t ELSE m.wallmin_t]
=============================================================================
