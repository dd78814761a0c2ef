----------------------------- MODULE GptlSummary -----------------------------
(***************************************************************************)
(* The timers of an MPI job.  Every process calls the library of Gptl on   *)
(* its threads and then GPTLpr_summary_file, which gathers all processes'  *)
(* numbers on rank 0 along a binary tree (collect_data of gptl.c): at      *)
(* level "step" the multiples of 2*step are masters, each takes the list   *)
(* of the process "step" above it, and that process is done.               *)
(*                                                                         *)
(* MPI is external: a message is handed over once its receive is posted,   *)
(* and MPI_Send may return at once (buffered) or only then.  A pair of     *)
(* processes talks once in a summary, so a message is told by its ends and *)
(* its tag.  Processes share nothing before the summary, so their calls    *)
(* are taken in the order of the ranks.                                    *)
(***************************************************************************)
EXTENDS Gptl

CONSTANTS Scenarios,   \* [nproc, calls: rank -> calls to make, free: calls of rank 0 of any kind]
          FreeCalls,   \* the calls to choose from when none is prescribed
          PrefixNames,    \* name prefixes, <<>> for none
          DepthLimits, \* values of the depthlimit option
          Method       \* the print method

\* What callers pass
CallRecords ==
  [op : {"start", "stop", "add", "prefix", "enable", "disable", "reset", "pr", "fork", "join"},
   t : Threads, serial : BOOLEAN, name : Names, f : BOOLEAN, h : BOOLEAN,
   dt : Nat, calls : {0, 1}, prefix : PrefixNames]

ASSUME SummaryAssumption ==
  /\ Names \cup PrefixNames \subseteq Seq(Int) /\ <<>> \in PrefixNames
  /\ DepthLimits \subseteq Nat
  /\ Method \in {"first_parent", "last_parent", "most_frequent", "full_tree"}
  /\ FreeCalls \subseteq CallRecords
  /\ \A s \in Scenarios : /\ s.nproc \in Nat \ {0} /\ s.free \in Nat
                          /\ s.calls \in [0 .. s.nproc - 1 -> Seq(CallRecords)]

\* The names a timer may end up with
Keys == {Clip(Clip(p1) \o Clip(p2) \o n) : p1 \in PrefixNames, p2 \in PrefixNames, n \in Names}

\* getentryf compares as many characters as the wanted name has: a name that
\* begins another one must hash to another bucket
ASSUME PrefixesApart ==
  \A k1, k2 \in Keys : k1 # k2 /\ IsPrefix(k1, k2) => Hash(k1) # Hash(k2)

VARIABLES nproc, script, free,       \* the scenario and what is left of it
          g, clock,                  \* per rank: the library's state, the time
          touched,                   \* per rank: counts were reset or added from outside
          parallel,                  \* rank 0 is in an OpenMP parallel region
          call,                      \* the last call of rank 0
          pc, step, list, stats,     \* per rank: collect_data
          net, posted, got           \* messages under way, receives, what arrived

timerVars == <<g, clock, touched, script, free, parallel, call>>
treeVars  == <<pc, step, list, stats, net, posted, got>>
vars == <<nproc, timerVars, treeVars>>

Ranks == 0 .. nproc - 1

Init == \E s \in Scenarios, limit \in DepthLimits :
  /\ nproc = s.nproc
  /\ script = s.calls
  /\ free = s.free
  /\ g = [r \in Ranks |-> GPTLinitialize(limit)]
  /\ clock = [r \in Ranks |-> 0]
  /\ touched = [r \in Ranks |-> FALSE]
  /\ parallel = FALSE
  /\ call = [op |-> "none"]
  /\ pc = [r \in Ranks |-> "timing"]
  /\ step = [r \in Ranks |-> 1]
  /\ list = [r \in Ranks |-> <<>>]
  /\ stats = [r \in Ranks |-> <<>>]
  /\ net = {} /\ posted = {} /\ got = {}

(***************************************************************************)
(* The calls of the program.                                               *)
(***************************************************************************)
\* The next call of rank r: the prescribed one, or any while some are free
Offered(r) == IF script[r] # <<>> THEN {Head(script[r])}
              ELSE IF r = 0 /\ free > 0 THEN FreeCalls ELSE {}

Running(r, t, name) ==
  \E i \in 2 .. Len(g[r].th[t].timers) :
     /\ g[r].th[t].timers[i].name = Clip(FullName(g[r], t, name))
     /\ g[r].th[t].timers[i].onflg

Recursing(r) == \E t \in Threads : \E i \in DOMAIN g[r].th[t].timers :
                  g[r].th[t].timers[i].recurselvl > 0

\* Threads other than 0 run in a parallel region only; what changes the
\* process is called outside of one
InPlace(c) == IF c.op \in {"enable", "disable", "reset", "pr", "fork"} \/ c.serial
              THEN ~parallel ELSE parallel

\* What callers keep to: a C name is no longer than a timer holds, a time is
\* added to a timer that does not run, the timers are reset when none recurses
Legal(r, c) ==
  /\ c.op # "join" => InPlace(c)
  /\ c.op = "join" => parallel
  /\ c.op \in {"start", "stop"} /\ ~c.f => Len(FullName(g[r], c.t, c.name)) <= MAX_CHARS
  /\ c.op \in {"start", "stop"} /\ ~c.f => Len(c.name) <= MAX_CHARS
  /\ c.op = "add" => ~Running(r, c.t, c.name)
  /\ c.op = "add" /\ ~c.f => Len(c.name) <= MAX_CHARS
  /\ c.op = "reset" => ~Recursing(r)

Turn(r) == pc[r] = "timing" /\ \A q \in 0 .. r - 1 : script[q] = <<>>

\* Rank r makes the call c, which leaves its library in state new
Made(r, c, new) ==
  /\ g' = [g EXCEPT ![r] = new]
  /\ clock' = [clock EXCEPT ![r] = @ + 1]
  /\ touched' = [touched EXCEPT ![r] = @ \/ c.op \in {"reset", "add"}]
  /\ script' = [script EXCEPT ![r] = IF @ = <<>> THEN @ ELSE Tail(@)]
  /\ free' = IF script[r] = <<>> THEN free - 1 ELSE free
  /\ call' = IF r # 0 THEN call
             ELSE CASE c.op \in {"start", "stop"} ->
                         [op |-> c.op, o |-> c.t, k |-> Clip(FullName(g[r], c.t, c.name))]
                    [] c.op = "add" ->
                         [op |-> "add", o |-> c.t, k |-> Clip(FullName(g[r], c.t, c.name)),
                          dt |-> c.dt, calls |-> c.calls]
                    [] OTHER -> [op |-> c.op]
  /\ UNCHANGED <<nproc, treeVars>>

Calls(r, op) == {c \in Offered(r) : c.op = op /\ Legal(r, c)}

StartTimer(r) == Turn(r) /\ \E c \in Calls(r, "start") :
  /\ Made(r, c,
       CASE ~c.f /\ ~c.h -> GPTLstart(g[r], c.t, c.name, clock[r])
         [] c.f /\ ~c.h  -> GPTLstartf(g[r], c.t, c.name, clock[r])
         [] ~c.f /\ c.h  -> GPTLstart_handle(g[r], c.t, c.name, clock[r])
         [] c.f /\ c.h   -> GPTLstartf_handle(g[r], c.t, c.name, clock[r]))
  /\ UNCHANGED parallel

StopTimer(r) == Turn(r) /\ \E c \in Calls(r, "stop") :
  /\ Made(r, c,
       CASE ~c.f /\ ~c.h -> GPTLstop(g[r], c.t, c.name, clock[r])
         [] c.f /\ ~c.h  -> GPTLstopf(g[r], c.t, c.name, clock[r])
         [] ~c.f /\ c.h  -> GPTLstop_handle(g[r], c.t, c.name, clock[r])
         [] c.f /\ c.h   -> GPTLstopf_handle(g[r], c.t, c.name, clock[r]))
  /\ UNCHANGED parallel

AddVals(r) == Turn(r) /\ \E c \in Calls(r, "add") :
  /\ Made(r, c, IF c.f THEN GPTLstartstop_valsf(g[r], c.t, c.name, clock[r], c.dt, c.calls)
                ELSE GPTLstartstop_vals(g[r], c.t, c.name, clock[r], c.dt, c.calls))
  /\ UNCHANGED parallel

Prefix(r) == Turn(r) /\ \E c \in Calls(r, "prefix") :
  /\ Made(r, c, IF c.prefix = <<>> THEN GPTLprefix_unset(g[r], c.t, c.serial)
                ELSE GPTLprefix_set(g[r], c.t, c.serial, c.prefix))
  /\ UNCHANGED parallel

Switch(r) == Turn(r) /\ \E c \in Calls(r, "enable") \cup Calls(r, "disable") :
  /\ Made(r, c, IF c.op = "enable" THEN GPTLenable(g[r]) ELSE GPTLdisable(g[r]))
  /\ UNCHANGED parallel

Reset(r) == Turn(r) /\ \E c \in Calls(r, "reset") :
  Made(r, c, GPTLreset(g[r])) /\ UNCHANGED parallel

PrintTimers(r) == Turn(r) /\ \E c \in Calls(r, "pr") :
  Made(r, c, GPTLpr_file(g[r], Method)) /\ UNCHANGED parallel

\* The program enters or leaves a parallel region
Region(r) == Turn(r) /\ \E c \in Calls(r, "fork") \cup Calls(r, "join") :
  Made(r, c, g[r]) /\ parallel' = (c.op = "fork")

(***************************************************************************)
(* collect_data.                                                           *)
(***************************************************************************)
Msg(src, dst, tag, body) == [src |-> src, dst |-> dst, tag |-> tag, body |-> body]
Recv(dst, src, tag) == [src |-> src, dst |-> dst, tag |-> tag]
EndsOf(m) == [src |-> m.src, dst |-> m.dst, tag |-> m.tag]

Goto(r, to) == pc' = [pc EXCEPT ![r] = to]

\* What r received from src
Arrived(r, src, tag) == {m \in got : EndsOf(m) = Recv(r, src, tag)}

\* GPTLpr_summary_file up to the loop of collect_data, in a serial region
BeginSummary(r) ==
  /\ pc[r] = "timing" /\ \A q \in Ranks : script[q] = <<>>
  /\ LET names == merge_thread_data(g[r])
     IN  /\ list' = [list EXCEPT ![r] = names]
         /\ stats' = [stats EXCEPT ![r] =
                        [k \in DOMAIN names |-> get_threadstats(g[r], r, names[k])]]
  /\ Goto(r, "level") /\ parallel' = FALSE
  /\ UNCHANGED <<nproc, g, clock, touched, script, free, call, step, net, posted, got>>

Master(r) == r % (2 * step[r]) = 0
Above(r)  == r + step[r]
Below1(r) == r - step[r]

NextLevel(r) == step' = [step EXCEPT ![r] = 2 * @]

\* Irecv of the count and the signal to the slave; a master with nobody
\* above it goes up a level
AskCount(r) ==
  /\ pc[r] = "level" /\ step[r] < nproc /\ Master(r)
  /\ IF Above(r) < nproc
     THEN /\ posted' = posted \cup {Recv(r, Above(r), "a")}
          /\ net' = net \cup {Msg(r, Above(r), "a", <<>>)}
          /\ Goto(r, "asked") /\ UNCHANGED step
     ELSE NextLevel(r) /\ UNCHANGED <<posted, net, pc>>
  /\ UNCHANGED <<nproc, timerVars, list, stats, got>>

\* (mutant) no receive for the numbers
TakeCount_names(r) ==
  /\ pc[r] = "count"
  /\ \E m \in Arrived(r, Above(r), "a") :
       IF m.body = 0
       THEN NextLevel(r) /\ Goto(r, "level") /\ UNCHANGED <<posted, net>>
       ELSE /\ posted' = posted \cup {Recv(r, Above(r), "b")}
            /\ net' = net \cup {Msg(r, Above(r), "b", <<>>)}
            /\ Goto(r, "askedall") /\ UNCHANGED step
  /\ UNCHANGED <<nproc, timerVars, list, stats, got>>

\* Wait for the count; an empty slave has nothing to add
TakeCount(r) ==
  /\ pc[r] = "count"
  /\ \E m \in Arrived(r, Above(r), "a") :
       IF m.body = 0
       THEN NextLevel(r) /\ Goto(r, "level") /\ UNCHANGED <<posted, net>>
       ELSE /\ posted' = posted \cup {Recv(r, Above(r), "b"), Recv(r, Above(r), "c")}
            /\ net' = net \cup {Msg(r, Above(r), "b", <<>>)}
            /\ Goto(r, "askedall") /\ UNCHANGED step
  /\ UNCHANGED <<nproc, timerVars, list, stats, got>>

\* Where a name of the slave is in the list of the master
get_index(names, n) == IF n \in ToSet(names)
                       THEN Min({k \in DOMAIN names : names[k] = n}) ELSE 0

\* (mutant) matching by place instead of by name
Joined_by_place(names, mine, theirNames, theirs) ==
  [k \in DOMAIN names |->
     IF k > Len(mine) THEN theirs[get_index(theirNames, names[k])]
     ELSE IF k > Len(theirs) THEN mine[k] ELSE get_summarystats(mine[k], theirs[k])]

Joined(names, mine, theirNames, theirs) ==
  [k \in DOMAIN names |->
     LET at == get_index(theirNames, names[k])
     IN  IF k > Len(mine) THEN theirs[at]
         ELSE IF at = 0 THEN mine[k] ELSE get_summarystats(mine[k], theirs[at])]

\* Wait for names and numbers, and join them with the own ones
MergeSlave(r) ==
  /\ pc[r] = "all"
  /\ \E b \in Arrived(r, Above(r), "b"), c \in Arrived(r, Above(r), "c") :
       LET names == list[r] \o SelectSeq(b.body, LAMBDA n : n \notin ToSet(list[r]))
       IN  /\ list' = [list EXCEPT ![r] = names]
           /\ stats' = [stats EXCEPT ![r] = Joined(names, stats[r], b.body, c.body)]
  /\ NextLevel(r) /\ Goto(r, "level")
  /\ UNCHANGED <<nproc, timerVars, net, posted, got>>

\* Not a master: wait for the signal
Attend(r) ==
  /\ pc[r] = "level" /\ step[r] < nproc /\ ~Master(r)
  /\ posted' = posted \cup {Recv(r, Below1(r), "a")}
  /\ Goto(r, "called")
  /\ UNCHANGED <<nproc, timerVars, step, list, stats, net, got>>

SendCount(r) ==
  /\ pc[r] = "called" /\ Arrived(r, Below1(r), "a") # {}
  /\ net' = net \cup {Msg(r, Below1(r), "a", Len(list[r]))}
  /\ Goto(r, "sentcount")
  /\ UNCHANGED <<nproc, timerVars, step, list, stats, posted, got>>

\* "if ( count != 0)" compares the address of the count: it always holds
AwaitSignal(r) ==
  /\ pc[r] = "signal"
  /\ posted' = posted \cup {Recv(r, Below1(r), "b")}
  /\ Goto(r, "calledall")
  /\ UNCHANGED <<nproc, timerVars, step, list, stats, net, got>>

SendNames(r) ==
  /\ pc[r] = "calledall" /\ Arrived(r, Below1(r), "b") # {}
  /\ net' = net \cup {Msg(r, Below1(r), "b", list[r])}
  /\ Goto(r, "sentnames")
  /\ UNCHANGED <<nproc, timerVars, step, list, stats, posted, got>>

SendStats(r) ==
  /\ pc[r] = "names"
  /\ net' = net \cup {Msg(r, Below1(r), "c", stats[r])}
  /\ Goto(r, "sentstats")
  /\ UNCHANGED <<nproc, timerVars, step, list, stats, posted, got>>

Finish(r) ==
  /\ pc[r] = "level" /\ step[r] >= nproc
  /\ Goto(r, "done")
  /\ UNCHANGED <<nproc, timerVars, step, list, stats, net, posted, got>>

\* MPI_Send returns
AfterSend == [asked |-> "count", askedall |-> "all", sentcount |-> "signal",
              sentnames |-> "names", sentstats |-> "done"]

Sending(r) == IF pc[r] = "asked" THEN Recv(Above(r), r, "a")
              ELSE IF pc[r] = "askedall" THEN Recv(Above(r), r, "b")
              ELSE Recv(Below1(r), r, CASE pc[r] = "sentcount" -> "a"
                                        [] pc[r] = "sentnames" -> "b"
                                        [] pc[r] = "sentstats" -> "c")

SendReturns(r) ==
  /\ pc[r] \in DOMAIN AfterSend
  /\ Goto(r, AfterSend[pc[r]])
  /\ UNCHANGED <<nproc, timerVars, step, list, stats, net, posted, got>>

Taken(r) == pc[r] \in DOMAIN AfterSend => \A m \in net : EndsOf(m) # Sending(r)

Deliver == \E m \in net :
  /\ EndsOf(m) \in posted
  /\ net' = net \ {m}
  /\ posted' = posted \ {EndsOf(m)}
  /\ got' = got \cup {m}
  /\ UNCHANGED <<nproc, timerVars, pc, step, list, stats>>

TimerCall(r) == \/ StartTimer(r) \/ StopTimer(r) \/ AddVals(r) \/ Prefix(r)
                \/ Switch(r) \/ Reset(r) \/ PrintTimers(r) \/ Region(r)

Collect(r) == \/ BeginSummary(r) \/ AskCount(r) \/ TakeCount(r) \/ MergeSlave(r)
              \/ Attend(r) \/ SendCount(r) \/ AwaitSignal(r) \/ SendNames(r)
              \/ SendStats(r) \/ Finish(r)

Done == (\A r \in Ranks : pc[r] = "done") /\ UNCHANGED vars

Next == \/ \E r \in Ranks : TimerCall(r) \/ Collect(r) \/ SendReturns(r)
        \/ Deliver
        \/ Done

\* The job goes on as long as one of its processes can, and MPI hands over
\* what is awaited; that a send returns is certain only once it is received.
\* This is weak fairness of the whole job, with what enables a step written
\* out: no call is made twice, so that nothing can be put off for ever by the
\* steps of the others.
CanGoOn(r) ==
  CASE pc[r] = "timing"    -> \/ Turn(r) /\ script[r] # <<>>
                              \/ \A q \in Ranks : script[q] = <<>>
    [] pc[r] = "level"     -> TRUE
    [] pc[r] = "count"     -> Arrived(r, Above(r), "a") # {}
    [] pc[r] = "all"       -> Arrived(r, Above(r), "b") # {} /\ Arrived(r, Above(r), "c") # {}
    [] pc[r] = "called"    -> Arrived(r, Below1(r), "a") # {}
    [] pc[r] = "calledall" -> Arrived(r, Below1(r), "b") # {}
    [] pc[r] \in {"signal", "names"} -> TRUE
    [] pc[r] = "done"      -> FALSE
    [] OTHER               -> Taken(r)

CanProgress == (\E m \in net : EndsOf(m) \in posted) \/ (\E r \in Ranks : CanGoOn(r))

Fairness == []<><<TRUE>>_vars \/ <>[]~CanProgress

Spec == Init /\ [][Next]_vars /\ Fairness

(***************************************************************************)
(* Properties.                                                             *)
(***************************************************************************)
AllThreads == {<<r, t>> : r \in Ranks, t \in Threads}

\* The calls that the parents of a timer account for
Called(parent) == FoldLeft(LAMBDA n, p1 : n + p1.calls, 0, parent)

\* The stack of a thread is never lower than the number of its running
\* timers, so that update_stats never finds "tree depth has become negative"
\* and no timer is started as an orphan; and the parents of a timer account
\* for each of its calls that did not recurse (unless the counts were reset
\* or added from outside).
StackCovers ==
  \A p \in AllThreads :
    LET th == g[p[1]].th[p[2]]
        on == {i \in 2 .. Len(th.timers) : th.timers[i].onflg}
    IN  /\ th.stackidx >= Cardinality(on)
        /\ \A i \in 2 .. Len(th.timers) :
             LET tm == th.timers[i]
                 called == Called(tm.parent)
             IN  /\ tm.norphan = 0
                 /\ called >= 1
                 /\ tm.recurselvl > 0 => tm.onflg
                 /\ ~touched[p[1]] =>
                      called = tm.count - tm.nrecurse + (IF tm.onflg THEN 1 ELSE 0)

\* However the timers nest from one print to the next, the tree printed by
\* GPTLpr_file has no loop: get_max_depth and printself_andchildren end.
TreeHasNoLoops ==
  \A p \in AllThreads :
    LET timers == g[p[1]].th[p[2]].timers
    IN  \A i \in DOMAIN timers : ~is_descendant(timers, i, i)

\* What rank 0 prints is the sum over all threads of all processes: every
\* name once, its calls, its time, its longest and shortest time and who had
\* them.  Said of names whose timers were all called, and for the shortest
\* time of those that all have a time.
SummaryTotals ==
  pc[0] = "done" =>
    LET held == UNION {{<<p, g[p[1]].th[p[2]].timers[i]>> :
                          i \in 2 .. Len(g[p[1]].th[p[2]].timers)} : p \in AllThreads}
        names == {h[2].name : h \in held}
    IN  /\ ToSet(list[0]) = names /\ Len(list[0]) = Cardinality(names)
        /\ \A k \in DOMAIN list[0] :
             LET mine  == {h \in held : h[2].name = list[0][k]}
                 times == {h[2].accum : h \in mine}
                 s     == stats[0][k]
             IN  (\A h \in mine : h[2].count > 0) =>
                   /\ s.count = MapThenSumSet(LAMBDA h : h[2].count, mine)
                   /\ s.walltotal = MapThenSumSet(LAMBDA h : h[2].accum, mine)
                   /\ s.processes = Cardinality({h[1][1] : h \in mine})
                   /\ s.threads = Cardinality(mine)
                   /\ (s.onflgs > 0) = (\E h \in mine : h[2].onflg)
                   /\ s.wallmax = Max(times)
                   /\ s.wallmax > 0 =>
                        \E h \in mine : h[1] = <<s.wallmax_p, s.wallmax_t>> /\ h[2].accum = s.wallmax
                   /\ 0 \notin times =>
                        /\ s.wallmin = Min(times)
                        /\ \E h \in mine : /\ h[1] = <<s.wallmin_p, s.wallmin_t>>
                                           /\ h[2].accum = s.wallmin

\* Every process that enters the summary leaves it.
SummaryEnds == <>(\A r \in Ranks : pc[r] = "done")

(***************************************************************************)
(* The library of rank 0 implements independent stopwatches.               *)
(***************************************************************************)

\* What the thread th shows of the name k
Reading(th, k) ==
  LET at == FirstIn(th, LAMBDA held : held = k)
      tm == th.timers[at]
  IN  IF at = 0 THEN [runs |-> 0, since |-> 0, total |-> 0, calls |-> 0]
      ELSE [runs  |-> IF tm.onflg THEN 1 + tm.recurselvl ELSE 0,
            since |-> IF tm.onflg THEN tm.last ELSE 0,
            total |-> tm.accum, calls |-> tm.count]

Readings == [t \in Threads |-> [k \in Keys |-> Reading(g[0].th[t], k)]]
Open == [t \in Threads |-> g[0].th[t].stackidx]

Watches == INSTANCE Stopwatch WITH
  Owners <- Threads, MaxOpen <- MAX_STACK, limit <- g[0].depthlimit,
  watch <- Readings, open <- Open,
  off <- g[0].disabled, asked <- call, time <- clock[0]

\* Every call of rank 0 does to the timers what it promises: the hash table
\* and the handles find the timer of the full name and no other, and what is
\* timed is what lies between the outermost start and its stop.
KeepsTime == Watches!Spec
=============================================================================
