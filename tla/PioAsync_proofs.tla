-------------------------- MODULE PioAsync_proofs ---------------------------
(***************************************************************************)
(* Asynchronous PIO stays in step, for every number of components, of      *)
(* tasks and of calls: InStep, NothingLeft, SameAnswer and TablesAgree.    *)
(*                                                                         *)
(* The inductive invariant is Logged: there is a log for every component   *)
(* and one for the message loop, every task is at a place of each log it   *)
(* takes part in, and every path holds what was broadcast after the place  *)
(* of its reader (Explained, in PioAsyncLog_proofs). InStep alone says     *)
(* nothing of what will be received later, so that no step keeps it. Here  *)
(* the steps that leave a task where it is in the log, the message loop,   *)
(* calls that begin and messages that come to the I/O tasks are shown to   *)
(* keep Logged, then all steps, and the four theorems.                     *)
(***************************************************************************)
EXTENDS PioAsyncLog_proofs

-----------------------------------------------------------------------------
(***************************************************************************)
(* Steps that leave the task where it is in the log.                       *)
(***************************************************************************)
LEMMA Staying ==
    ASSUME NEW V, NEW N, NEW p, NEW G, NEW M, NEW g, Explained(V, N, p, G, M, g), Shaped',
           NEW c \in Component, NEW t \in Members(c), NEW v, V[c][p[c][t]] = v, Others(t), Apart(c, t, V, N, p)',
           chan' = chan, pending' = pending, next_id' = next_id,
           \A b : Arrived(t, c, v, v, b), Stays(t, G[g[t]].rem)
    PROVE  \E V2, N2, p2 : Explained(V2, N2, p2, G, M, g)'
<1> DEFINE j == p[c][t]
           W == V[c]
<1>1. j \in 1..N[c] /\ Numbers(V, N, p)
  BY DEF Explained, Follows, TasksAt
<1>2. Taken(c, t, "none")
  BY NoneMoved
<1>3. Numbers(Put(V, c, W), Put(N, c, N[c]), Put(p, c, To(c, p[c], t, j)))'
  <2>1. /\ W[N[c]].all = V[c][N[c]].all /\ (\A o \in Members(c) \ {t} : W[p[c][o]] = V[c][p[c][o]])
        /\ t = ioroot => W[j].all = V[c][p[c][t]].all
    OBVIOUS
  <2>2. Numbers(V, N, p) /\ next_id'[ioroot] = next_id[ioroot]
    BY <1>1
  <2> HIDE DEF W, j
  <2> QED BY <2>1, <2>2, NumbersStay
<1>4. \A k \in Kinds : t \in Readers(c, k) => V[c][j].n[k] = V[c][p[c][t]].n[k] + (IF k = "none" THEN 1 ELSE 0)
  <2>1. \A k \in Kinds : V[c][j].n[k] \in Nat
    BY <1>1, LogAt DEF Explained, Follows
  <2> QED BY <2>1 DEF Kinds
<1>5. /\ (\A o \in CompTask(c) \ {t} : pending'[o] = pending[o])
      /\ Arrived(t, c, V[c][p[c][t]], V[c][j], V[c][N[c]].n["begin"]) /\ "none" \notin Kinds
  BY DEF Kinds
<1> HIDE DEF j
<1> QED BY <1>1, <1>2, <1>3, <1>4, <1>5, GoOld DEF W

LEMMA PassOverGoes ==
    ASSUME CallsAgree, NEW V, NEW N, NEW p, NEW G, NEW M, NEW g, Explained(V, N, p, G, M, g),
           NEW t \in Task, PassOver(t)
    PROVE  \E V2, N2, p2 : Explained(V2, N2, p2, G, M, g)'
<1>0. SUFFICES ASSUME NEW c, CompOf(t) = c, NEW v, V[c][p[c][t]] = v
               PROVE  \E V2, N2, p2 : Explained(V2, N2, p2, G, M, g)'
  OBVIOUS
<1>1. /\ todo[t] # <<>> /\ Step(t).do = "message" /\ t # comproot(t[1]) /\ Shaped
      /\ UNCHANGED <<chan, pending, cur, ierr, tables, next_id, eh, loop, open, made>>
  BY DEF PassOver, At, Busy, Explained
<1>2. PICK n \in DOMAIN todo[t] :
             /\ todo[t][n].do \notin {"message", "arg"}
             /\ \A i \in 1..(n - 1) : todo[t][i].do \in {"message", "arg"}
             /\ todo' = [todo EXCEPT ![t] = SubSeq(todo[t], n, Len(todo[t]))]
  BY DEF PassOver
<1>3. /\ c \in Component /\ t \in Members(c) /\ OK(c, v)
      /\ (t \notin IOTask => t[1] = c /\ t \in CompTask(c) /\ CompAt(t, c, v))
      /\ View(t, c, v) \/ Ahead1(t, c, v)
  BY <1>0, <1>1, Acting
<1>4. View(t, c, v)
  BY <1>1, <1>3, AheadAt
<1>5. t \notin IOTask
  BY <1>1, <1>3, <1>4, NotIO
<1>6. /\ todo[t] = v.a /\ Sq(v.a) /\ v.a # <<>> /\ v.a[1].do = "message" /\ ierr[t] = v.ierr
      /\ v.ph = "in" /\ t # comproot(c)
  BY <1>1, <1>3, <1>4, <1>5, ViewStep DEF View, Left
<1>7. PastArgs(SubSeq(v.a, n, Len(v.a)), v.a)
  <2>1. DOMAIN v.a = 1..Len(v.a) /\ Len(v.a) \in Nat
    BY <1>6, SqDomain
  <2>2. n \in 1..Len(v.a) /\ n # 1
    BY <1>2, <1>6, <2>1
  <2> DEFINE d == n - 1
  <2>3. d \in 1..(Len(v.a) - 1) /\ d + 1 = n
    BY <2>1, <2>2
  <2> HIDE DEF d
  <2>4. \A i \in 1..d : v.a[i].do \in {"message", "arg"}
    BY <1>2, <1>6 DEF d
  <2> QED BY <1>2, <1>6, <2>3, <2>4 DEF PastArgs
<1>8. Shaped' /\ Others(t) /\ todo'[t] = SubSeq(todo[t], n, Len(todo[t]))
  <2>1. ierr' = [ierr EXCEPT ![t] = ierr[t]]
    BY <1>1, SameCode
  <2>2. /\ Shaped /\ todo' = [todo EXCEPT ![t] = SubSeq(todo[t], n, Len(todo[t]))]
        /\ UNCHANGED <<chan, pending, cur, tables, next_id, eh, loop, open, made>>
    BY <1>1, <1>2
  <2> QED BY <2>1, <2>2, OnlyCode
<1>9. CompAt(t, c, v)'
  <2>1. PastArgs(todo'[t], v.a)
    BY <1>6, <1>7, <1>8
  <2>2. Tokens(t, v)'
    BY <1>1, <1>3, <1>5 DEF CompAt, Tokens
  <2> QED BY <1>1, <1>3, <1>5, <1>6, <2>1, <2>2 DEF CompAt, At1, PastArgs
<1>10. \A b : Arrived(t, c, v, v, b)
  BY <1>5, <1>9 DEF Arrived
<1>11. Stays(t, G[g[t]].rem) /\ Apart(c, t, V, N, p)'
  BY <1>5 DEF Stays, Apart
<1>12. c \in Component /\ t \in Members(c) /\ chan' = chan /\ pending' = pending /\ next_id' = next_id
  BY <1>1, <1>3
<1> QED BY <1>0, <1>8, <1>10, <1>11, <1>12, Staying

-----------------------------------------------------------------------------
(***************************************************************************)
(* The message loop.                                                       *)
(***************************************************************************)
LEMMA ServingAt ==
    ASSUME NEW V, NEW N, NEW p, NEW G, NEW M, NEW g, Explained(V, N, p, G, M, g), NEW t \in IOTask,
           loop[t].at \in {"handler", "call"}, NEW c, loop[t].c = c, NEW v, V[c][p[c][t]] = v
    PROVE  /\ c \in Component /\ t \in Members(c) /\ t \in Task /\ p[c][t] \in 1..N[c] /\ OK(c, v) /\ LogOK(c, V[c], N[c])
           /\ Follows(c, V[c], N[c], p[c]) /\ LoopAt(t, loop[t], G[g[t]].rem) /\ Shaped
           /\ Serves(t, c) /\ IOAt(t, c, v, V[c][N[c]].n["begin"])
           /\ \A d \in Component : IOAt(t, d, V[d][p[d][t]], V[d][N[d]].n["begin"])
<1>1. LoopAt(t, loop[t], G[g[t]].rem) /\ Shaped
  BY DEF Explained, LoopsAt
<1>2. c \in Component
  BY <1>1 DEF LoopAt
<1>3. t \in Members(c) /\ t \in Task
  BY DEF Members, Task
<1>4. Follows(c, V[c], N[c], p[c]) /\ p[c][t] \in 1..N[c] /\ LogOK(c, V[c], N[c])
  BY <1>2, <1>3 DEF Explained, Follows, TasksAt
<1>5. OK(c, v)
  BY <1>4 DEF LogOK
<1>6. \A d \in Component : IOAt(t, d, V[d][p[d][t]], V[d][N[d]].n["begin"])
  BY DEF Explained, Follows, TasksAt
<1> QED BY <1>1, <1>2, <1>3, <1>4, <1>5, <1>6 DEF Serves

LEMMA ArgCount ==
    ASSUME NEW c, NEW v, NEW w, OK(c, v), VStep(c, v, w), w.kind = "arg"
    PROVE  w.n["arg"] = v.n["arg"] + 1
BY StepCounts DEF Kinds

\* An argument that has come is the one the handler waits for.
LEMMA ArgDue ==
    ASSUME NEW V, NEW N, NEW p, NEW G, NEW M, NEW g, Explained(V, N, p, G, M, g), NEW t \in IOTask,
           loop[t].at = "handler", chan[InterLink(t)] # <<>>, loop[t].got < Len(Expected(t)),
           NEW c, loop[t].c = c, NEW v, V[c][p[c][t]] = v
    PROVE  /\ v.a # <<>> /\ v.a[1].do = "arg" /\ v.ph = "args"
           /\ loop[t].msg = v.msg /\ loop[t].f = v.f /\ loop[t].got = v.got /\ cur[t] = v.io
           /\ Expected(t)[loop[t].got + 1] = v.a[1].x
           /\ p[c][t] + 1 \in 1..N[c]
           /\ LET w == V[c][p[c][t] + 1]
              IN  ArgStep(v, w) /\ VStep(c, v, w) /\ w.kind = "arg" /\ w.item = Head(chan[InterLink(t)])
<1> DEFINE i == p[c][t]
           w == V[c][i + 1]
           s == chan[InterLink(t)]
<1>1. /\ c \in Component /\ t \in Members(c) /\ i \in 1..N[c] /\ OK(c, v) /\ LogOK(c, V[c], N[c])
      /\ Follows(c, V[c], N[c], p[c]) /\ Serves(t, c) /\ IOAt(t, c, v, V[c][N[c]].n["begin"])
  BY ServingAt
<1>2. loop[t].msg = v.msg /\ loop[t].f = v.f /\ loop[t].got = v.got /\ cur[t] = v.io /\ v.ph # "in"
  BY <1>1 DEF IOAt
<1>l. LogOK(c, V[c], N[c])
  BY <1>1
<1>3. Len(Handler(v.msg, v.f)["recv"]) # v.got
  <2>1. Expected(t) = Handler(v.msg, v.f)["recv"]
    BY <1>2 DEF Expected
  <2>2. v.got \in Nat
    BY <1>1, <1>2 DEF OK, Phase, Shape
  <2>3. v.got < Len(Handler(v.msg, v.f)["recv"])
    BY <1>2, <2>1
  <2> QED BY <2>2, <2>3
<1>4. v.ph = "args"
  BY <1>1, <1>2, <1>3 DEF OK, Phase, Shape
<1>5. v.a # <<>> /\ v.a[1].do = "arg" /\ v.got \in Nat /\ Understood(v.a, v.msg, v.f, v.got) /\ Sq(v.a)
  BY <1>1, <1>4 DEF OK, Phase, Shape
<1>6. Handler(v.msg, v.f)["recv"][v.got + 1] = v.a[1].x
  <2> DEFINE a == v.a
             msg == v.msg
             f == v.f
             got == v.got
  <2>1. Sq(a) /\ got \in Nat /\ Understood(a, msg, f, got) /\ a[1].do = "arg"
    BY <1>5
  <2> HIDE DEF a, msg, f, got
  <2>2. Handler(msg, f)["recv"][got + 1] = a[1].x
    BY <2>1, Arrives
  <2> QED BY <2>2 DEF a, msg, f, got
<1>7. Box(t, c, "arg") = s
  BY BoxIs DEF InterLink
<1>8. Holds(s, V[c], N[c], v.n["arg"], "arg") /\ v.n["arg"] \in Nat
  <2>1. "arg" \in Kinds /\ t \in Readers(c, "arg")
    BY <1>1 DEF Kinds, Readers
  <2>2. Holds(Box(t, c, "arg"), V[c], N[c], v.n["arg"], "arg")
    BY <1>1, <2>1 DEF Follows, Boxes
  <2> QED BY <1>1, <1>7, <2>1, <2>2, LogAt
<1> HIDE DEF s, i
<1>9. i # N[c]
  <2>1. v.n["arg"] # V[c][N[c]].n["arg"]
    <3>1. s # <<>>
      BY DEF s
    <3> DEFINE m == v.n["arg"]
               k == "arg"
    <3>2. k \in Kinds /\ m \in Nat /\ Holds(s, V[c], N[c], m, k)
      BY <1>8 DEF Kinds
    <3> HIDE DEF m, k
    <3>3. m # V[c][N[c]].n[k]
      BY <1>l, <3>1, <3>2, HoldsLen
    <3> QED BY <3>3 DEF m, k
  <2> QED BY <2>1 DEF i
<1>10. i + 1 \in 1..N[c] /\ VStep(c, v, w)
  <2>1. i # N[c] => i + 1 \in 1..N[c] /\ VStep(c, V[c][i], V[c][i + 1])
    BY <1>1, LogAt
  <2> QED BY <1>9, <2>1 DEF i
<1>11. ArgStep(v, w) /\ w.kind = "arg"
  BY <1>1, <1>5, <1>10, StepIs, KindIs
<1>12. w.item = Head(s)
  <2>1. w.n["arg"] = v.n["arg"] + 1
    <3>1. OK(c, v) /\ VStep(c, v, w)
      BY <1>1, <1>10
    <3>3. w.kind = "arg" /\ "arg" \in Kinds
      BY <1>11 DEF Kinds
    <3> HIDE DEF w
    <3> QED BY <3>1, <3>3, ArgCount
  <2> DEFINE j == i + 1
             m == v.n["arg"]
             k == "arg"
  <2>2. /\ j \in 1..N[c] /\ V[c][j].kind = k /\ V[c][j].n[k] = m + 1 /\ m \in Nat /\ Holds(s, V[c], N[c], m, k)
        /\ k \in Kinds
    BY <1>8, <1>10, <1>11, <2>1 DEF Kinds
  <2> HIDE DEF j, m, k
  <2>3. Head(s) = V[c][j].item
    BY <1>l, <2>2, HoldsTaken
  <2> QED BY <2>3 DEF j
<1> QED BY <1>2, <1>4, <1>5, <1>6, <1>10, <1>11, <1>12 DEF i, s, Expected

\* A step of the loop that leaves tables and the like alone.
LEMMA ApartLoop ==
    ASSUME NEW t \in IOTask, NEW c, loop[t].c = c, loop'[t].c = c, UNCHANGED <<tables, made, eh, open>>,
           NEW V, NEW N, NEW p, \A d \in Component : IOAt(t, d, V[d][p[d][t]], V[d][N[d]].n["begin"])
    PROVE  Apart(c, t, V, N, p)'
<1> SUFFICES ASSUME NEW d \in Component \ {c} PROVE IOAt(t, d, V[d][p[d][t]], V[d][N[d]].n["begin"])'
  BY DEF Apart
<1> DEFINE v == V[d][p[d][t]]
           b == V[d][N[d]].n["begin"]
<1>1. IOAt(t, d, v, b)
  OBVIOUS
<1>2. ~Serves(t, d) /\ ~Serves(t, d)' /\ loop'[t].c # d /\ loop[t].c # d
  BY DEF Serves
<1> HIDE DEF v, b
<1>3. IOAt(t, d, v, b)'
  BY <1>1, <1>2 DEF IOAt
<1> QED BY <1>3 DEF v, b

\* What a step of t in the loop changes.
LEMMA OnlyLoops ==
    ASSUME Shaped, NEW t \in IOTask, NEW l, loop' = [loop EXCEPT ![t] = l],
           chan' = [x \in Links |-> chan'[x]],
           NEW s, todo' = [todo EXCEPT ![t] = s], NEW e, ierr' = [ierr EXCEPT ![t] = e],
           NEW a, cur' = [cur EXCEPT ![t] = a],
           UNCHANGED <<pending, tables, next_id, eh, open, made>>
    PROVE  Shaped' /\ Others(t) /\ loop'[t] = l /\ todo'[t] = s /\ ierr'[t] = e /\ cur'[t] = a
<1>1. /\ todo = [x \in Task |-> todo[x]] /\ ierr = [x \in Task |-> ierr[x]] /\ cur = [x \in Task |-> cur[x]]
      /\ loop = [x \in IOTask |-> loop[x]]
  BY DEF Shaped
<1>2. t \in Task
  BY DEF Task
<1>3. loop'[t] = l /\ todo'[t] = s /\ ierr'[t] = e /\ cur'[t] = a
  BY <1>1, <1>2
<1>4. \A o \in Task : o # t => todo'[o] = todo[o] /\ ierr'[o] = ierr[o] /\ cur'[o] = cur[o]
  BY <1>1
<1>5. \A o \in IOTask : o # t => loop'[o] = loop[o]
  BY <1>1
<1>6. /\ todo' = [x \in Task |-> todo'[x]] /\ ierr' = [x \in Task |-> ierr'[x]] /\ cur' = [x \in Task |-> cur'[x]]
      /\ loop' = [x \in IOTask |-> loop'[x]]
  BY <1>1
<1>7. Shaped'
  BY <1>6 DEF Shaped
<1>8. Others(t)
  BY <1>4, <1>5 DEF Others
<1> QED BY <1>3, <1>7, <1>8

LEMMA SameTodo ==
    ASSUME Shaped, NEW t
    PROVE  /\ todo' = todo => todo' = [todo EXCEPT ![t] = todo[t]]
           /\ ierr' = ierr => ierr' = [ierr EXCEPT ![t] = ierr[t]]
           /\ cur' = cur => cur' = [cur EXCEPT ![t] = cur[t]]
<1>1. /\ todo = [x \in Task |-> todo[x]] /\ ierr = [x \in Task |-> ierr[x]] /\ cur = [x \in Task |-> cur[x]]
  BY DEF Shaped
<1> QED BY <1>1

LEMMA LoopRec ==
    ASSUME NEW l, [at |-> l.at, c |-> l.c, msg |-> l.msg, f |-> l.f, got |-> l.got, queue |-> l.queue] = l,
           NEW got, NEW f, NEW m, [l EXCEPT !.got = got, !.f = f] = m
    PROVE  m = [at |-> l.at, c |-> l.c, msg |-> l.msg, f |-> f, got |-> got, queue |-> l.queue]
<1> DEFINE at == l.at
           c == l.c
           msg == l.msg
           f0 == l.f
           got0 == l.got
           queue == l.queue
<1>1. l = [at |-> at, c |-> c, msg |-> msg, f |-> f0, got |-> got0, queue |-> queue]
  OBVIOUS
<1> HIDE DEF at, c, msg, f0, got0, queue
<1>2. m = [at |-> at, c |-> c, msg |-> msg, f |-> f, got |-> got, queue |-> queue]
  BY <1>1
<1> QED BY <1>2 DEF at, c, msg, queue

LEMMA TakeArgGoes ==
    ASSUME CallsAgree, NEW V, NEW N, NEW p, NEW G, NEW M, NEW g, Explained(V, N, p, G, M, g),
           NEW t \in IOTask, TakeArg(t)
    PROVE  \E V2, N2, p2 : Explained(V2, N2, p2, G, M, g)'
<1>0. SUFFICES ASSUME NEW c, loop[t].c = c, NEW v, V[c][p[c][t]] = v, NEW m, Head(chan[InterLink(t)]) = m,
                      NEW l, loop[t] = l
               PROVE  \E V2, N2, p2 : Explained(V2, N2, p2, G, M, g)'
  OBVIOUS
<1> DEFINE l1 == [l EXCEPT !.got = @ + 1, !.f = IF m.set THEN @ \cup {m.x[2]} ELSE @]
           a == Heard(m.x, m.val, cur[t])
<1>1. /\ loop[t].at = "handler" /\ chan[InterLink(t)] # <<>> /\ loop[t].got < Len(Expected(t))
      /\ chan' = [chan EXCEPT ![InterLink(t)] = Tail(@)]
      /\ loop' = [loop EXCEPT ![t] = l1]
      /\ UNCHANGED <<todo, pending, ierr, tables, next_id, eh, open, made>>
  BY <1>0 DEF TakeArg, Take, Moves
<1>2. /\ c \in Component /\ t \in Members(c) /\ p[c][t] \in 1..N[c] /\ OK(c, v) /\ LogOK(c, V[c], N[c])
      /\ LoopAt(t, loop[t], G[g[t]].rem) /\ Shaped /\ Serves(t, c) /\ IOAt(t, c, v, V[c][N[c]].n["begin"])
      /\ \A d \in Component : IOAt(t, d, V[d][p[d][t]], V[d][N[d]].n["begin"])
  BY <1>0, <1>1, ServingAt
<1>3. cur' = [cur EXCEPT ![t] = a]
  <2>1. CASE m.x = INT("ncid")
    <3>1. cur' = [cur EXCEPT ![t].file = m.val]
      BY <1>0, <2>1, Names DEF TakeArg
    <3> QED BY <2>1, <3>1, Names DEF Heard
  <2>2. CASE m.x # INT("ncid") /\ m.x = INT("ioid")
    <3>1. cur' = [cur EXCEPT ![t].decomp = m.val]
      BY <1>0, <2>2, Names DEF TakeArg
    <3> QED BY <2>2, <3>1, Names DEF Heard
  <2>3. CASE m.x # INT("ncid") /\ m.x # INT("ioid") /\ m.x = INT("method")
    <3>1. cur' = [cur EXCEPT ![t].method = m.val]
      BY <1>0, <2>3 DEF TakeArg
    <3> QED BY <2>3, <3>1 DEF Heard
  <2>4. CASE m.x # INT("ncid") /\ m.x # INT("ioid") /\ m.x # INT("method")
    <3>1. cur' = cur
      BY <1>0, <2>4 DEF TakeArg
    <3>2. cur' = [cur EXCEPT ![t] = cur[t]]
      BY <1>2, <3>1, SameTodo
    <3> QED BY <2>4, <3>2 DEF Heard
  <2> QED BY <2>1, <2>2, <2>3, <2>4
<1> DEFINE i == p[c][t]
           w == V[c][i + 1]
<1>4. /\ v.a # <<>> /\ v.a[1].do = "arg" /\ v.ph = "args"
      /\ l.msg = v.msg /\ l.f = v.f /\ l.got = v.got /\ cur[t] = v.io
      /\ i + 1 \in 1..N[c] /\ ArgStep(v, w) /\ VStep(c, v, w) /\ w.kind = "arg" /\ w.item = m
  <2> HIDE DEF a, w, i
  <2>1. loop[t].at = "handler" /\ chan[InterLink(t)] # <<>> /\ loop[t].got < Len(Expected(t)) /\ loop[t].c = c
        /\ V[c][p[c][t]] = v
    BY <1>0, <1>1, Zenon
  <2> DEFINE y == V[c][p[c][t] + 1]
  <2>2. /\ v.a # <<>> /\ v.a[1].do = "arg" /\ v.ph = "args"
        /\ loop[t].msg = v.msg /\ loop[t].f = v.f /\ loop[t].got = v.got /\ cur[t] = v.io
        /\ p[c][t] + 1 \in 1..N[c]
        /\ ArgStep(v, y) /\ VStep(c, v, y) /\ y.kind = "arg" /\ y.item = Head(chan[InterLink(t)])
    BY <2>1, ArgDue
  <2>3. w = y /\ i = p[c][t]
    BY DEF w, i
  <2> HIDE DEF y
  <2> QED BY <1>0, <2>2, <2>3
<1> HIDE DEF a, w, i
<1>5. Shaped' /\ Others(t) /\ loop'[t] = l1 /\ todo'[t] = todo[t] /\ ierr'[t] = ierr[t] /\ cur'[t] = a
  <2>1. chan' = [x \in Links |-> chan'[x]]
    BY <1>1, <1>2 DEF Shaped
  <2>2. todo' = [todo EXCEPT ![t] = todo[t]] /\ ierr' = [ierr EXCEPT ![t] = ierr[t]]
    BY <1>1, <1>2, SameTodo
  <2>3. Shaped /\ loop' = [loop EXCEPT ![t] = l1] /\ UNCHANGED <<pending, tables, next_id, eh, open, made>>
    BY <1>1, <1>2
  <2> HIDE DEF l1
  <2> QED BY <1>3, <2>1, <2>2, <2>3, OnlyLoops
<1>6. m.x = v.a[1].x /\ m.set = v.a[1].v /\ m.val = ArgValue(v.a[1].x, v.cur)
  BY <1>4 DEF ArgStep, Item
<1>8. l1 = [at |-> l.at, c |-> l.c, msg |-> l.msg, f |-> IF m.set THEN l.f \cup {m.x[2]} ELSE l.f, got |-> l.got + 1, queue |-> l.queue]
  <2>1. l = [at |-> l.at, c |-> l.c, msg |-> l.msg, f |-> l.f, got |-> l.got, queue |-> l.queue]
    BY <1>0, <1>2 DEF LoopAt
  <2> DEFINE got == l.got + 1
             f == IF m.set THEN l.f \cup {m.x[2]} ELSE l.f
  <2>2. l1 = [l EXCEPT !.got = got, !.f = f]
    OBVIOUS
  <2> HIDE DEF got, f, l1
  <2>3. l1 = [at |-> l.at, c |-> l.c, msg |-> l.msg, f |-> f, got |-> got, queue |-> l.queue]
    BY <2>1, <2>2, LoopRec
  <2> QED BY <2>3 DEF got, f
<1>7. /\ w.io = a /\ w.f = l1.f /\ w.msg = l1.msg /\ w.got = l1.got /\ w.ph # "in" /\ Keeps(v, w)
      /\ l1.at = "handler" /\ l1.c = c /\ l1.queue = l.queue
  <2>1. /\ w.io = Heard(v.a[1].x, ArgValue(v.a[1].x, v.cur), v.io) /\ w.msg = v.msg
        /\ w.f = (IF v.a[1].v THEN v.f \cup {v.a[1].x[2]} ELSE v.f) /\ w.got = v.got + 1 /\ Keeps(v, w)
        /\ w.ph # "in"
    BY <1>4 DEF ArgStep, Enters
  <2>2. l1.f = (IF m.set THEN l.f \cup {m.x[2]} ELSE l.f) /\ l1.got = l.got + 1
    BY <1>8
  <2>3. l1.msg = l.msg /\ l1.at = l.at /\ l1.c = l.c /\ l1.queue = l.queue
    BY <1>8
  <2> HIDE DEF l1
  <2>4. l1.at = "handler" /\ l1.c = c
    BY <1>0, <1>1, <2>3
  <2>5. w.f = l1.f /\ w.got = l1.got /\ w.msg = l1.msg
    BY <1>4, <1>6, <2>1, <2>2, <2>3
  <2>6. w.io = a
    BY <1>4, <1>6, <2>1 DEF a
  <2> QED BY <2>1, <2>3, <2>4, <2>5, <2>6
<1> HIDE DEF l1
<1>9. IOAt(t, c, w, V[c][N[c]].n["begin"])'
  <2>1. Serves(t, c)' /\ loop'[t].at = "handler"
    BY <1>5, <1>7 DEF Serves
  <2>2. /\ {e \in tables'[t] : e.c = c} = w.tbl /\ made'[t][c] = w.made /\ eh'[t][c] = w.eh
        /\ c \in open'[t] <=> w.open
    BY <1>1, <1>2, <1>7 DEF IOAt, Keeps
  <2> QED BY <1>5, <1>7, <2>1, <2>2 DEF IOAt
<1>10. Stays(t, G[g[t]].rem)
  <2>1. loop'[t].queue = loop[t].queue
    BY <1>0, <1>5, <1>7
  <2>2. LoopAt(t, loop[t], G[g[t]].rem)'
    BY <1>0, <1>1, <1>2, <1>5, <1>7, <1>8 DEF LoopAt
  <2> QED BY <2>1, <2>2 DEF Stays
<1>11. Apart(c, t, V, N, p)'
  <2>1. loop'[t].c = c /\ loop[t].c = c /\ UNCHANGED <<tables, made, eh, open>>
    BY <1>0, <1>1, <1>5, <1>7
  <2>2. \A d \in Component : IOAt(t, d, V[d][p[d][t]], V[d][N[d]].n["begin"])
    BY <1>2
  <2> QED BY <2>1, <2>2, ApartLoop
<1>12. Taken(c, t, "arg")
  <2>1. Shaped /\ pending' = pending /\ chan' = [chan EXCEPT ![<<"inter", c, t>>] = Tail(@)] /\ c \in Component /\ t \in Members(c)
    BY <1>0, <1>1, <1>2 DEF InterLink
  <2> QED BY <2>1, OneTaken
<1>13. \A x \in Kinds : w.n[x] = v.n[x] + (IF x = "arg" THEN 1 ELSE 0)
  BY <1>4 DEF ArgStep, Counts
<1>14. Arrived(t, c, v, w, V[c][N[c]].n["begin"])
  <2>1. t \notin CompTask(c)
    BY <1>2, TaskKinds
  <2>2. v.n["msg"] \in Nat /\ w.n["msg"] = v.n["msg"] + 0
    BY <1>2, <1>13 DEF Kinds, OK, Shape
  <2>3. w.n["msg"] = v.n["msg"]
    BY <2>2
  <2> QED BY <1>9, <2>1, <2>3 DEF Arrived
<1> DEFINE j == i + 1
           W == V[c]
<1>15. Numbers(Put(V, c, W), Put(N, c, N[c]), Put(p, c, To(c, p[c], t, j)))'
  <2>0. w.all = v.all
    BY <1>7 DEF Keeps
  <2>1. /\ W[N[c]].all = V[c][N[c]].all /\ (\A o \in Members(c) \ {t} : W[p[c][o]] = V[c][p[c][o]])
        /\ t = ioroot => W[j].all = V[c][p[c][t]].all
    BY <1>0, <2>0 DEF w
  <2>2. c \in Component /\ t \in Members(c) /\ Numbers(V, N, p) /\ next_id'[ioroot] = next_id[ioroot]
    BY <1>1, <1>2 DEF Explained
  <2> HIDE DEF W, j
  <2> QED BY <2>1, <2>2, NumbersStay
<1>16. /\ \A k \in Kinds : t \in Readers(c, k) => V[c][j].n[k] = V[c][p[c][t]].n[k] + (IF k = "arg" THEN 1 ELSE 0)
       /\ V[c][j].kind = "arg" /\ j \in 1..N[c] /\ c \in Component /\ t \in Members(c)
       /\ (\A o \in CompTask(c) \ {t} : pending'[o] = pending[o])
       /\ Arrived(t, c, V[c][p[c][t]], V[c][j], V[c][N[c]].n["begin"])
  BY <1>0, <1>1, <1>2, <1>4, <1>13, <1>14 DEF w
<1> HIDE DEF j
<1> QED BY <1>5, <1>10, <1>11, <1>12, <1>15, <1>16, GoOld DEF W

\* The arguments told the library function about are known.
LEMMA ArgsKnown ==
    ASSUME NEW V, NEW N, NEW p, NEW G, NEW M, NEW g, Explained(V, N, p, G, M, g), NEW t \in IOTask,
           loop[t].at \in {"handler", "call"}, NEW c, loop[t].c = c, NEW v, V[c][p[c][t]] = v, v.ph # "in"
    PROVE  cur[t].file \in {0} \cup Ids(t, "file") /\ cur[t].decomp \in {0} \cup Ids(t, "decomp")
<1>1. /\ c \in Component /\ OK(c, v) /\ Serves(t, c) /\ IOAt(t, c, v, V[c][N[c]].n["begin"])
  BY ServingAt
<1>2. cur[t] = v.io /\ {e \in tables[t] : e.c = c} = v.tbl
  BY <1>1 DEF IOAt
<1>3. /\ v.io.file \in {0, v.cur.file} /\ v.io.decomp \in {0, v.cur.decomp}
      /\ v.cur.file \in {0} \cup IdsIn(v.tbl, "file") /\ v.cur.decomp \in {0} \cup IdsIn(v.tbl, "decomp")
  BY <1>1 DEF OK, Knows
<1>4. \A k : IdsIn(v.tbl, k) \subseteq Ids(t, k)
  BY <1>2 DEF IdsIn, Ids, Entries, CompOf
<1> QED BY <1>2, <1>3, <1>4

LEMMA ServeRec ==
    ASSUME NEW l, [at |-> l.at, c |-> l.c, msg |-> l.msg, f |-> l.f, got |-> l.got, queue |-> l.queue] = l,
           NEW at, NEW msg, NEW got, NEW f, NEW m, [l EXCEPT !.at = at, !.msg = msg, !.f = f, !.got = got] = m
    PROVE  m = [at |-> at, c |-> l.c, msg |-> msg, f |-> f, got |-> got, queue |-> l.queue]
<1> DEFINE at0 == l.at
           c == l.c
           msg0 == l.msg
           f0 == l.f
           got0 == l.got
           queue == l.queue
<1>1. l = [at |-> at0, c |-> c, msg |-> msg0, f |-> f0, got |-> got0, queue |-> queue]
  OBVIOUS
<1> HIDE DEF at0, c, msg0, f0, got0, queue
<1>2. m = [at |-> at, c |-> c, msg |-> msg, f |-> f, got |-> got, queue |-> queue]
  BY <1>1
<1> QED BY <1>2 DEF c, queue

LEMMA ServeCallGoes ==
    ASSUME NEW V, NEW N, NEW p, NEW G, NEW M, NEW g, Explained(V, N, p, G, M, g), NEW t \in IOTask, ServeCall(t)
    PROVE  \E V2, N2, p2 : Explained(V2, N2, p2, G, M, g)'
<1>0. SUFFICES ASSUME NEW c, loop[t].c = c, NEW v, V[c][p[c][t]] = v, NEW l, loop[t] = l,
                      NEW call, Handler(l.msg, l.f)["call"] = call
               PROVE  \E V2, N2, p2 : Explained(V2, N2, p2, G, M, g)'
  OBVIOUS
<1> DEFINE at == IF "unknown" \in call.checks THEN "left" ELSE "call"
           l1 == [l EXCEPT !.at = at, !.msg = "none", !.f = {}, !.got = 0]
           known == /\ cur[t].file \in {0} \cup Ids(t, "file")
                    /\ cur[t].decomp \in {0} \cup Ids(t, "decomp")
           s == IF "PIO_EBADID" \in call.checks /\ ~known THEN <<Fail>> ELSE IOSteps(call)
<1>1. /\ l.at = "handler" /\ l.got = Len(Expected(t))
      /\ loop' = [loop EXCEPT ![t] = l1] /\ todo' = [todo EXCEPT ![t] = s] /\ ierr' = [ierr EXCEPT ![t] = "ok"]
      /\ UNCHANGED <<chan, pending, cur, tables, next_id, eh, open, made>>
  BY <1>0 DEF ServeCall, Moves
<1>2. /\ c \in Component /\ t \in Members(c) /\ p[c][t] \in 1..N[c] /\ OK(c, v) /\ LogOK(c, V[c], N[c])
      /\ LoopAt(t, loop[t], G[g[t]].rem) /\ Shaped /\ Serves(t, c) /\ IOAt(t, c, v, V[c][N[c]].n["begin"])
      /\ \A d \in Component : IOAt(t, d, V[d][p[d][t]], V[d][N[d]].n["begin"])
  BY <1>0, <1>1, ServingAt
<1>3. l.msg = v.msg /\ l.f = v.f /\ l.got = v.got /\ cur[t] = v.io /\ v.ph # "in"
  BY <1>0, <1>1, <1>2 DEF IOAt
<1>4. Len(Handler(v.msg, v.f)["recv"]) = v.got
  BY <1>0, <1>1, <1>3 DEF Expected
<1>5. v.ph = "start"
  <2> SUFFICES ASSUME v.ph = "args" PROVE FALSE
    BY <1>2, <1>3 DEF OK, Shape
  <2> DEFINE a == v.a
             msg == v.msg
             f == v.f
             got == v.got
  <2>1. Sq(a) /\ got \in Nat /\ Understood(a, msg, f, got) /\ a[1].do = "arg"
    BY <1>2 DEF OK, Phase, Shape
  <2>2. Len(Handler(msg, f)["recv"]) = got
    BY <1>4
  <2> HIDE DEF a, msg, f, got
  <2>3. got + 1 <= Len(Handler(msg, f)["recv"])
    BY <2>1, Arrives
  <2> QED BY <2>1, <2>2, <2>3
<1>6. v.b = IOSteps(call) /\ "unknown" \notin call.checks /\ v.ierr = "ok"
  BY <1>0, <1>2, <1>3, <1>5 DEF OK, Phase, NoError
<1>7. known
  <2>1. loop[t].at \in {"handler", "call"} /\ c = loop[t].c /\ v = V[c][p[c][t]] /\ v.ph # "in"
    BY <1>0, <1>1, <1>3
  <2> HIDE DEF l1, at, s
  <2> QED BY <2>1, ArgsKnown
<1>8. s = v.b /\ at = "call"
  BY <1>6, <1>7
<1> HIDE DEF s, at, known
<1>9. l1 = [at |-> "call", c |-> c, msg |-> "none", f |-> {}, got |-> 0, queue |-> l.queue]
  <2>1. l = [at |-> l.at, c |-> l.c, msg |-> l.msg, f |-> l.f, got |-> l.got, queue |-> l.queue]
    BY <1>0, <1>2 DEF LoopAt
  <2>2. l1 = [l EXCEPT !.at = at, !.msg = "none", !.f = {}, !.got = 0]
    OBVIOUS
  <2> HIDE DEF l1
  <2>3. l1 = [at |-> at, c |-> l.c, msg |-> "none", f |-> {}, got |-> 0, queue |-> l.queue]
    BY <2>1, <2>2, ServeRec
  <2> QED BY <1>0, <1>8, <2>3
<1> HIDE DEF l1
<1>10. Shaped' /\ Others(t) /\ loop'[t] = l1 /\ todo'[t] = v.b /\ ierr'[t] = "ok" /\ cur'[t] = v.io
  <2>1. chan' = [x \in Links |-> chan'[x]]
    BY <1>1, <1>2 DEF Shaped
  <2>2. cur' = [cur EXCEPT ![t] = cur[t]]
    BY <1>1, <1>2, SameTodo
  <2>3. Shaped /\ loop' = [loop EXCEPT ![t] = l1] /\ UNCHANGED <<pending, tables, next_id, eh, open, made>>
        /\ todo' = [todo EXCEPT ![t] = s] /\ ierr' = [ierr EXCEPT ![t] = "ok"]
    BY <1>1, <1>2
  <2>4. Shaped' /\ Others(t) /\ loop'[t] = l1 /\ todo'[t] = s /\ ierr'[t] = "ok" /\ cur'[t] = cur[t]
    BY <2>1, <2>2, <2>3, OnlyLoops
  <2> QED BY <1>3, <1>8, <2>4
<1>11. \A b : IOAt(t, c, v, b)'
  <2>1. Serves(t, c)' /\ loop'[t].at = "call"
    BY <1>9, <1>10 DEF Serves
  <2>2. /\ {e \in tables'[t] : e.c = c} = v.tbl /\ made'[t][c] = v.made /\ eh'[t][c] = v.eh
        /\ c \in open'[t] <=> v.open
    BY <1>1, <1>2 DEF IOAt
  <2>3. Tokens(t, v)'
    <3>1. v.have \cap NextIds = {}
      BY <1>2, <1>3 DEF OK, Knows
    <3> QED BY <3>1, Names DEF Tokens
  <2> QED BY <1>5, <1>6, <1>10, <2>1, <2>2, <2>3 DEF IOAt
<1>12. Stays(t, G[g[t]].rem)
  <2>1. loop'[t].queue = loop[t].queue
    BY <1>0, <1>9, <1>10
  <2>2. LoopAt(t, loop[t], G[g[t]].rem)'
    <3>1. loop'[t] = [at |-> "call", c |-> c, msg |-> "none", f |-> {}, got |-> 0, queue |-> l.queue]
      BY <1>9, <1>10
    <3>2. Sq(l.queue) /\ Len(l.queue) = G[g[t]].rem /\ c \in Component
      BY <1>0, <1>2 DEF LoopAt
    <3> QED BY <3>1, <3>2 DEF LoopAt
  <2> QED BY <2>1, <2>2 DEF Stays
<1>13. Apart(c, t, V, N, p)'
  <2>1. loop'[t].c = c /\ loop[t].c = c /\ UNCHANGED <<tables, made, eh, open>>
    BY <1>0, <1>1, <1>9, <1>10
  <2>2. \A d \in Component : IOAt(t, d, V[d][p[d][t]], V[d][N[d]].n["begin"])
    BY <1>2
  <2> QED BY <2>1, <2>2, ApartLoop
<1>14. \A b : Arrived(t, c, v, v, b)
  <2>1. t \notin CompTask(c)
    BY <1>2, TaskKinds
  <2> QED BY <1>11, <2>1 DEF Arrived
<1>15. c \in Component /\ t \in Members(c) /\ chan' = chan /\ pending' = pending /\ next_id' = next_id
  BY <1>1, <1>2
<1> QED BY <1>0, <1>10, <1>12, <1>13, <1>14, <1>15, Staying

\* When a task has been told that everybody has gone there is nothing left to serve.
LEMMA NobodyLeft ==
    ASSUME NEW V, NEW N, NEW p, NEW G, NEW M, NEW g, Explained(V, N, p, G, M, g), NEW t \in IOTask, open[t] = {}
    PROVE  G[g[t]].rem = 0
<1>1. /\ g[t] \in 1..g[ioroot] /\ LoopAt(t, loop[t], G[g[t]].rem) /\ \A c \in Component : V[c][p[c][t]].n["msg"] = G[g[t]].served[c]
      /\ M = g[ioroot] + G[g[ioroot]].rem /\ LoopLog(V, N, G, M) /\ g[ioroot] \in 1..g[ioroot]
  BY TaskKinds DEF Explained, LoopsAt
<1>2. ASSUME NEW c \in Component PROVE V[c][p[c][t]].n["msg"] = V[c][N[c]].n["msg"]
  <2> DEFINE i == p[c][t]
             v == V[c][i]
  <2>1. i \in 1..N[c] /\ IOAt(t, c, v, V[c][N[c]].n["begin"]) /\ LogOK(c, V[c], N[c])
    BY <1>2, TaskKinds DEF Explained, Follows, TasksAt
  <2>2. OK(c, v) /\ ~v.open
    BY <2>1, SMTT(30) DEF IOAt, LogOK
  <2>3. v.a = <<>>
    BY <2>2, Zenon DEF OK, Shape
  <2> HIDE DEF i
  <2>4. ASSUME i # N[c] PROVE FALSE
    <3>1. VStep(c, v, V[c][i + 1])
      BY <2>1, <2>4, LogAt
    <3> QED BY <2>2, <2>3, <3>1 DEF VStep, BeginStep, MsgStep, ArgStep, ShareStep, AnswerStep, OutcomeStep, OwnStep,
                                    HandleStep, EndStep, EffectStep, At1
  <2> QED BY <2>4 DEF i
<1> SUFFICES ASSUME G[g[t]].rem # 0 PROVE FALSE
  OBVIOUS
<1> DEFINE i == g[t]
<1>3. i \in 1..(M - 1)
  <2>1. M \in Nat /\ \A x \in 1..M : G[x].rem \in Nat
    BY <1>1 DEF LoopLog
  <2>2. g[ioroot] \in Nat /\ i <= g[ioroot] /\ i \in Nat \ {0}
    BY <1>1
  <2>3. G[g[ioroot]].rem \in Nat
    <3> DEFINE y == G[g[ioroot]].rem
    <3>1. CASE i = g[ioroot]
      BY <1>1, <3>1 DEF LoopAt, Sq
    <3>2. CASE i # g[ioroot]
      <4>1. LoopAt(ioroot, loop[ioroot], G[g[ioroot]].rem)
        BY TaskKinds DEF Explained, LoopsAt
      <4> QED BY <4>1 DEF LoopAt, Sq
    <3> QED BY <3>1, <3>2
  <2>4. CASE i = g[ioroot]
    BY <1>1, <2>1, <2>2, <2>3, <2>4
  <2>5. CASE i # g[ioroot]
    BY <1>1, <2>1, <2>2, <2>3, <2>5
  <2> QED BY <2>4, <2>5
<1> HIDE DEF i
<1>4. Requested(G, i, V, N)
  <2>1. Counted(G, i) \/ Requested(G, i, V, N)
    BY <1>1, <1>3 DEF LoopLog
  <2>2. ~Counted(G, i)
    BY DEF Counted, i
  <2> QED BY <2>1, <2>2
<1>5. PICK c \in Component :
         /\ \A d \in Component : G[i + 1].served[d] = G[i].served[d] + (IF d = c THEN 1 ELSE 0)
         /\ G[i + 1].served[c] <= V[c][N[c]].n["msg"]
  BY <1>4 DEF Requested
<1>6. G[i].served[c] = V[c][N[c]].n["msg"] /\ G[i].served[c] \in Nat
  <2>1. G[i].served[c] = V[c][N[c]].n["msg"]
    BY <1>1, <1>2 DEF i
  <2>2. i \in 1..M
    BY <1>1, <1>3 DEF LoopLog
  <2> QED BY <1>1, <2>1, <2>2 DEF LoopLog
<1>7. G[i + 1].served[c] = G[i].served[c] + 1
  BY <1>5
<1> QED BY <1>5, <1>6, <1>7

LEMMA TopRec ==
    ASSUME NEW c, NEW q, NEW at, NEW m, [Top EXCEPT !.c = c, !.queue = q, !.at = at] = m
    PROVE  m = [at |-> at, c |-> c, msg |-> "none", f |-> {}, got |-> 0, queue |-> q]
BY DEF Top

LEMMA EndRequestGoes ==
    ASSUME NEW V, NEW N, NEW p, NEW G, NEW M, NEW g, Explained(V, N, p, G, M, g), NEW t \in IOTask, EndRequest(t)
    PROVE  \E V2, N2, p2 : Explained(V2, N2, p2, G, M, g)'
<1>0. SUFFICES ASSUME NEW c, loop[t].c = c, NEW v, V[c][p[c][t]] = v, NEW q, loop[t].queue = q,
                      NEW r, G[g[t]].rem = r, NEW at, at = IF open[t] = {} THEN "left" ELSE IF q = <<>> THEN "top" ELSE "request",
                      NEW l1, [at |-> at, c |-> c, msg |-> "none", f |-> {}, got |-> 0, queue |-> q] = l1
               PROVE  \E V2, N2, p2 : Explained(V2, N2, p2, G, M, g)'
  OBVIOUS
<1>1. /\ loop[t].at = "call" /\ todo[t] = <<>>
      /\ loop' = [loop EXCEPT ![t] = l1] /\ cur' = [cur EXCEPT ![t] = NoArgs]
      /\ UNCHANGED <<chan, todo, pending, ierr, tables, next_id, eh, open, made>>
  <2> DEFINE m == [Top EXCEPT !.c = c, !.queue = q, !.at = at]
  <2>1. /\ loop[t].at = "call" /\ todo[t] = <<>>
        /\ loop' = [loop EXCEPT ![t] = m] /\ cur' = [cur EXCEPT ![t] = NoArgs]
        /\ UNCHANGED <<chan, todo, pending, ierr, tables, next_id, eh, open, made>>
    BY <1>0 DEF EndRequest, Moves
  <2>2. m = [Top EXCEPT !.c = c, !.queue = q, !.at = at]
    OBVIOUS
  <2> HIDE DEF m
  <2>3. m = [at |-> at, c |-> c, msg |-> "none", f |-> {}, got |-> 0, queue |-> q]
    BY <2>2, TopRec
  <2>4. m = l1
    BY <1>0, <2>3
  <2> QED BY <2>1, <2>4
<1>2. /\ c \in Component /\ t \in Members(c) /\ p[c][t] \in 1..N[c] /\ OK(c, v) /\ LogOK(c, V[c], N[c])
      /\ LoopAt(t, loop[t], r) /\ Shaped /\ Serves(t, c) /\ IOAt(t, c, v, V[c][N[c]].n["begin"])
      /\ \A d \in Component : IOAt(t, d, V[d][p[d][t]], V[d][N[d]].n["begin"])
  BY <1>0, <1>1, ServingAt
<1>3. v.b = <<>> /\ v.ph # "args" /\ ierr[t] = v.ierr
  BY <1>1, <1>2 DEF IOAt
<1>4. Idle(v)
  BY <1>2, <1>3 DEF OK, Phase, Shape, Idle
<1>5. /\ l1.at = at /\ l1.c = c /\ l1.queue = q /\ l1.f = {} /\ l1.got = 0
      /\ l1 = [at |-> l1.at, c |-> l1.c, msg |-> l1.msg, f |-> l1.f, got |-> l1.got, queue |-> l1.queue]
      /\ at \in {"left", "top", "request"}
  BY <1>0
<1>6. Shaped' /\ Others(t) /\ loop'[t] = l1 /\ todo'[t] = todo[t] /\ ierr'[t] = ierr[t] /\ cur'[t] = NoArgs
  <2>1. chan' = [x \in Links |-> chan'[x]]
    BY <1>1, <1>2 DEF Shaped
  <2>2. todo' = [todo EXCEPT ![t] = todo[t]] /\ ierr' = [ierr EXCEPT ![t] = ierr[t]]
    BY <1>1, <1>2, SameTodo
  <2>3. Shaped /\ loop' = [loop EXCEPT ![t] = l1] /\ UNCHANGED <<pending, tables, next_id, eh, open, made>>
        /\ cur' = [cur EXCEPT ![t] = NoArgs]
    BY <1>1, <1>2
  <2> QED BY <2>1, <2>2, <2>3, OnlyLoops
<1>7. \A b : IOAt(t, c, v, b)'
  <2>1. ~Serves(t, c)'
    BY <1>5, <1>6 DEF Serves
  <2>2. /\ {e \in tables'[t] : e.c = c} = v.tbl /\ made'[t][c] = v.made /\ eh'[t][c] = v.eh
        /\ c \in open'[t] <=> v.open
    BY <1>1, <1>2 DEF IOAt
  <2>3. ierr'[t] = v.ierr
    BY <1>3, <1>6
  <2> QED BY <1>4, <2>1, <2>2, <2>3 DEF IOAt
<1>8. Stays(t, r)
  <2>1. loop'[t].queue = loop[t].queue
    BY <1>0, <1>5, <1>6
  <2>2. Sq(q) /\ Len(q) = r
    BY <1>0, <1>2 DEF LoopAt
  <2>3. open[t] = {} => r = 0
    BY <1>0, NobodyLeft
  <2>4. q = <<>> <=> r = 0
    BY <2>2, SqNil
  <2>5. at \in {"top", "left"} => r = 0
    BY <1>0, <2>3, <2>4
  <2>6. at = "request" => r # 0
    BY <1>0, <2>4
  <2>7. LoopAt(t, loop[t], r)'
    <3>1. todo'[t] = <<>>
      BY <1>1, <1>6
    <3> QED BY <1>5, <1>6, <2>2, <2>5, <2>6, <3>1 DEF LoopAt
  <2> QED BY <2>1, <2>7 DEF Stays
<1>9. Apart(c, t, V, N, p)'
  <2>1. loop'[t].c = c /\ loop[t].c = c /\ UNCHANGED <<tables, made, eh, open>>
    BY <1>0, <1>1, <1>5, <1>6
  <2>2. \A d \in Component : IOAt(t, d, V[d][p[d][t]], V[d][N[d]].n["begin"])
    BY <1>2
  <2> QED BY <2>1, <2>2, ApartLoop
<1>10. \A b : Arrived(t, c, v, v, b)
  <2>1. t \notin CompTask(c)
    BY <1>2, TaskKinds
  <2> QED BY <1>7, <2>1 DEF Arrived
<1>11. /\ c \in Component /\ t \in Members(c) /\ chan' = chan /\ pending' = pending /\ next_id' = next_id
       /\ Stays(t, G[g[t]].rem)
  BY <1>0, <1>1, <1>2, <1>8
<1>12. Shaped' /\ Others(t) /\ v = V[c][p[c][t]]
  BY <1>0, <1>6
<1> QED BY <1>9, <1>10, <1>11, <1>12, Staying

-----------------------------------------------------------------------------
(***************************************************************************)
(* Calls begin.                                                            *)
(***************************************************************************)
\* A computation task that has returned from its call.
LEMMA BetweenCalls ==
    ASSUME NEW V, NEW N, NEW p, NEW G, NEW M, NEW g, Explained(V, N, p, G, M, g), NEW t \in CompTasks,
           todo[t] = <<>>, NEW c, t[1] = c, NEW v, V[c][p[c][t]] = v
    PROVE  /\ c \in Component /\ t \in CompTask(c) /\ t \in Members(c) /\ t \in Task /\ t \notin IOTask
           /\ p[c][t] \in 1..N[c] /\ OK(c, v) /\ LogOK(c, V[c], N[c])
           /\ Follows(c, V[c], N[c], p[c]) /\ CompAt(t, c, v) /\ v.a = <<>> /\ Shaped
<1>1. c \in Component /\ t \in CompTask(c) /\ t \in Members(c) /\ t \in Task /\ t \notin IOTask
  BY TaskKinds
<1>2. Follows(c, V[c], N[c], p[c]) /\ p[c][t] \in 1..N[c] /\ LogOK(c, V[c], N[c]) /\ Shaped /\ CompAt(t, c, v)
  BY <1>1 DEF Explained, Follows, TasksAt
<1>3. OK(c, v)
  BY <1>2 DEF LogOK
<1>4. v.a = <<>>
  <2> SUFFICES ASSUME todo[t] # v.a PROVE FALSE
    OBVIOUS
  <2>1. Ahead1(t, c, v)
    BY <1>1, <1>2 DEF CompAt, Ahead1
  <2> QED BY <1>3, <2>1, AheadAt
<1> QED BY <1>1, <1>2, <1>3, <1>4

LEMMA OnlyBegins ==
    ASSUME NEW c, NEW v, NEW w, VStep(c, v, w), v.a = <<>>
    PROVE  BeginStep(v, w)
BY DEF VStep, BeginStep, MsgStep, ArgStep, ShareStep, AnswerStep, OutcomeStep, OwnStep, HandleStep, EndStep, EffectStep, At1

LEMMA FollowGoes ==
    ASSUME NEW V, NEW N, NEW p, NEW G, NEW M, NEW g, Explained(V, N, p, G, M, g), NEW t \in CompTasks, Follow(t)
    PROVE  \E V2, N2, p2 : Explained(V2, N2, p2, G, M, g)'
<1>0. SUFFICES ASSUME NEW c, t[1] = c, NEW v, V[c][p[c][t]] = v, NEW s, pending[t] = s
               PROVE  \E V2, N2, p2 : Explained(V2, N2, p2, G, M, g)'
  OBVIOUS
<1>1. /\ todo[t] = <<>> /\ s # <<>>
      /\ todo' = [todo EXCEPT ![t] = CompSteps(Head(s)[1])] /\ cur' = [cur EXCEPT ![t] = Head(s)[2]]
      /\ ierr' = [ierr EXCEPT ![t] = "ok"] /\ pending' = [pending EXCEPT ![t] = Tail(s)]
      /\ UNCHANGED <<chan, tables, next_id, eh, loop, open, made>>
  BY <1>0 DEF Follow, Start
<1>2. /\ c \in Component /\ t \in CompTask(c) /\ t \in Members(c) /\ t \in Task /\ t \notin IOTask
      /\ p[c][t] \in 1..N[c] /\ OK(c, v) /\ LogOK(c, V[c], N[c])
      /\ Follows(c, V[c], N[c], p[c]) /\ CompAt(t, c, v) /\ v.a = <<>> /\ Shaped
  BY <1>0, <1>1, BetweenCalls
<1>3. LogOK(c, V[c], N[c])
  BY <1>2
<1> DEFINE i == p[c][t]
           j == i + 1
           w == V[c][j]
           m == v.n["begin"]
           k == "begin"
<1>4. Holds(s, V[c], N[c], m, k) /\ m \in Nat /\ k \in Kinds
  <2>1. k \in Kinds /\ t \in Readers(c, k)
    BY <1>2 DEF Kinds, Readers
  <2>2. Box(t, c, k) = s
    BY <1>0, BoxIs
  <2>3. Holds(Box(t, c, k), V[c], N[c], V[c][i].n[k], k)
    BY <1>2, <2>1 DEF Follows, Boxes
  <2>4. v.n[k] \in Nat
    BY <1>2, <2>1 DEF OK, Shape
  <2> QED BY <1>0, <2>1, <2>2, <2>3, <2>4
<1>5. i # N[c]
  <2> HIDE DEF m, k, i
  <2>1. m # V[c][N[c]].n[k]
    BY <1>1, <1>3, <1>4, HoldsLen
  <2> QED BY <1>0, <2>1 DEF m, k, i
<1>6. j \in 1..N[c] /\ VStep(c, v, w)
  <2>1. i # N[c] => i + 1 \in 1..N[c] /\ VStep(c, V[c][i], V[c][i + 1])
    BY <1>2, LogAt
  <2> QED BY <1>0, <1>5, <2>1
<1> HIDE DEF w
<1>7. BeginStep(v, w)
  BY <1>2, <1>6, OnlyBegins
<1>8. /\ w.kind = k /\ \A x \in Kinds : w.n[x] = v.n[x] + (IF x = k THEN 1 ELSE 0)
  BY <1>7 DEF BeginStep, Counts
<1>9. Head(s) = w.item
  <2>1. V[c][j].kind = k /\ V[c][j].n[k] = m + 1 /\ j \in 1..N[c]
    BY <1>4, <1>6, <1>8 DEF w
  <2> HIDE DEF m, k, j
  <2>2. Head(s) = V[c][j].item
    BY <1>3, <1>4, <2>1, HoldsTaken
  <2> QED BY <2>2 DEF w
<1>10. /\ CompSteps(Head(s)[1]) = w.a /\ Head(s)[2] = w.cur /\ w.ierr = "ok" /\ w.ph = v.ph /\ w.have = v.have
       /\ w.nid = v.nid /\ w.tbl = v.tbl /\ w.all = v.all /\ w.made = v.made /\ w.open = v.open /\ w.eh = v.eh
  BY <1>7, <1>9 DEF BeginStep
<1>11. /\ todo' = [todo EXCEPT ![t] = w.a] /\ cur' = [cur EXCEPT ![t] = w.cur]
  BY <1>1, <1>10
<1>12. /\ todo'[t] = w.a /\ cur'[t] = w.cur /\ ierr'[t] = "ok" /\ pending'[t] = Tail(s)
       /\ \A o \in Task : o # t => todo'[o] = todo[o] /\ ierr'[o] = ierr[o] /\ cur'[o] = cur[o]
       /\ \A o \in CompTasks : o # t => pending'[o] = pending[o]
       /\ Shaped'
  <2>1. /\ todo = [x \in Task |-> todo[x]] /\ ierr = [x \in Task |-> ierr[x]] /\ cur = [x \in Task |-> cur[x]]
        /\ pending = [x \in CompTasks |-> pending[x]] /\ Shaped
    BY <1>2 DEF Shaped
  <2>2. /\ todo'[t] = w.a /\ cur'[t] = w.cur /\ ierr'[t] = "ok" /\ pending'[t] = Tail(s)
    BY <1>1, <1>2, <1>11, <2>1
  <2>3. /\ \A o \in Task : o # t => todo'[o] = todo[o] /\ ierr'[o] = ierr[o] /\ cur'[o] = cur[o]
        /\ \A o \in CompTasks : o # t => pending'[o] = pending[o]
    BY <1>1, <1>11, <2>1
  <2>4. /\ todo' = [x \in Task |-> todo'[x]] /\ ierr' = [x \in Task |-> ierr'[x]] /\ cur' = [x \in Task |-> cur'[x]]
        /\ pending' = [x \in CompTasks |-> pending'[x]]
    BY <1>1, <1>11, <2>1
  <2>5. Shaped'
    BY <1>1, <2>1, <2>4 DEF Shaped
  <2> QED BY <2>2, <2>3, <2>5
<1>13. Others(t)
  BY <1>1, <1>12 DEF Others
<1>14. CompAt(t, c, w)'
  <2>1. Tokens(t, w)'
    BY <1>1, <1>2, <1>10 DEF CompAt, Tokens
  <2> QED BY <1>1, <1>2, <1>10, <1>12, <2>1 DEF CompAt
<1>15. Arrived(t, c, v, w, V[c][N[c]].n["begin"]) /\ Stays(t, G[g[t]].rem) /\ Apart(c, t, V, N, p)'
  BY <1>2, <1>14 DEF Arrived, Stays, Apart
<1>16. Taken(c, t, k)
  <2>1. \A y \in Kinds : \A o \in Readers(c, y) :
           Box(o, c, y)' = IF o = t /\ y = k THEN Tail(Box(o, c, y)) ELSE Box(o, c, y)
    <3> SUFFICES ASSUME NEW y \in Kinds, NEW o \in Readers(c, y)
                 PROVE  Box(o, c, y)' = IF o = t /\ y = k THEN Tail(Box(o, c, y)) ELSE Box(o, c, y)
      OBVIOUS
    <3>1. CASE y = "begin"
      <4>1. Box(o, c, y) = pending[o] /\ Box(o, c, y)' = pending'[o] /\ o \in CompTasks
        BY <1>2, <3>1, BoxIs, BoxWillBe, TaskKinds DEF Readers
      <4> QED BY <1>0, <1>12, <3>1, <4>1
    <3>2. CASE y # "begin"
      <4>1. y # k /\ chan' = chan
        BY <1>1, <3>2
      <4>2. Box(o, c, y)' = Box(o, c, y)
        BY <3>2, <4>1, BoxIs, BoxWillBe, Zenon DEF Kinds
      <4> HIDE DEF k
      <4> QED BY <4>1, <4>2
    <3> QED BY <3>1, <3>2
  <2>2. ASSUME NEW d \in Component \ {c}, NEW y \in Kinds, NEW o \in Readers(d, y) PROVE Box(o, d, y)' = Box(o, d, y)
    <3>1. CASE y = "begin"
      <4>1. Box(o, d, y) = pending[o] /\ Box(o, d, y)' = pending'[o] /\ o \in CompTask(d)
        BY <3>1, BoxIs, BoxWillBe DEF Readers
      <4>2. o \in CompTasks /\ o # t
        BY <1>0, <4>1, TaskKinds
      <4> QED BY <1>12, <4>1, <4>2
    <3>2. CASE y # "begin"
      <4>1. chan' = chan
        BY <1>1
      <4> QED BY <3>2, <4>1, BoxIs, BoxWillBe DEF Kinds
    <3> QED BY <3>1, <3>2
  <2>3. Elsewhere(c)
    BY <1>1, <2>2 DEF Elsewhere
  <2> QED BY <1>1, <2>1, <2>3 DEF Taken
<1> DEFINE W == V[c]
<1>17. Numbers(Put(V, c, W), Put(N, c, N[c]), Put(p, c, To(c, p[c], t, j)))'
  <2>1. /\ W[N[c]].all = V[c][N[c]].all /\ (\A o \in Members(c) \ {t} : W[p[c][o]] = V[c][p[c][o]])
        /\ t = ioroot => W[j].all = V[c][p[c][t]].all
    BY <1>2, TaskKinds
  <2>2. c \in Component /\ t \in Members(c) /\ Numbers(V, N, p) /\ next_id'[ioroot] = next_id[ioroot]
    BY <1>1, <1>2 DEF Explained
  <2> HIDE DEF W, j
  <2> QED BY <2>1, <2>2, NumbersStay
<1>18. /\ \A y \in Kinds : t \in Readers(c, y) => V[c][j].n[y] = V[c][p[c][t]].n[y] + (IF y = k THEN 1 ELSE 0)
       /\ V[c][j].kind = k /\ j \in 1..N[c] /\ c \in Component /\ t \in Members(c)
       /\ (\A o \in CompTask(c) \ {t} : pending'[o] = pending[o])
       /\ Arrived(t, c, V[c][p[c][t]], V[c][j], V[c][N[c]].n["begin"])
  BY <1>0, <1>2, <1>6, <1>8, <1>12, <1>15, TaskKinds DEF w
<1> HIDE DEF j, k
<1> QED BY <1>12, <1>13, <1>15, <1>16, <1>17, <1>18, GoOld DEF W

\* The first task to get there has taken all steps of its component so far.
LEMMA NothingPending ==
    ASSUME NEW V, NEW N, NEW p, NEW G, NEW M, NEW g, Explained(V, N, p, G, M, g), NEW t \in CompTasks,
           todo[t] = <<>>, pending[t] = <<>>, NEW c, t[1] = c
    PROVE  p[c][t] = N[c]
<1>0. SUFFICES ASSUME NEW i, p[c][t] = i, i # N[c] PROVE FALSE
  OBVIOUS
<1> DEFINE v == V[c][i]
           w == V[c][i + 1]
           k == "begin"
<1>1. /\ c \in Component /\ t \in CompTask(c) /\ i \in 1..N[c] /\ OK(c, v) /\ LogOK(c, V[c], N[c])
      /\ Follows(c, V[c], N[c], p[c]) /\ v.a = <<>>
  BY <1>0, BetweenCalls
<1>2. i + 1 \in 1..N[c] /\ VStep(c, v, w)
  BY <1>0, <1>1, LogAt
<1>3. BeginStep(v, w) /\ k \in Kinds
  BY <1>1, <1>2, OnlyBegins DEF Kinds
<1>4. w.n[k] = v.n[k] + 1 /\ v.n[k] \in Nat
  BY <1>1, <1>3 DEF BeginStep, Counts, OK, Shape
<1>5. w.n[k] <= V[c][N[c]].n[k] /\ V[c][N[c]].n[k] \in Nat
  BY <1>1, <1>2, <1>3, LogAt
<1>6. Holds(<<>>, V[c], N[c], v.n[k], k)
  <2>1. k \in Kinds /\ t \in Readers(c, k)
    BY <1>1 DEF Kinds, Readers
  <2>2. Box(t, c, k) = <<>>
    BY BoxIs
  <2>3. Holds(Box(t, c, k), V[c], N[c], V[c][i].n[k], k)
    BY <1>0, <1>1, <2>1 DEF Follows, Boxes
  <2> QED BY <2>2, <2>3
<1>7. v.n[k] = V[c][N[c]].n[k]
  <2> HIDE DEF k, v
  <2> QED BY <1>1, <1>3, <1>4, <1>6, HoldsLen
<1> QED BY <1>4, <1>5, <1>7

Begun(v, call, x) ==
    [a |-> CompSteps(call), b |-> v.b, cur |-> x, io |-> v.io, open |-> v.open, ph |-> v.ph,
     n |-> [y \in Kinds |-> v.n[y] + (IF y = "begin" THEN 1 ELSE 0)],
     msg |-> v.msg, f |-> v.f, got |-> v.got, kind |-> "begin", item |-> <<call, x>>, ierr |-> "ok",
     have |-> v.have, nid |-> v.nid, tbl |-> v.tbl, all |-> v.all, made |-> v.made, eh |-> v.eh]

LEMMA BegunIs ==
    ASSUME NEW v, v.a = <<>>, v.open, NEW call \in Calls, NEW x, IsArgs(x), v.eh = "BCAST" => ~Inner(call),
           x.file \in {0} \cup IdsIn(v.tbl, "file"), x.decomp \in {0} \cup IdsIn(v.tbl, "decomp")
    PROVE  \E w : BeginStep(v, w) /\ w.item = <<call, x>> /\ w.a = CompSteps(call) /\ w.cur = x
<1> DEFINE w == Begun(v, call, x)
<1>1. Counts(v, w, "begin")
  BY DEF Counts, Begun
<1>2. /\ w.item = <<call, w.cur>> /\ w.a = CompSteps(call) /\ w.cur = x /\ w.ierr = "ok"
      /\ w.b = v.b /\ w.ph = v.ph /\ w.have = v.have /\ w.io = v.io /\ w.nid = v.nid
      /\ w.tbl = v.tbl /\ w.all = v.all /\ w.made = v.made /\ w.open = v.open /\ w.eh = v.eh
  BY DEF Begun
<1> HIDE DEF w
<1>3. BeginStep(v, w)
  BY <1>1, <1>2 DEF BeginStep
<1> QED BY <1>2, <1>3

\* What changes when task t of component c calls the library first.
Starts(t, c, w) ==
    /\ todo[t] = <<>> /\ pending[t] = <<>> /\ pending'[t] = <<>> /\ todo'[t] = w.a /\ cur'[t] = w.cur
    /\ \A o \in Task \ {t} : todo'[o] = todo[o] /\ cur'[o] = cur[o]
    /\ \A o \in Task : ierr'[o] = IF Over(o, c) THEN "ok" ELSE ierr[o]
    /\ \A o \in CompTasks \ {t} : pending'[o] = IF o \in CompTask(c) THEN Append(pending[o], w.item) ELSE pending[o]
    /\ UNCHANGED <<chan, tables, next_id, eh, loop, open, made>>

LEMMA CompAtStarts ==
    ASSUME NEW c \in Component, NEW t \in CompTask(c), NEW w, Starts(t, c, w),
           NEW d \in Component, NEW o \in CompTask(d), o # t, NEW v, CompAt(o, d, v), d = c => Sq(pending[o])
    PROVE  CompAt(o, d, v)'
<1>1. o \in Task /\ o \in CompTasks /\ o \notin IOTask /\ o[1] = d /\ (o \in CompTask(c) <=> d = c)
  BY TaskKinds
<1>2. todo'[o] = todo[o] /\ cur'[o] = cur[o] /\ UNCHANGED <<chan, tables, next_id, eh, loop, open, made>>
  BY <1>1 DEF Starts
<1>3. todo'[o] # <<>> \/ pending'[o] = <<>> => ierr'[o] = v.ierr
  <2>1. CASE d = c
    <3>1. pending'[o] # <<>>
      <4>1. pending'[o] = Append(pending[o], w.item)
        BY <1>1, <2>1 DEF Starts
      <4>2. Sq(pending[o])
        BY <2>1
      <4> QED BY <4>1, <4>2, SqAppend
    <3>2. todo[o] # <<>> => ierr'[o] = ierr[o]
      BY <1>1 DEF Starts, Over
    <3> QED BY <1>2, <3>1, <3>2 DEF CompAt
  <2>2. CASE d # c
    <3>1. ierr'[o] = ierr[o] /\ pending'[o] = pending[o]
      BY <1>1, <2>2 DEF Starts, Over
    <3> QED BY <1>2, <3>1 DEF CompAt
  <2> QED BY <2>1, <2>2
<1>4. Tokens(o, v)'
  BY <1>2 DEF CompAt, Tokens
<1> QED BY <1>2, <1>3, <1>4 DEF CompAt

LEMMA IOAtStarts ==
    ASSUME NEW c \in Component, NEW t \in CompTask(c), NEW w, Starts(t, c, w),
           NEW d \in Component, NEW o \in IOTask, NEW v, NEW b, NEW b2, IOAt(o, d, v, b),
           IF d = c THEN v.n["begin"] # b2 ELSE b2 = b
    PROVE  IOAt(o, d, v, b2)'
<1>1. o \in Task /\ o # t
  BY TaskKinds
<1>2. todo'[o] = todo[o] /\ cur'[o] = cur[o] /\ UNCHANGED <<chan, tables, next_id, eh, loop, open, made>>
  BY <1>1 DEF Starts
<1>3. d # c /\ loop[o].c = d => ierr'[o] = ierr[o]
  BY <1>1 DEF Starts, Over
<1>4. loop[o].at # "top" => ierr'[o] = ierr[o]
  BY <1>1 DEF Starts, Over
<1>5. (Serves(o, d)' <=> Serves(o, d)) /\ (Tokens(o, v) => Tokens(o, v)')
  BY <1>2 DEF Serves, Tokens
<1>6. /\ {e \in tables'[o] : e.c = d} = v.tbl /\ made'[o][d] = v.made /\ eh'[o][d] = v.eh /\ (d \in open'[o] <=> v.open)
  BY <1>2 DEF IOAt
<1>7. ~Serves(o, d) => Idle(v) /\ (loop'[o].c = d /\ v.n["begin"] = b2 => ierr'[o] = v.ierr)
  BY <1>2, <1>3 DEF IOAt
<1>8. /\ Serves(o, d) => cur'[o] = v.io
      /\ Serves(o, d) /\ loop'[o].at = "handler" =>
           v.ph # "in" /\ loop'[o].msg = v.msg /\ loop'[o].f = v.f /\ loop'[o].got = v.got
      /\ Serves(o, d) /\ loop'[o].at = "call" =>
           v.ph # "args" /\ todo'[o] = v.b /\ ierr'[o] = v.ierr /\ Tokens(o, v)'
  BY <1>2, <1>4, <1>5 DEF IOAt
<1> QED BY <1>5, <1>6, <1>7, <1>8 DEF IOAt

LEMMA BoxesStart ==
    ASSUME NEW c \in Component, NEW t \in CompTask(c), NEW V, NEW N, NEW p, LogOK(c, V, N), Boxes(c, V, N, p),
           \A o \in Members(c) : p[o] \in 1..N, p[t] = N,
           NEW w, BeginStep(V[N], w), VStep(c, V[N], w), Starts(t, c, w)
    PROVE  Boxes(c, Ext(V, N, w), N + 1, To(c, p, t, N + 1))'
<1> DEFINE W == Ext(V, N, w)
           K == N + 1
           q == To(c, p, t, K)
<1>1. /\ N \in Nat \ {0} /\ N \in 1..N /\ K \in 1..K /\ t \in Members(c)
      /\ W[K] = w /\ \A i \in 1..N : W[i] = V[i]
  BY LogAt, ExtAt, TaskKinds
<1>2. q[t] = K /\ \A o \in Members(c) \ {t} : q[o] = p[o]
  BY <1>1, ToAt
<1>3. w.kind = "begin" /\ \A x \in Kinds : w.n[x] = V[N].n[x] + (IF x = "begin" THEN 1 ELSE 0)
  BY DEF BeginStep, Counts
<1>4. SUFFICES ASSUME NEW k \in Kinds, NEW o \in Readers(c, k) PROVE Holds(Box(o, c, k)', W, K, W[q[o]].n[k], k)
  BY DEF Boxes
<1>5. o \in Members(c) /\ p[o] \in 1..N /\ V[p[o]].n[k] \in Nat /\ V[p[o]].n[k] <= V[N].n[k] /\ V[N].n[k] \in Nat
  BY <1>1, ReadersIn, LogAt
<1>6. Holds(Box(o, c, k), V, N, V[p[o]].n[k], k)
  BY DEF Boxes
<1>7. /\ k # "begin" => Holds(Box(o, c, k), W, K, V[p[o]].n[k], k)
      /\ k = "begin" => Holds(Append(Box(o, c, k), w.item), W, K, V[p[o]].n[k], k)
  BY <1>3, <1>5, <1>6, HoldsGrows
<1>8. LogOK(c, V, N) /\ chan' = chan
  BY DEF Starts
<1>9. CASE k # "begin"
  <2>1. W[q[o]].n[k] = V[p[o]].n[k]
    <3>1. CASE o = t
      BY <1>1, <1>2, <1>3, <1>5, <1>9, <3>1
    <3>2. CASE o # t
      BY <1>1, <1>2, <1>5, <3>2
    <3> QED BY <3>1, <3>2
  <2>2. Box(o, c, k)' = Box(o, c, k)
    BY <1>8, <1>9, BoxIs, BoxWillBe DEF Kinds
  <2> QED BY <1>7, <1>9, <2>1, <2>2
<1>10. CASE k = "begin" /\ o # t
  <2>1. W[q[o]].n[k] = V[p[o]].n[k]
    BY <1>1, <1>2, <1>5, <1>10
  <2>2. o \in CompTask(c) /\ o \in CompTasks
    BY <1>10, TaskKinds DEF Readers
  <2>3. Box(o, c, k)' = Append(Box(o, c, k), w.item)
    <3>1. pending'[o] = Append(pending[o], w.item)
      BY <1>10, <2>2 DEF Starts
    <3> QED BY <1>10, <3>1, BoxIs, BoxWillBe
  <2> QED BY <1>7, <1>10, <2>1, <2>3
<1>11. CASE k = "begin" /\ o = t
  <2>1. Box(o, c, k)' = <<>>
    BY <1>11, BoxWillBe DEF Starts
  <2>2. Holds(<<>>, W, K, V[N].n[k] + 1, k)
    <3>1. Holds(<<>>, V, N, V[N].n[k], k)
      BY HoldsNothing
    <3>2. Holds(Append(<<>>, w.item), W, K, V[N].n[k], k)
      BY <1>3, <1>5, <1>11, <3>1, HoldsGrows
    <3>3. \A j \in 1..K : W[j].n[k] > V[N].n[k] + 1 => FALSE
      <4>1. \A j \in 1..N : V[j].n[k] <= V[N].n[k] /\ V[j].n[k] \in Nat
        BY LogAt
      <4>2. w.n[k] = V[N].n[k] + 1
        BY <1>3, <1>11
      <4> HIDE DEF W, K
      <4>3. \A j \in 1..K : j \in 1..N \/ j = K
        BY <1>1 DEF K
      <4> QED BY <1>1, <1>5, <4>1, <4>2, <4>3
    <3>4. W[K].n[k] = V[N].n[k] + 1
      BY <1>1, <1>3, <1>11
    <3> QED BY <1>5, <3>3, <3>4, SqEmpty DEF Holds
  <2>3. W[q[o]].n[k] = V[N].n[k] + 1
    BY <1>1, <1>2, <1>3, <1>11
  <2> QED BY <2>1, <2>2, <2>3
<1> QED BY <1>9, <1>10, <1>11

LEMMA FollowsStarts ==
    ASSUME CallsAgree, NEW c \in Component, NEW t \in CompTask(c), NEW V, NEW N, NEW p, Follows(c, V, N, p), p[t] = N,
           NEW w, BeginStep(V[N], w), VStep(c, V[N], w), Starts(t, c, w), CompAt(t, c, w)'
    PROVE  Follows(c, Ext(V, N, w), N + 1, To(c, p, t, N + 1))'
<1> DEFINE W == Ext(V, N, w)
           K == N + 1
           q == To(c, p, t, K)
<1>1. /\ LogOK(c, V, N) /\ Boxes(c, V, N, p) /\ TasksAt(c, V, N, p)
      /\ \A o \in Members(c) : p[o] \in 1..N
  BY DEF Follows, TasksAt
<1>2. LogOK(c, W, K)
  BY <1>1, LogGrows
<1>3. Boxes(c, W, K, q)'
  BY <1>1, BoxesStart
<1>4. /\ N \in Nat \ {0} /\ N \in 1..N /\ K \in 1..K /\ t \in Members(c)
      /\ W[K] = w /\ \A i \in 1..N : W[i] = V[i] /\ i \in 1..K
  BY <1>1, LogAt, ExtAt, TaskKinds
<1>5. q[t] = K /\ \A o \in Members(c) \ {t} : q[o] = p[o]
  BY <1>4, ToAt
<1> HIDE DEF W, K, q
<1>6. ASSUME NEW o \in CompTask(c) PROVE CompAt(o, c, W[q[o]])'
  <2>1. CASE o = t
    BY <1>4, <1>5, <2>1
  <2>2. CASE o # t
    <3>1. o \in Members(c) /\ W[q[o]] = V[p[o]] /\ CompAt(o, c, V[p[o]])
      BY <1>1, <1>4, <1>5, <2>2, TaskKinds DEF TasksAt
    <3>2. Sq(pending[o])
      <4>1. "begin" \in Kinds /\ o \in Readers(c, "begin")
        BY DEF Kinds, Readers
      <4>2. Holds(Box(o, c, "begin"), V, N, V[p[o]].n["begin"], "begin")
        BY <1>1, <4>1 DEF Boxes
      <4> QED BY <4>2, BoxIs DEF Holds
    <3>3. CompAt(o, c, V[p[o]])'
      BY <2>2, <3>1, <3>2, CompAtStarts
    <3> QED BY <3>1, <3>3
  <2> QED BY <2>1, <2>2
<1>7. ASSUME NEW o \in IOTask PROVE IOAt(o, c, W[q[o]], W[K].n["begin"])'
  <2>1. o \in Members(c) /\ o # t
    BY TaskKinds
  <2>2. W[q[o]] = V[p[o]] /\ IOAt(o, c, V[p[o]], V[N].n["begin"])
    BY <1>1, <1>4, <1>5, <2>1 DEF TasksAt
  <2>3. V[p[o]].n["begin"] # W[K].n["begin"]
    <3>1. "begin" \in Kinds
      BY DEF Kinds
    <3>2. V[p[o]].n["begin"] <= V[N].n["begin"] /\ V[p[o]].n["begin"] \in Nat /\ V[N].n["begin"] \in Nat
      BY <1>1, <2>1, <3>1, LogAt
    <3>3. w.n["begin"] = V[N].n["begin"] + 1
      BY <3>1 DEF BeginStep, Counts
    <3> QED BY <1>4, <3>2, <3>3
  <2>4. IOAt(o, c, V[p[o]], W[K].n["begin"])'
    BY <2>2, <2>3, IOAtStarts
  <2> QED BY <2>2, <2>4
<1>8. TasksAt(c, W, K, q)'
  <2>1. \A o \in Members(c) : q[o] \in 1..K
    BY <1>1, <1>4, <1>5
  <2> QED BY <1>6, <1>7, <2>1 DEF TasksAt
<1>9. Follows(c, W, K, q)'
  BY <1>2, <1>3, <1>8 DEF Follows
<1> QED BY <1>9 DEF W, K, q

LEMMA OthersStart ==
    ASSUME NEW c \in Component, NEW t \in CompTask(c), NEW w, Starts(t, c, w),
           NEW d \in Component, d # c, NEW V, NEW N, NEW p, Follows(d, V, N, p)
    PROVE  Follows(d, V, N, p)'
<1>1. LogOK(d, V, N) /\ Boxes(d, V, N, p) /\ TasksAt(d, V, N, p)
  BY DEF Follows
<1>2. ASSUME NEW k \in Kinds, NEW o \in Readers(d, k) PROVE Box(o, d, k)' = Box(o, d, k)
  <2>1. chan' = chan
    BY DEF Starts
  <2>2. CASE k # "begin"
    BY <2>1, <2>2, BoxIs, BoxWillBe DEF Kinds
  <2>3. CASE k = "begin"
    <3>1. o \in CompTask(d) /\ o \in CompTasks /\ o \notin CompTask(c) /\ o # t
      BY <2>3, TaskKinds DEF Readers
    <3>2. pending'[o] = pending[o]
      BY <3>1 DEF Starts
    <3> QED BY <2>3, <3>2, BoxIs, BoxWillBe
  <2> QED BY <2>2, <2>3
<1>3. Boxes(d, V, N, p)'
  BY <1>1, <1>2 DEF Boxes
<1>4. ASSUME NEW o \in CompTask(d) PROVE CompAt(o, d, V[p[o]])'
  <2>1. o # t /\ CompAt(o, d, V[p[o]])
    BY <1>1, TaskKinds DEF TasksAt
  <2> QED BY <2>1, CompAtStarts
<1>5. ASSUME NEW o \in IOTask PROVE IOAt(o, d, V[p[o]], V[N].n["begin"])'
  BY <1>1, IOAtStarts DEF TasksAt
<1> QED BY <1>1, <1>3, <1>4, <1>5 DEF Follows, TasksAt

LEMMA LoopsStart ==
    ASSUME NEW c \in Component, NEW t \in CompTask(c), NEW w, Starts(t, c, w),
           NEW V, NEW N, NEW p, NEW G, NEW M, NEW g, \A d \in Component : Follows(d, V[d], N[d], p[d]),
           LoopLog(V, N, G, M), LoopsAt(V, p, G, M, g), BeginStep(V[c][N[c]], w), VStep(c, V[c][N[c]], w),
           CallsAgree, NEW W, Ext(V[c], N[c], w) = W, NEW K, N[c] + 1 = K
    PROVE  LoopLog(Put(V, c, W), Put(N, c, K), G, M)' /\ LoopsAt(Put(V, c, W), Put(p, c, To(c, p[c], t, K)), G, M, g)'
<1>1. /\ \A d \in Component : LogOK(d, V[d], N[d])
      /\ \A o \in Members(c) : p[c][o] \in 1..N[c]
  BY DEF Follows, TasksAt
<1>2. N[c] \in Nat \ {0} /\ W[K] = w /\ \A i \in 1..N[c] : W[i] = V[c][i]
  BY <1>1, LogAt, ExtAt
<1>3. Longer(c, V[c], N[c], W, K)
  BY <1>1, <1>2, LogGrows DEF Longer
<1>4. UNCHANGED <<chan, loop>>
  BY DEF Starts
<1>5. Elsewhere(c)
  <2>1. ASSUME NEW d \in Component \ {c}, NEW k \in Kinds, NEW o \in Readers(d, k) PROVE Box(o, d, k)' = Box(o, d, k)
    <3>1. CASE k # "begin"
      BY <1>4, <3>1, BoxIs, BoxWillBe DEF Kinds
    <3>2. CASE k = "begin"
      <4>1. o \in CompTask(d) /\ o \in CompTasks /\ o \notin CompTask(c) /\ o # t
        BY <3>2, TaskKinds DEF Readers
      <4>2. pending'[o] = pending[o]
        BY <4>1 DEF Starts
      <4> QED BY <3>2, <4>2, BoxIs, BoxWillBe
    <3> QED BY <3>1, <3>2
  <2> QED BY <1>4, <2>1 DEF Elsewhere
<1>6. Holds(chan'[MsgLink(c)], W, K, G[M].served[c], "msg")
  <2>1. Holds(chan[MsgLink(c)], V[c], N[c], G[M].served[c], "msg") /\ M \in 1..M
    BY DEF LoopLog
  <2>2. G[M].served[c] \in Nat
    BY <2>1 DEF LoopLog
  <2>3. "msg" \in Kinds /\ w.kind # "msg"
    BY DEF Kinds, BeginStep, Counts
  <2>4. G[M].served[c] <= V[c][N[c]].n["msg"]
    BY <1>1, <2>1, <2>2, <2>3, HoldsLen
  <2> QED BY <1>1, <1>4, <2>1, <2>2, <2>3, <2>4, HoldsGrows
<1>7. LoopLog(Put(V, c, W), Put(N, c, K), G, M)'
  BY <1>1, <1>3, <1>5, <1>6, LoopLogStays
<1> DEFINE V2 == Put(V, c, W)
           p2 == Put(p, c, To(c, p[c], t, K))
<1>8. t \in Members(c) /\ t \notin IOTask
  BY TaskKinds
<1>9. ASSUME NEW o \in IOTask, NEW d \in Component PROVE V2[d][p2[d][o]] = V[d][p[d][o]]
  <2>1. CASE d # c
    BY <2>1, PutAt
  <2>2. CASE d = c
    <3>1. V2[c] = W /\ p2[c] = To(c, p[c], t, K)
      BY PutAt
    <3>2. o \in Members(c) \ {t}
      BY <1>8, TaskKinds
    <3>3. To(c, p[c], t, K)[o] = p[c][o]
      BY <1>8, <3>2, ToAt
    <3> QED BY <1>1, <1>2, <2>2, <3>1, <3>2, <3>3
  <2> QED BY <2>1, <2>2
<1> HIDE DEF V2, p2
<1>10. ASSUME NEW o \in IOTask, NEW r, LoopAt(o, loop[o], r) PROVE LoopAt(o, loop[o], r)'
  <2>1. todo'[o] = todo[o] /\ cur'[o] = cur[o]
    BY <1>8, TaskKinds DEF Starts
  <2> QED BY <1>4, <1>10, <2>1 DEF LoopAt
<1>11. LoopsAt(V2, p2, G, M, g)'
  BY <1>4, <1>9, <1>10 DEF LoopsAt
<1> QED BY <1>7, <1>11 DEF V2, p2

LEMMA StartGoes ==
    ASSUME CallsAgree, NEW V, NEW N, NEW p, NEW G, NEW M, NEW g, Explained(V, N, p, G, M, g), Shaped',
           NEW c \in Component, NEW t \in CompTask(c), p[c][t] = N[c],
           NEW w, BeginStep(V[c][N[c]], w), Starts(t, c, w), CompAt(t, c, w)'
    PROVE  \E V2, N2, p2 : Explained(V2, N2, p2, G, M, g)'
<1>0. SUFFICES ASSUME NEW W, Ext(V[c], N[c], w) = W, NEW K, K = N[c] + 1 PROVE \E V2, N2, p2 : Explained(V2, N2, p2, G, M, g)'
  OBVIOUS
<1> DEFINE V2 == Put(V, c, W)
           N2 == Put(N, c, K)
           p2 == Put(p, c, To(c, p[c], t, K))
<1>1. /\ \A d \in Component : Follows(d, V[d], N[d], p[d])
      /\ LoopLog(V, N, G, M) /\ LoopsAt(V, p, G, M, g) /\ Numbers(V, N, p)
  BY DEF Explained
<1>2. VStep(c, V[c][N[c]], w) /\ t \in Members(c) /\ t \notin IOTask /\ t # ioroot
  BY TaskKinds DEF VStep
<1>3. LoopLog(V2, N2, G, M)' /\ LoopsAt(V2, p2, G, M, g)'
  BY <1>0, <1>1, <1>2, LoopsStart
<1>4. ASSUME NEW d \in Component PROVE Follows(d, V2[d], N2[d], p2[d])'
  <2>1. CASE d = c
    <3>1. V2[c] = W /\ N2[c] = K /\ p2[c] = To(c, p[c], t, K)
      BY PutAt
    <3>2. Follows(c, W, K, To(c, p[c], t, K))'
      BY <1>0, <1>1, <1>2, FollowsStarts
    <3> HIDE DEF V2, N2, p2
    <3> QED BY <2>1, <3>1, <3>2
  <2>2. CASE d # c
    <3>1. V2[d] = V[d] /\ N2[d] = N[d] /\ p2[d] = p[d]
      BY <2>2, PutAt
    <3>2. Follows(d, V[d], N[d], p[d])'
      BY <1>1, <2>2, OthersStart
    <3> HIDE DEF V2, N2, p2
    <3> QED BY <3>1, <3>2
  <2> QED BY <2>1, <2>2
<1>5. Numbers(V2, N2, p2)'
  <2>1. /\ N[c] \in Nat \ {0} /\ W[K] = w /\ (\A i \in 1..N[c] : W[i] = V[c][i]) /\ N[c] \in 1..N[c]
        /\ \A o \in Members(c) : p[c][o] \in 1..N[c]
    <3>1. LogOK(c, V[c], N[c]) /\ \A o \in Members(c) : p[c][o] \in 1..N[c]
      BY <1>1 DEF Follows, TasksAt
    <3> QED BY <1>0, <3>1, LogAt, ExtAt
  <2>2. W[K].all = V[c][N[c]].all
    BY <2>1 DEF BeginStep
  <2>3. \A o \in Members(c) \ {t} : W[p[c][o]] = V[c][p[c][o]]
    BY <2>1
  <2>4. next_id'[ioroot] = next_id[ioroot]
    BY DEF Starts
  <2> QED BY <1>1, <1>2, <2>2, <2>3, <2>4, NumbersStay
<1> HIDE DEF V2, N2, p2
<1>6. Explained(V2, N2, p2, G, M, g)'
  BY <1>3, <1>4, <1>5 DEF Explained
<1> QED BY <1>6

Calling(t, c, call, x) ==
    /\ MayCall(t, call)
    /\ Start(t, call, x)
    /\ ierr' = [o \in Task |-> IF Over(o, c) THEN "ok" ELSE ierr[o]]
    /\ pending' = [o \in CompTasks |-> IF o \in CompTask(c) \ {t}
                                       THEN Append(pending[o], <<call, x>>) ELSE pending[o]]

LEMMA BeginGoes ==
    ASSUME CallsAgree, InnerErrors = FALSE, NEW V, NEW N, NEW p, NEW G, NEW M, NEW g, Explained(V, N, p, G, M, g),
           NEW t \in CompTasks, Begin(t)
    PROVE  \E V2, N2, p2 : Explained(V2, N2, p2, G, M, g)'
<1>0. SUFFICES ASSUME NEW c, t[1] = c, NEW v, v = V[c][p[c][t]] PROVE \E V2, N2, p2 : Explained(V2, N2, p2, G, M, g)'
  OBVIOUS
<1>1. todo[t] = <<>> /\ pending[t] = <<>> /\ c \in open[t]
  BY <1>0 DEF Begin
<1>2. PICK call \in Calls : \E x \in ArgsOf(t, call) : Calling(t, c, call, x)
  BY <1>0 DEF Begin, Calling
<1>2a. PICK x \in ArgsOf(t, call) :
           /\ MayCall(t, call)
           /\ Start(t, call, x)
           /\ ierr' = [o \in Task |-> IF Over(o, c) THEN "ok" ELSE ierr[o]]
           /\ pending' = [o \in CompTasks |-> IF o \in CompTask(c) \ {t}
                                              THEN Append(pending[o], <<call, x>>) ELSE pending[o]]
  BY <1>2 DEF Calling
<1>3. /\ c \in Component /\ t \in CompTask(c) /\ t \in Members(c) /\ t \in Task /\ t \notin IOTask
      /\ CompAt(t, c, v) /\ v.a = <<>> /\ Shaped /\ OK(c, v)
  BY <1>0, <1>1, BetweenCalls
<1>4. p[c][t] = N[c]
  BY <1>0, <1>1, NothingPending
<1>5. IsArgs(x) /\ x.file \in {0} \cup Ids(t, "file") /\ x.decomp \in {0} \cup Ids(t, "decomp")
  BY <1>2a DEF ArgsOf, IsArgs
<1>6. Ids(t, "file") \subseteq IdsIn(v.tbl, "file") /\ Ids(t, "decomp") \subseteq IdsIn(v.tbl, "decomp")
  <2>1. tables[t] = v.tbl
    BY <1>3 DEF CompAt
  <2> QED BY <2>1 DEF Ids, Entries, IdsIn
<1>7. v.open /\ (v.eh = "BCAST" => ~Inner(call))
  <2>1. eh[t][c] = v.eh /\ v.open
    BY <1>1, <1>3 DEF CompAt, OK, Shape
  <2> QED BY <1>0, <1>2a, <2>1 DEF MayCall
<1>8. PICK w : BeginStep(v, w) /\ w.item = <<call, x>> /\ w.a = CompSteps(call) /\ w.cur = x
  <2>1. x.file \in {0} \cup IdsIn(v.tbl, "file") /\ x.decomp \in {0} \cup IdsIn(v.tbl, "decomp")
    BY <1>5, <1>6
  <2>2. v.a = <<>> /\ v.open /\ (v.eh = "BCAST" => ~Inner(call)) /\ IsArgs(x)
    BY <1>3, <1>5, <1>7
  <2> QED BY <2>1, <2>2, BegunIs
<1>9. /\ todo' = [todo EXCEPT ![t] = w.a] /\ cur' = [cur EXCEPT ![t] = w.cur]
      /\ UNCHANGED <<chan, tables, next_id, eh, loop, open, made>>
  BY <1>2a, <1>8 DEF Start
<1>10. /\ todo = [o \in Task |-> todo[o]] /\ ierr = [o \in Task |-> ierr[o]] /\ cur = [o \in Task |-> cur[o]]
       /\ pending = [o \in CompTasks |-> pending[o]]
  BY <1>3 DEF Shaped
<1>11. Shaped'
  <2>1. /\ todo' = [o \in Task |-> todo'[o]] /\ cur' = [o \in Task |-> cur'[o]]
    BY <1>9, <1>10
  <2>2. /\ ierr' = [o \in Task |-> ierr'[o]] /\ pending' = [o \in CompTasks |-> pending'[o]]
    BY <1>2a
  <2> QED BY <1>3, <1>9, <2>1, <2>2 DEF Shaped
<1>12. todo'[t] = w.a /\ cur'[t] = w.cur /\ \A o \in Task \ {t} : todo'[o] = todo[o] /\ cur'[o] = cur[o]
  BY <1>3, <1>9, <1>10
<1>13. pending'[t] = <<>> /\ \A o \in CompTasks \ {t} : pending'[o] = IF o \in CompTask(c) THEN Append(pending[o], w.item) ELSE pending[o]
  BY <1>1, <1>2a, <1>8
<1>14. \A o \in Task : ierr'[o] = IF Over(o, c) THEN "ok" ELSE ierr[o]
  BY <1>2a
<1>15. Starts(t, c, w)
  BY <1>1, <1>9, <1>12, <1>13, <1>14 DEF Starts
<1>16. CompAt(t, c, w)'
  <2>1. ierr'[t] = "ok"
    <3>1. Over(t, c)
      BY <1>0, <1>1, <1>3 DEF Over
    <3> QED BY <1>3, <1>14, <3>1
  <2>2. /\ w.ierr = "ok" /\ w.ph = v.ph /\ w.have = v.have
        /\ w.nid = v.nid /\ w.tbl = v.tbl /\ w.made = v.made /\ w.open = v.open /\ w.eh = v.eh
    BY <1>8 DEF BeginStep
  <2>3. Tokens(t, w)'
    BY <1>3, <1>9, <2>2 DEF CompAt, Tokens
  <2> QED BY <1>3, <1>9, <1>12, <2>1, <2>2, <2>3 DEF CompAt
<1> QED BY <1>0, <1>3, <1>4, <1>8, <1>11, <1>15, <1>16, StartGoes

-----------------------------------------------------------------------------
(***************************************************************************)
(* Messages come to the I/O tasks.                                         *)
(***************************************************************************)
\* An I/O task that is not serving a call.
WaitsOn(t, d, V, N, p) ==
    /\ LogOK(d, V[d], N[d]) /\ p[d][t] \in 1..N[d] /\ t \in Members(d)
    /\ LET u == V[d][p[d][t]] IN OK(d, u) /\ Idle(u) /\ u.n["msg"] \in Nat /\ u.have = {}

LEMMA Waiting ==
    ASSUME NEW V, NEW N, NEW p, NEW G, NEW M, NEW g, Explained(V, N, p, G, M, g), NEW t \in IOTask,
           loop[t].at = "top" \/ loop[t].at = "request", NEW d \in Component
    PROVE  WaitsOn(t, d, V, N, p) /\ V[d][p[d][t]].n["msg"] = G[g[t]].served[d]
<1>0. SUFFICES ASSUME NEW u, V[d][p[d][t]] = u PROVE WaitsOn(t, d, V, N, p) /\ u.n["msg"] = G[g[t]].served[d]
  OBVIOUS
<1>1. /\ LogOK(d, V[d], N[d]) /\ Follows(d, V[d], N[d], p[d]) /\ p[d][t] \in 1..N[d] /\ t \in Members(d)
      /\ IOAt(t, d, u, V[d][N[d]].n["begin"])
  BY <1>0, TaskKinds DEF Explained, Follows, TasksAt
<1>2. OK(d, u)
  BY <1>0, <1>1 DEF LogOK
<1>3. Idle(u)
  BY <1>1 DEF IOAt, Serves
<1>4. u.n["msg"] = G[g[t]].served[d]
  BY <1>0 DEF Explained, LoopsAt
<1>5. u.n["msg"] \in Nat /\ u.have = {}
  BY <1>2, <1>3 DEF OK, Shape, Kinds, Knows
<1> QED BY <1>0, <1>1, <1>2, <1>3, <1>4, <1>5 DEF WaitsOn

\* What the I/O tasks do with a message begins like this.
Fetched(t, c, u, w) ==
    /\ w.ph # "in" /\ w.f = {} /\ w.got = 0 /\ w.io = NoArgs /\ w.msg = w.item.x
    /\ w.tbl = u.tbl /\ w.made = u.made /\ w.eh = u.eh /\ w.open = u.open
    /\ \A k \in Kinds : t \in Readers(c, k) => w.n[k] = u.n[k]
    /\ w.n["msg"] = u.n["msg"] + 1 /\ w.all = u.all

LEMMA MessageAt ==
    ASSUME NEW V, NEW N, NEW p, NEW t \in IOTask, NEW c \in Component, NEW u, V[c][p[c][t]] = u,
           WaitsOn(t, c, V, N, p), NEW j \in 1..N[c], V[c][j].kind = "msg", V[c][j].n["msg"] = u.n["msg"] + 1
    PROVE  Fetched(t, c, u, V[c][j])
<1>0. SUFFICES ASSUME NEW w, V[c][j] = w, NEW i, p[c][t] = i PROVE Fetched(t, c, u, w)
  OBVIOUS
<1>1. /\ LogOK(c, V[c], N[c]) /\ i \in 1..N[c] /\ t \in Members(c) /\ OK(c, u) /\ Idle(u) /\ u.n["msg"] \in Nat
      /\ u.have = {} /\ N[c] \in Nat
  <2>1. /\ LogOK(c, V[c], N[c]) /\ i \in 1..N[c] /\ t \in Members(c) /\ OK(c, u) /\ Idle(u) /\ u.n["msg"] \in Nat
        /\ u.have = {}
    BY <1>0 DEF WaitsOn
  <2> QED BY <2>1, LogAt
<1>2. j > i
  <2> SUFFICES ASSUME j <= i PROVE FALSE
    BY <1>1
  <2>1. V[c][j].n["msg"] <= V[c][i].n["msg"]
    BY <1>1, LogAt DEF Kinds
  <2> QED BY <1>0, <1>1, <2>1
<1>3. PICK h \in 1..(N[c] - 1) : h + 1 = j /\ i <= h /\ h \in 1..N[c]
  <2>1. j - 1 \in 1..(N[c] - 1) /\ (j - 1) + 1 = j /\ i <= j - 1 /\ j - 1 \in 1..N[c]
    BY <1>1, <1>2
  <2> QED BY <2>1
<1> DEFINE v == V[c][h]
<1>4. OK(c, v) /\ VStep(c, v, w) /\ R(u, v) /\ R(u, w)
  <2>1. VStep(c, V[c][h], V[c][h + 1])
    BY <1>1, <1>3 DEF LogOK
  <2>2. i <= j
    BY <1>1, <1>3
  <2> QED BY <1>0, <1>1, <1>3, <2>1, <2>2, LogAt
<1> HIDE DEF v
<1>5. MsgStep(v, w)
  BY <1>0, <1>4, StepKinds
<1>6. w.n["msg"] = v.n["msg"] + 1 /\ v.n["msg"] \in Nat /\ \A k \in Kinds : k # "msg" => w.n[k] = v.n[k]
  <2>1. \A x \in Kinds : v.n[x] \in Nat
    BY <1>4 DEF OK, Shape
  <2> QED BY <1>5, <2>1 DEF MsgStep, Counts, Kinds
<1>7. u.n["msg"] = v.n["msg"]
  BY <1>0, <1>1, <1>6
<1>8. /\ v.tbl = u.tbl /\ v.eh = u.eh /\ v.made = u.made /\ v.open = u.open
      /\ v.n["arg"] = u.n["arg"] /\ v.n["comp"] = u.n["comp"] /\ v.n["io"] = u.n["io"]
  BY <1>1, <1>4, <1>7 DEF R, Missed
<1>9. w.all = u.all
  <2>1. w.n["io"] = u.n["io"]
    BY <1>6, <1>8 DEF Kinds
  <2>2. \A e \in w.all : e \in u.all
    BY <1>1, <1>4, <2>1 DEF R, Numbered
  <2>3. \A e \in u.all : e \in w.all
    BY <1>4 DEF R, Later
  <2> QED BY <2>2, <2>3
<1>10. \A k \in Kinds : t \in Readers(c, k) => k \in {"arg", "comp", "io"}
  BY TaskKinds DEF Readers, Kinds
<1>11. \A k \in Kinds : t \in Readers(c, k) => w.n[k] = u.n[k]
  BY <1>6, <1>8, <1>10
<1>12. /\ w.f = {} /\ w.got = 0 /\ w.io = NoArgs /\ w.msg = w.item.x
       /\ w.tbl = v.tbl /\ w.made = v.made /\ w.eh = v.eh /\ w.open = v.open /\ w.ph # "in"
  BY <1>5 DEF MsgStep, Keeps, Item, Enters
<1> QED BY <1>0, <1>8, <1>9, <1>11, <1>12 DEF Fetched

\* Entry i + 1 of the loop's log is a request about state j of component c.
RequestIs(t, V, p, G, i, c, j) ==
    /\ G[i + 1].val = <<c, V[c][j].msg>> /\ Fetched(t, c, V[c][p[c][t]], V[c][j])
    /\ V[c][j].n["msg"] = G[i + 1].served[c]
    /\ G[i].rem = G[i + 1].rem + 1 /\ G[i + 1].rem \in Nat
    /\ \A d \in Component \ {c} : G[i + 1].served[d] = G[i].served[d]

LEMMA RequestAt ==
    ASSUME NEW V, NEW N, NEW p, NEW G, NEW M, NEW g, Explained(V, N, p, G, M, g), NEW t \in IOTask,
           loop[t].at = "request", NEW i, g[t] = i, i < M
    PROVE  \E c \in Component : \E j \in 1..N[c] : RequestIs(t, V, p, G, i, c, j)
<1>1. /\ M \in Nat \ {0} /\ i \in 1..(M - 1) /\ i + 1 \in 1..M /\ i \in 1..M
      /\ LoopAt(t, loop[t], G[i].rem) /\ LoopLog(V, N, G, M)
  <2>1. /\ g[t] \in 1..g[ioroot] /\ M \in Nat \ {0} /\ LoopLog(V, N, G, M) /\ LoopAt(t, loop[t], G[g[t]].rem)
    BY DEF Explained, LoopsAt, LoopLog
  <2> QED BY <2>1
<1>2. G[i].rem # 0
  BY <1>1 DEF LoopAt
<1>3. Requested(G, i, V, N)
  BY <1>1, <1>2 DEF LoopLog, Counted
<1>4. PICK c \in Component :
        /\ G[i].rem = G[i + 1].rem + 1 /\ G[i + 1].val[1] = c /\ G[i + 1].val = <<c, G[i + 1].val[2]>>
        /\ \A d \in Component : G[i + 1].served[d] = G[i].served[d] + (IF d = c THEN 1 ELSE 0)
        /\ G[i + 1].served[c] <= V[c][N[c]].n["msg"]
        /\ \A j \in 1..N[c] : V[c][j].kind = "msg" /\ V[c][j].n["msg"] = G[i + 1].served[c] =>
                               V[c][j].item.x = G[i + 1].val[2]
  BY <1>3 DEF Requested
<1>5. /\ LogOK(c, V[c], N[c]) /\ V[c][p[c][t]].n["msg"] = G[i].served[c] /\ G[i].served[c] \in Nat
      /\ WaitsOn(t, c, V, N, p)
  <2>1. WaitsOn(t, c, V, N, p) /\ V[c][p[c][t]].n["msg"] = G[g[t]].served[c]
    BY Waiting
  <2> QED BY <2>1 DEF WaitsOn
<1>6. G[i + 1].served[c] = G[i].served[c] + 1
  BY <1>4
<1>7. G[i + 1].served[c] \in 1..V[c][N[c]].n["msg"]
  <2>1. V[c][N[c]].n["msg"] \in Nat
    BY <1>5, LogAt DEF Kinds
  <2> QED BY <1>4, <1>5, <1>6, <2>1
<1>8. PICK j \in 1..N[c] : V[c][j].kind = "msg" /\ V[c][j].n["msg"] = G[i + 1].served[c]
  <2>1. Found(V[c], N[c], "msg")
    BY <1>5 DEF LogOK
  <2> QED BY <1>7, <2>1 DEF Found
<1>9. Fetched(t, c, V[c][p[c][t]], V[c][j])
  BY <1>5, <1>6, <1>8, MessageAt
<1>10. V[c][j].msg = G[i + 1].val[2]
  BY <1>4, <1>8, <1>9 DEF Fetched
<1>11. G[i + 1].val = <<c, V[c][j].msg>>
  BY <1>4, <1>10
<1>12. \A d \in Component \ {c} : G[i + 1].served[d] = G[i].served[d]
  <2>1. \A d \in Component : G[i].served[d] \in Nat
    BY <1>1 DEF LoopLog
  <2> QED BY <1>4, <2>1
<1>13. G[i + 1].rem \in Nat
  BY <1>1 DEF LoopLog
<1>14. RequestIs(t, V, p, G, i, c, j)
  BY <1>4, <1>8, <1>9, <1>11, <1>12, <1>13 DEF RequestIs
<1> QED BY <1>14

\* Only task t moves, and only in the message loop.
Aside(t) ==
    /\ UNCHANGED <<todo, pending, cur, ierr, tables, next_id, eh, open, made>>
    /\ \A o \in IOTask \ {t} : loop'[o] = loop[o]
    /\ \A c \in Component : \A k \in Kinds : \A o \in Readers(c, k) : Box(o, c, k)' = Box(o, c, k)

LEMMA AsideStays ==
    ASSUME NEW t \in IOTask, Aside(t), NEW o, o # t
    PROVE  /\ \A d, v : CompAt(o, d, v) => CompAt(o, d, v)'
           /\ o \in IOTask => /\ \A d, v, b : IOAt(o, d, v, b) => IOAt(o, d, v, b)'
                              /\ \A r : LoopAt(o, loop[o], r) => LoopAt(o, loop[o], r)'
<1>1. UNCHANGED <<todo, pending, cur, ierr, tables, next_id, eh, open, made>> /\ (o \in IOTask => loop'[o] = loop[o])
  BY DEF Aside
<1>2. \A d, v : CompAt(o, d, v) => CompAt(o, d, v)'
  BY <1>1 DEF CompAt, Tokens
<1>3. o \in IOTask => \A d, v, b : IOAt(o, d, v, b) => IOAt(o, d, v, b)'
  BY <1>1 DEF IOAt, Tokens, Serves
<1>4. o \in IOTask => \A r : LoopAt(o, loop[o], r) => LoopAt(o, loop[o], r)'
  BY <1>1 DEF LoopAt
<1> QED BY <1>2, <1>3, <1>4

\* Task t, which was not serving a call, is not serving one of component d now.
LEMMA IdleMoves ==
    ASSUME NEW t \in IOTask, Aside(t), loop[t].at \in {"top", "request"},
           NEW d, NEW v, NEW b, IOAt(t, d, v, b), loop'[t].c # d
    PROVE  IOAt(t, d, v, b)'
<1>1. UNCHANGED <<tables, eh, open, made>>
  BY DEF Aside
<1>2. ~Serves(t, d) /\ ~Serves(t, d)'
  BY DEF Serves
<1>3. /\ {e \in tables'[t] : e.c = d} = v.tbl /\ made'[t][d] = v.made /\ eh'[t][d] = v.eh
      /\ d \in open'[t] <=> v.open
  BY <1>1 DEF IOAt
<1>4. Idle(v)
  BY <1>2 DEF IOAt
<1> QED BY <1>2, <1>3, <1>4 DEF IOAt

\* Task t fetches message w.
LEMMA FetchMoves ==
    ASSUME NEW t \in IOTask, Aside(t), loop[t].at = "request", NEW r, LoopAt(t, loop[t], r),
           NEW c, NEW u, NEW w, NEW b, NEW b2, IOAt(t, c, u, b), Fetched(t, c, u, w),
           loop'[t].at = "handler", loop'[t].c = c, loop'[t].msg = w.msg, loop'[t].f = {}, loop'[t].got = 0
    PROVE  IOAt(t, c, w, b2)'
<1>1. UNCHANGED <<cur, tables, eh, open, made>>
  BY DEF Aside
<1>2. Serves(t, c)'
  BY DEF Serves
<1>3. /\ {e \in tables'[t] : e.c = c} = w.tbl /\ made'[t][c] = w.made /\ eh'[t][c] = w.eh
      /\ c \in open'[t] <=> w.open
  BY <1>1 DEF IOAt, Fetched
<1>4. cur'[t] = w.io /\ w.ph # "in" /\ w.f = {} /\ w.got = 0
  BY <1>1 DEF LoopAt, Fetched
<1> QED BY <1>2, <1>3, <1>4 DEF IOAt

LEMMA FollowsAside ==
    ASSUME NEW t \in IOTask, Aside(t), NEW d \in Component, NEW V, NEW N, NEW p, Follows(d, V, N, p), NEW q,
           \A o \in Members(d) \ {t} : q[o] = p[o], q[t] \in 1..N,
           \A k \in Kinds : t \in Readers(d, k) => V[q[t]].n[k] = V[p[t]].n[k],
           IOAt(t, d, V[q[t]], V[N].n["begin"])'
    PROVE  Follows(d, V, N, q)'
<1>1. LogOK(d, V, N) /\ Boxes(d, V, N, p) /\ TasksAt(d, V, N, p)
  BY DEF Follows
<1>2. ASSUME NEW k \in Kinds, NEW o \in Readers(d, k) PROVE Holds(Box(o, d, k)', V, N, V[q[o]].n[k], k)
  <2>1. o \in Members(d)
    BY ReadersIn
  <2>2. V[q[o]].n[k] = V[p[o]].n[k]
    <3>1. CASE o = t
      BY <3>1
    <3>2. CASE o # t
      BY <2>1, <3>2
    <3> QED BY <3>1, <3>2
  <2>3. Box(o, d, k)' = Box(o, d, k)
    BY DEF Aside
  <2>4. Holds(Box(o, d, k), V, N, V[p[o]].n[k], k)
    BY <1>1 DEF Boxes
  <2> QED BY <2>2, <2>3, <2>4
<1>3. Boxes(d, V, N, q)'
  BY <1>2 DEF Boxes
<1>4. ASSUME NEW o \in Members(d) PROVE q[o] \in 1..N
  <2>1. CASE o = t
    BY <2>1
  <2>2. CASE o # t
    BY <1>1, <2>2 DEF TasksAt
  <2> QED BY <2>1, <2>2
<1>5. ASSUME NEW o \in CompTask(d) PROVE CompAt(o, d, V[q[o]])'
  <2>1. o # t /\ o \in Members(d)
    BY TaskKinds
  <2>2. CompAt(o, d, V[p[o]]) /\ q[o] = p[o]
    BY <1>1, <2>1 DEF TasksAt
  <2> QED BY <2>1, <2>2, AsideStays
<1>6. ASSUME NEW o \in IOTask PROVE IOAt(o, d, V[q[o]], V[N].n["begin"])'
  <2>1. CASE o = t
    BY <2>1
  <2>2. CASE o # t
    <3>1. o \in Members(d)
      BY TaskKinds
    <3>2. IOAt(o, d, V[p[o]], V[N].n["begin"]) /\ q[o] = p[o]
      BY <1>1, <2>2, <3>1 DEF TasksAt
    <3> QED BY <2>2, <3>2, AsideStays
  <2> QED BY <2>1, <2>2
<1> QED BY <1>1, <1>3, <1>4, <1>5, <1>6 DEF Follows, TasksAt

LEMMA NumbersAside ==
    ASSUME NEW t, Aside(t), NEW V, NEW N, NEW p, Numbers(V, N, p), NEW q,
           \A d \in Component : V[d][q[d][ioroot]].all = V[d][p[d][ioroot]].all
    PROVE  Numbers(V, N, q)'
<1>1. next_id' = next_id
  BY DEF Aside
<1> QED BY <1>1 DEF Numbers

LEMMA LoopLogAside ==
    ASSUME NEW V, NEW N, NEW G, NEW M, LoopLog(V, N, G, M), \A c \in Component : chan'[MsgLink(c)] = chan[MsgLink(c)]
    PROVE  LoopLog(V, N, G, M)'
BY DEF LoopLog

\* What the I/O tasks are told and have told.
Told1(g, G) ==
    /\ \A o \in IOTask : g[o] \in 1..g[ioroot]
    /\ \A o \in IOTask : o # ioroot =>
           LET s == chan[<<"loop", "io", o>>]
           IN  /\ Sq(s) /\ Len(s) = g[ioroot] - g[o]
               /\ \A j \in 1..(g[ioroot] - g[o]) : s[j].val = G[g[o] + j].val

Kept1(g, G, M) ==
    /\ M = g[ioroot] + G[g[ioroot]].rem
    /\ \A j \in 1..G[g[ioroot]].rem : loop[ioroot].queue[j] = G[g[ioroot] + j].val

LEMMA LoopsMove ==
    ASSUME NEW V, NEW p, NEW G, NEW M, NEW g, LoopsAt(V, p, G, M, g), NEW t \in IOTask, Aside(t),
           NEW q, \A d \in Component : \A o \in IOTask \ {t} : q[d][o] = p[d][o],
           NEW g2, \A o \in IOTask \ {t} : g2[o] = g[o],
           \A d \in Component : V[d][q[d][t]].n["msg"] = G[g2[t]].served[d],
           LoopAt(t, loop[t], G[g2[t]].rem)', Told1(g2, G)', Kept1(g2, G, M)'
    PROVE  LoopsAt(V, q, G, M, g2)'
<1>1. ASSUME NEW o \in IOTask PROVE LoopAt(o, loop[o], G[g2[o]].rem)'
  <2>1. CASE o = t
    BY <2>1
  <2>2. CASE o # t
    <3>1. LoopAt(o, loop[o], G[g[o]].rem) /\ g2[o] = g[o]
      BY <2>2 DEF LoopsAt
    <3> QED BY <2>2, <3>1, AsideStays
  <2> QED BY <2>1, <2>2
<1>2. ASSUME NEW o \in IOTask, NEW d \in Component PROVE V[d][q[d][o]].n["msg"] = G[g2[o]].served[d]
  <2>1. CASE o = t
    BY <2>1
  <2>2. CASE o # t
    <3>1. V[d][p[d][o]].n["msg"] = G[g[o]].served[d]
      BY DEF LoopsAt
    <3>2. q[d][o] = p[d][o] /\ g2[o] = g[o]
      BY <2>2
    <3> QED BY <3>1, <3>2
  <2> QED BY <2>1, <2>2
<1> QED BY <1>1, <1>2 DEF LoopsAt, Told1, Kept1

LEMMA LoopsTold ==
    ASSUME NEW V, NEW p, NEW G, NEW M, NEW g, LoopsAt(V, p, G, M, g)
    PROVE  Told1(g, G) /\ Kept1(g, G, M)
BY DEF LoopsAt, Told1, Kept1

LEMMA HandlesRec ==
    ASSUME NEW l, [at |-> l.at, c |-> l.c, msg |-> l.msg, f |-> l.f, got |-> l.got, queue |-> l.queue] = l,
           NEW c, NEW msg, NEW m, Handles(l, c, msg) = m
    PROVE  m = [at |-> "handler", c |-> c, msg |-> msg, f |-> l.f, got |-> l.got, queue |-> Tail(l.queue)]
BY DEF Handles

LEMMA HandlesAt ==
    ASSUME NEW t, NEW l, NEW r, LoopAt(t, l, r), l.at = "request", NEW c \in Component, NEW msg, NEW m, Handles(l, c, msg) = m,
           NEW r2 \in Nat, r = r2 + 1, UNCHANGED <<todo, cur>>, loop'[t] = m
    PROVE  /\ LoopAt(t, loop[t], r2)' /\ m.at = "handler" /\ m.c = c /\ m.msg = msg /\ m.f = {} /\ m.got = 0
           /\ m.queue = Tail(l.queue) /\ Sq(l.queue) /\ Len(l.queue) = r /\ l.queue # <<>>
<1>1. /\ l = [at |-> l.at, c |-> l.c, msg |-> l.msg, f |-> l.f, got |-> l.got, queue |-> l.queue]
      /\ Sq(l.queue) /\ Len(l.queue) = r /\ l.f = {} /\ l.got = 0 /\ todo[t] = <<>>
  BY DEF LoopAt
<1>2. m = [at |-> "handler", c |-> c, msg |-> msg, f |-> l.f, got |-> l.got, queue |-> Tail(l.queue)]
  BY <1>1, HandlesRec
<1>3. /\ m.at = "handler" /\ m.c = c /\ m.msg = msg /\ m.f = {} /\ m.got = 0 /\ m.queue = Tail(l.queue)
      /\ m = [at |-> m.at, c |-> m.c, msg |-> m.msg, f |-> m.f, got |-> m.got, queue |-> m.queue]
  BY <1>1, <1>2
<1>4. l.queue # <<>>
  BY <1>1, SqNil
<1>5. Sq(Tail(l.queue)) /\ Len(Tail(l.queue)) = r2
  <2>1. Sq(Tail(l.queue)) /\ Len(Tail(l.queue)) = Len(l.queue) - 1
    BY <1>1, <1>4, SqTail
  <2> QED BY <1>1, <2>1
<1>6. LoopAt(t, m, r2)'
  BY <1>1, <1>3, <1>5 DEF LoopAt
<1> QED BY <1>1, <1>3, <1>4, <1>6

LEMMA FetchGoes ==
    ASSUME NEW V, NEW N, NEW p, NEW G, NEW M, NEW g, Explained(V, N, p, G, M, g), Shaped',
           NEW t \in IOTask, Aside(t), loop[t].at = "request", NEW i, g[t] = i, i < M,
           \A c \in Component : chan'[MsgLink(c)] = chan[MsgLink(c)],
           NEW g2, \A o \in IOTask \ {t} : g2[o] = g[o], g2[t] = i + 1, Told1(g2, G)', Kept1(g2, G, M)',
           NEW x, G[i + 1].val = x, loop'[t] = Handles(loop[t], x[1], x[2])
    PROVE  \E p2 : Explained(V, N, p2, G, M, g2)'
<1>1. PICK c \in Component : \E j \in 1..N[c] : RequestIs(t, V, p, G, i, c, j)
  BY RequestAt
<1>1a. PICK j \in 1..N[c] : RequestIs(t, V, p, G, i, c, j)
  BY <1>1
<1>2. /\ G[i + 1].val = <<c, V[c][j].msg>> /\ Fetched(t, c, V[c][p[c][t]], V[c][j])
      /\ V[c][j].n["msg"] = G[i + 1].served[c]
      /\ G[i].rem = G[i + 1].rem + 1 /\ G[i + 1].rem \in Nat
      /\ \A d \in Component \ {c} : G[i + 1].served[d] = G[i].served[d]
  BY <1>1a DEF RequestIs
<1> DEFINE q == Put(p, c, To(c, p[c], t, j))
           w == V[c][j]
<1>3. /\ \A d \in Component : Follows(d, V[d], N[d], p[d])
      /\ LoopLog(V, N, G, M) /\ LoopsAt(V, p, G, M, g) /\ Numbers(V, N, p) /\ LoopAt(t, loop[t], G[i].rem)
  BY DEF Explained, LoopsAt
<1>4. UNCHANGED <<todo, cur>>
  BY DEF Aside
<1>5. /\ LoopAt(t, loop[t], G[i + 1].rem)' /\ loop'[t].at = "handler" /\ loop'[t].c = c /\ loop'[t].msg = w.msg
      /\ loop'[t].f = {} /\ loop'[t].got = 0
  <2>1. loop'[t] = Handles(loop[t], c, w.msg)
    BY <1>2
  <2> HIDE DEF w
  <2>2. PICK m : m = Handles(loop[t], c, w.msg)
    OBVIOUS
  <2>3. PICK l : l = loop[t]
    OBVIOUS
  <2>4. LoopAt(t, l, G[i].rem) /\ l.at = "request" /\ loop'[t] = m /\ UNCHANGED <<todo, cur>> /\ m = Handles(l, c, w.msg)
    BY <1>3, <1>4, <2>1, <2>2, <2>3
  <2>5. G[i + 1].rem \in Nat /\ G[i].rem = G[i + 1].rem + 1
    BY <1>2
  <2>6. /\ LoopAt(t, loop[t], G[i + 1].rem)' /\ m.at = "handler" /\ m.c = c /\ m.msg = w.msg /\ m.f = {} /\ m.got = 0
    BY <2>4, <2>5, HandlesAt
  <2>7. loop'[t] = m
    BY <2>4
  <2> HIDE DEF q
  <2> QED BY <2>6, <2>7
<1>6. t \in Members(c)
  BY TaskKinds
<1>7. q[c][t] = j /\ (\A o \in Members(c) \ {t} : q[c][o] = p[c][o]) /\ \A d \in Component \ {c} : q[d] = p[d]
  <2>1. To(c, p[c], t, j)[t] = j /\ \A o \in Members(c) \ {t} : To(c, p[c], t, j)[o] = p[c][o]
    BY <1>6, ToAt
  <2>2. q[c] = To(c, p[c], t, j) /\ \A d \in Component \ {c} : q[d] = p[d]
    BY PutAt
  <2> HIDE DEF q
  <2> QED BY <2>1, <2>2
<1> HIDE DEF q, w
<1>8. ASSUME NEW d \in Component PROVE Follows(d, V[d], N[d], q[d])'
  <2>1. CASE d = c
    <3>1. IOAt(t, c, V[c][p[c][t]], V[c][N[c]].n["begin"])
      BY <1>3 DEF Follows, TasksAt
    <3>2. IOAt(t, c, w, V[c][N[c]].n["begin"])'
      BY <1>2, <1>3, <1>5, <3>1, FetchMoves DEF w
    <3>3. \A k \in Kinds : t \in Readers(c, k) => V[c][q[c][t]].n[k] = V[c][p[c][t]].n[k]
      BY <1>2, <1>7 DEF Fetched
    <3>4. IOAt(t, c, V[c][q[c][t]], V[c][N[c]].n["begin"])' /\ q[c][t] \in 1..N[c]
      BY <1>7, <3>2 DEF w
    <3>5. Follows(c, V[c], N[c], q[c])'
      BY <1>3, <1>7, <3>3, <3>4, FollowsAside
    <3> QED BY <2>1, <3>5
  <2>2. CASE d # c
    <3>1. IOAt(t, d, V[d][p[d][t]], V[d][N[d]].n["begin"]) /\ p[d][t] \in 1..N[d]
      BY <1>3, TaskKinds DEF Follows, TasksAt
    <3>2. IOAt(t, d, V[d][p[d][t]], V[d][N[d]].n["begin"])'
      BY <1>5, <2>2, <3>1, IdleMoves
    <3>3. Follows(d, V[d], N[d], p[d])'
      BY <1>3, <3>1, <3>2, FollowsAside
    <3> QED BY <1>7, <2>2, <3>3
  <2> QED BY <2>1, <2>2
<1>9. LoopLog(V, N, G, M)'
  BY <1>3, LoopLogAside
<1>10. LoopsAt(V, q, G, M, g2)'
  <2>1. \A d \in Component : \A o \in IOTask \ {t} : q[d][o] = p[d][o]
    BY <1>7, TaskKinds
  <2>2. \A d \in Component : V[d][q[d][t]].n["msg"] = G[g2[t]].served[d]
    <3>1. \A d \in Component : V[d][p[d][t]].n["msg"] = G[i].served[d]
      BY <1>3 DEF LoopsAt
    <3> QED BY <1>2, <1>7, <3>1
  <2> QED BY <1>3, <1>5, <2>1, <2>2, LoopsMove
<1>11. Numbers(V, N, q)'
  <2>1. ASSUME NEW d \in Component PROVE V[d][q[d][ioroot]].all = V[d][p[d][ioroot]].all
    <3>1. CASE d # c
      BY <1>7, <3>1
    <3>2. CASE d = c /\ t # ioroot
      BY <1>7, <3>2, TaskKinds
    <3>3. CASE d = c /\ t = ioroot
      BY <1>2, <1>7, <3>3 DEF Fetched
    <3> QED BY <3>1, <3>2, <3>3
  <2> QED BY <1>3, <2>1, NumbersAside
<1>12. Explained(V, N, q, G, M, g2)'
  BY <1>8, <1>9, <1>10, <1>11 DEF Explained
<1> QED BY <1>12

LEMMA LinksApart ==
    /\ \A c, o : <<"inter", c, o>> \notin LoopLinks /\ <<"comp", c, o>> \notin LoopLinks /\ <<"io", c, o>> \notin LoopLinks
    /\ \A c, d, o : <<"inter", c, o>> # MsgLink(d) /\ <<"comp", c, o>> # MsgLink(d) /\ <<"io", c, o>> # MsgLink(d)
    /\ \A c : MsgLink(c) \notin LoopLinks
    /\ \A c, d : MsgLink(c) = MsgLink(d) => c = d
    /\ \A o \in IOTask : o # ioroot => <<"loop", "io", o>> \in LoopLinks /\ <<"loop", "io", o>> \in Links
    /\ \A o, t : <<"loop", "io", o>> = <<"loop", "io", t>> => o = t
    /\ LoopLinks \subseteq Links
BY DEF LoopLinks, MsgLink, Links

LEMMA BoxesAside ==
    ASSUME pending' = pending,
           \A l \in Links : l \notin LoopLinks /\ (\A c \in Component : l # MsgLink(c)) => chan'[l] = chan[l]
    PROVE  \A c \in Component : \A k \in Kinds : \A o \in Readers(c, k) : Box(o, c, k)' = Box(o, c, k)
<1> SUFFICES ASSUME NEW c \in Component, NEW k \in Kinds, NEW o \in Readers(c, k) PROVE Box(o, c, k)' = Box(o, c, k)
  OBVIOUS
<1>1. o \in Members(c)
  BY ReadersIn
<1>2. CASE k = "arg"
  <2>1. o \in IOTask => chan'[<<"inter", c, o>>] = chan[<<"inter", c, o>>]
    BY LinksAre, LinksApart
  <2> QED BY <1>2, <2>1, BoxIs, BoxWillBe
<1>3. CASE k = "comp"
  <2>1. o # comproot(c) => chan'[<<"comp", c, o>>] = chan[<<"comp", c, o>>]
    BY <1>1, LinksAre, LinksApart
  <2> QED BY <1>3, <2>1, BoxIs, BoxWillBe
<1>4. CASE k = "io"
  <2>1. o # ioroot => chan'[<<"io", c, o>>] = chan[<<"io", c, o>>]
    BY <1>1, LinksAre, LinksApart
  <2> QED BY <1>4, <2>1, BoxIs, BoxWillBe
<1>5. CASE k \in {"begin", "msg"}
  BY <1>5, BoxIs, BoxWillBe
<1> QED BY <1>2, <1>3, <1>4, <1>5 DEF Kinds

LEMMA NextOf ==
    ASSUME NEW a \in Nat, NEW b \in Nat, a < b, NEW j \in 1..(b - (a + 1))
    PROVE  j \in 1..((b - a) - 1) /\ j + 1 \in 1..(b - a) /\ a + (j + 1) = (a + 1) + j
OBVIOUS

LEMMA ToldTaken ==
    ASSUME Shaped, NEW g, NEW G, Told1(g, G), NEW t \in IOTask, t # ioroot,
           NEW l, <<"loop", "io", t>> = l, chan[l] # <<>>, chan'[l] = Tail(chan[l]), \A x \in Links : x # l => chan'[x] = chan[x],
           NEW g2, \A o \in IOTask \ {t} : g2[o] = g[o], g2[t] = g[t] + 1
    PROVE  /\ Told1(g2, G)' /\ Head(chan[l]).val = G[g[t] + 1].val /\ g[t] < g[ioroot] /\ g[t] \in Nat /\ g[ioroot] \in Nat
           /\ \A x \in Links : x \notin LoopLinks => chan'[x] = chan[x]
<1>1. l \in Links /\ l \in LoopLinks /\ ioroot \in IOTask
  BY LinksApart, TaskKinds
<1>2. chan = [x \in Links |-> chan[x]]
  BY DEF Shaped
<1>3. chan'[l] = Tail(chan[l]) /\ \A x \in Links : x # l => chan'[x] = chan[x]
  OBVIOUS
<1> DEFINE s == chan[l]
           n == g[ioroot] - g[t]
<1>4. /\ Sq(s) /\ Len(s) = n /\ \A j \in 1..n : s[j].val = G[g[t] + j].val
  BY DEF Told1
<1>5. g[t] \in 1..g[ioroot] /\ g[ioroot] \in 1..g[ioroot]
  BY <1>1 DEF Told1
<1> HIDE DEF s
<1>6. /\ Sq(Tail(s)) /\ Len(Tail(s)) = Len(s) - 1 /\ Len(s) \in Nat /\ Len(s) > 0
      /\ \A j \in 1..(Len(s) - 1) : Tail(s)[j] = s[j + 1]
      /\ Head(s) = s[1]
  <2>1. s # <<>>
    BY DEF s
  <2> QED BY <1>4, <2>1, SqTail
<1>7. g[t] < g[ioroot] /\ g[t] \in Nat /\ g[ioroot] \in Nat
  BY <1>4, <1>5, <1>6
<1>8. Head(s).val = G[g[t] + 1].val
  <2>1. 1 \in 1..n
    BY <1>7
  <2>2. s[1].val = G[g[t] + 1].val
    BY <1>4, <2>1
  <2> QED BY <1>6, <2>2
<1>9. ASSUME NEW o \in IOTask PROVE g2[o] \in 1..g2[ioroot]
  <2>1. g[o] \in 1..g[ioroot] /\ g2[ioroot] = g[ioroot]
    BY <1>1 DEF Told1
  <2> QED BY <1>7, <2>1
<1>10. ASSUME NEW o \in IOTask, o # ioroot
       PROVE  LET r == chan'[<<"loop", "io", o>>]
              IN  /\ Sq(r) /\ Len(r) = g2[ioroot] - g2[o]
                  /\ \A j \in 1..(g2[ioroot] - g2[o]) : r[j].val = G[g2[o] + j].val
  <2>1. CASE o = t
    <3>1. chan'[<<"loop", "io", o>>] = Tail(s) /\ g2[ioroot] = g[ioroot] /\ g2[o] = g[t] + 1
      BY <1>1, <1>3, <2>1 DEF s
    <3>2. Sq(Tail(s)) /\ Len(Tail(s)) = g[ioroot] - (g[t] + 1)
      BY <1>4, <1>6, <1>7
    <3>3. ASSUME NEW j \in 1..(g[ioroot] - (g[t] + 1)) PROVE Tail(s)[j].val = G[(g[t] + 1) + j].val
      <4>1. j \in 1..(Len(s) - 1) /\ j + 1 \in 1..n /\ g[t] + (j + 1) = (g[t] + 1) + j
        <5>1. Len(s) = n
          BY <1>4
        <5>2. /\ j \in 1..((g[ioroot] - g[t]) - 1) /\ j + 1 \in 1..(g[ioroot] - g[t])
              /\ g[t] + (j + 1) = (g[t] + 1) + j
          BY <1>7, NextOf
        <5> QED BY <5>1, <5>2
      <4>2. s[j + 1].val = G[g[t] + (j + 1)].val
        BY <1>4, <4>1
      <4>3. Tail(s)[j] = s[j + 1]
        BY <1>6, <4>1
      <4> QED BY <4>1, <4>2, <4>3
    <3> HIDE DEF n
    <3> QED BY <3>1, <3>2, <3>3
  <2>2. CASE o # t
    <3>1. chan'[<<"loop", "io", o>>] = chan[<<"loop", "io", o>>] /\ g2[ioroot] = g[ioroot] /\ g2[o] = g[o]
      BY <1>1, <1>3, <1>10, <2>2, LinksApart
    <3> QED BY <1>10, <3>1 DEF Told1
  <2> QED BY <2>1, <2>2
<1>11. Told1(g2, G)'
  BY <1>9, <1>10 DEF Told1
<1>12. \A x \in Links : x \notin LoopLinks => chan'[x] = chan[x]
  BY <1>1, <1>3
<1> QED BY <1>7, <1>8, <1>11, <1>12 DEF s

LEMMA ToldSent ==
    ASSUME NEW g, NEW G, Told1(g, G), NEW G2, NEW item, item.val = G2[g[ioroot] + 1].val,
           \A l \in LoopLinks : chan'[l] = Append(chan[l], item), \A i \in 1..g[ioroot] : G2[i] = G[i],
           NEW g2, \A o \in IOTask \ {ioroot} : g2[o] = g[o], g2[ioroot] = g[ioroot] + 1
    PROVE  Told1(g2, G2)'
<1>1. g[ioroot] \in 1..g[ioroot]
  BY TaskKinds DEF Told1
<1>2. ASSUME NEW o \in IOTask PROVE g2[o] \in 1..g2[ioroot]
  <2>1. g[o] \in 1..g[ioroot]
    BY DEF Told1
  <2>2. CASE o = ioroot
    BY <1>1, <2>2
  <2>3. CASE o # ioroot
    BY <1>1, <2>1, <2>3
  <2> QED BY <2>2, <2>3
<1>3. ASSUME NEW o \in IOTask, o # ioroot
      PROVE  LET r == chan'[<<"loop", "io", o>>]
             IN  /\ Sq(r) /\ Len(r) = g2[ioroot] - g2[o]
                 /\ \A j \in 1..(g2[ioroot] - g2[o]) : r[j].val = G2[g2[o] + j].val
  <2> DEFINE s == chan[<<"loop", "io", o>>]
             n == g[ioroot] - g[o]
  <2>1. Sq(s) /\ Len(s) = n /\ \A j \in 1..n : s[j].val = G[g[o] + j].val
    BY <1>3 DEF Told1
  <2>2. g[o] \in 1..g[ioroot] /\ g2[o] = g[o]
    BY <1>3 DEF Told1
  <2>3. chan'[<<"loop", "io", o>>] = Append(s, item)
    BY <1>3, LinksApart
  <2> HIDE DEF s
  <2>4. /\ Sq(Append(s, item)) /\ Len(Append(s, item)) = Len(s) + 1 /\ Len(s) \in Nat
        /\ \A i \in 1..Len(s) : Append(s, item)[i] = s[i]
        /\ Append(s, item)[Len(s) + 1] = item
    BY <2>1, SqAppend
  <2>5. ASSUME NEW j \in 1..(n + 1) PROVE Append(s, item)[j].val = G2[g[o] + j].val
    <3>1. CASE j \in 1..n
      <4>1. Append(s, item)[j] = s[j]
        BY <2>1, <2>4, <3>1
      <4>2. s[j].val = G[g[o] + j].val
        BY <2>1, <3>1
      <4>3. g[o] + j \in 1..g[ioroot]
        BY <1>1, <2>2, <3>1
      <4> QED BY <4>1, <4>2, <4>3
    <3>2. CASE j = n + 1
      <4>1. g[o] + j = g[ioroot] + 1
        BY <1>1, <2>2, <3>2
      <4> HIDE DEF n
      <4>2. Append(s, item)[j] = item
        BY <2>1, <2>4, <3>2
      <4> QED BY <4>1, <4>2
    <3>3. n \in Nat
      BY <2>1, <2>4
    <3>4. j \in 1..n \/ j = n + 1
      <4> HIDE DEF n
      <4> QED BY <3>3
    <3> QED BY <3>1, <3>2, <3>4
  <2>6. g2[ioroot] - g2[o] = n + 1
    BY <1>1, <2>2
  <2> HIDE DEF n
  <2> QED BY <2>1, <2>2, <2>3, <2>4, <2>5, <2>6
<1> QED BY <1>2, <1>3 DEF Told1

LEMMA ShapedAside ==
    ASSUME Shaped, NEW t \in IOTask, NEW m, loop' = [loop EXCEPT ![t] = m], chan' = [l \in Links |-> chan'[l]],
           UNCHANGED <<todo, pending, cur, ierr, tables, next_id, eh, open, made>>
    PROVE  /\ Shaped' /\ loop'[t] = m /\ \A o \in IOTask \ {t} : loop'[o] = loop[o]
<1>1. loop = [o \in IOTask |-> loop[o]]
  BY DEF Shaped
<1>2. loop'[t] = m /\ (\A o \in IOTask \ {t} : loop'[o] = loop[o]) /\ loop' = [o \in IOTask |-> loop'[o]]
  BY <1>1
<1> QED BY <1>2 DEF Shaped

LEMMA NextRequestGoes ==
    ASSUME NEW V, NEW N, NEW p, NEW G, NEW M, NEW g, Explained(V, N, p, G, M, g), NextRequest
    PROVE  \E p2, g2 : Explained(V, N, p2, G, M, g2)'
<1>0. SUFFICES ASSUME NEW i, g[ioroot] = i, NEW x, G[i + 1].val = x, NEW t, ioroot = t, NEW q, loop[ioroot].queue = q
               PROVE  \E p2, g2 : Explained(V, N, p2, G, M, g2)'
  OBVIOUS
<1> DEFINE item == Item(INT("idx, msg"), FALSE, Head(q))
           g2 == [o \in IOTask |-> IF o = t THEN i + 1 ELSE g[o]]
<1>1. /\ loop[t].at = "request" /\ loop' = [loop EXCEPT ![t] = Handles(loop[t], Head(q)[1], Head(q)[2])]
      /\ chan' = [l \in Links |-> IF l \in LoopLinks THEN Append(chan[l], item) ELSE chan[l]]
      /\ UNCHANGED <<todo, pending, cur, ierr, tables, next_id, eh, open, made>>
  BY <1>0 DEF NextRequest, Send, Moves
<1>2. /\ t \in IOTask /\ Shaped /\ LoopsAt(V, p, G, M, g) /\ LoopLog(V, N, G, M) /\ LoopAt(t, loop[t], G[i].rem)
      /\ Told1(g, G) /\ Kept1(g, G, M)
  <2>1. t \in IOTask /\ Shaped /\ LoopsAt(V, p, G, M, g) /\ LoopLog(V, N, G, M)
    BY <1>0, TaskKinds DEF Explained
  <2>2. LoopAt(t, loop[t], G[i].rem)
    BY <1>0, <2>1 DEF LoopsAt
  <2>3. Told1(g, G) /\ Kept1(g, G, M)
    BY <2>1, LoopsTold
  <2> QED BY <2>1, <2>2, <2>3
<1>3. /\ M \in Nat \ {0} /\ M = i + G[i].rem /\ i \in 1..i
      /\ \A j \in 1..M : G[j].rem \in Nat
      /\ \A j \in 1..G[i].rem : q[j] = G[i + j].val
  BY <1>0, <1>2 DEF LoopLog, Kept1, Told1
<1>4. Sq(q) /\ Len(q) = G[i].rem /\ G[i].rem # 0 /\ Len(q) \in Nat
  <2>1. Sq(q) /\ Len(q) = G[i].rem /\ G[i].rem # 0
    BY <1>0, <1>1, <1>2 DEF LoopAt
  <2> QED BY <2>1, SqNil
<1>5. i \in Nat /\ i < M /\ G[i].rem \in Nat /\ G[i].rem > 0
  BY <1>3, <1>4
<1>6. q # <<>> /\ Sq(Tail(q)) /\ Len(Tail(q)) = Len(q) - 1 /\ Head(q) = q[1] /\ \A j \in 1..(Len(q) - 1) : Tail(q)[j] = q[j + 1]
  <2>1. q # <<>>
    BY <1>4, SqNil
  <2> QED BY <1>4, <2>1, SqTail
<1>7. Head(q) = x
  <2>1. 1 \in 1..G[i].rem
    BY <1>5
  <2>2. q[1] = G[i + 1].val
    BY <1>3, <2>1
  <2> QED BY <1>0, <1>6, <2>2
<1>8. /\ chan' = [l \in Links |-> chan'[l]] /\ \A l \in LoopLinks : chan'[l] = Append(chan[l], item)
      /\ \A l \in Links : l \notin LoopLinks => chan'[l] = chan[l]
  BY <1>1, LinksApart
<1>9. /\ Shaped' /\ loop'[t] = Handles(loop[t], x[1], x[2]) /\ \A o \in IOTask \ {t} : loop'[o] = loop[o]
  BY <1>1, <1>2, <1>7, <1>8, ShapedAside
<1>10. Aside(t)
  <2>1. \A c \in Component : \A k \in Kinds : \A o \in Readers(c, k) : Box(o, c, k)' = Box(o, c, k)
    BY <1>1, <1>8, BoxesAside
  <2> QED BY <1>1, <1>9, <2>1 DEF Aside
<1>11. item.val = x
  BY <1>7 DEF Item
<1>12. (\A o \in IOTask \ {t} : g2[o] = g[o]) /\ g2[t] = i + 1
  BY <1>2
<1> HIDE DEF g2, item
<1>13. Told1(g2, G)'
  <2>1. \A j \in 1..g[ioroot] : G[j] = G[j]
    OBVIOUS
  <2>2. item.val = G[g[ioroot] + 1].val /\ g2[ioroot] = g[ioroot] + 1 /\ \A o \in IOTask \ {ioroot} : g2[o] = g[o]
    BY <1>0, <1>11, <1>12
  <2> QED BY <1>2, <1>8, <2>1, <2>2, ToldSent
<1>14. Kept1(g2, G, M)'
  <2>1. PICK c \in Component : \E j \in 1..N[c] : RequestIs(t, V, p, G, i, c, j)
    BY <1>0, <1>1, <1>2, <1>5, RequestAt
  <2>2. /\ x[1] = c /\ G[i].rem = G[i + 1].rem + 1 /\ G[i + 1].rem \in Nat
    BY <1>0, <2>1 DEF RequestIs
  <2>3. loop'[t].queue = Tail(q)
    <3>1. PICK m : m = Handles(loop[t], x[1], x[2])
      OBVIOUS
    <3>2. PICK l : l = loop[t]
      OBVIOUS
    <3>3. LoopAt(t, l, G[i].rem) /\ l.at = "request" /\ loop'[t] = m /\ UNCHANGED <<todo, cur>> /\ m = Handles(l, c, x[2])
      BY <1>1, <1>2, <1>9, <2>2, <3>1, <3>2
    <3>4. m.queue = Tail(l.queue)
      BY <2>2, <3>3, HandlesAt
    <3> QED BY <1>0, <3>2, <3>3, <3>4
  <2>4. M = (i + 1) + G[i + 1].rem
    BY <1>3, <1>5, <2>2
  <2>5. ASSUME NEW j \in 1..G[i + 1].rem PROVE Tail(q)[j] = G[(i + 1) + j].val
    <3>1. j \in 1..(Len(q) - 1) /\ j + 1 \in 1..G[i].rem /\ i + (j + 1) = (i + 1) + j
      BY <1>4, <1>5, <2>2
    <3>2. Tail(q)[j] = q[j + 1]
      BY <1>6, <3>1
    <3>3. q[j + 1] = G[i + (j + 1)].val
      BY <1>3, <3>1
    <3> QED BY <3>1, <3>2, <3>3
  <2>6. loop'[ioroot].queue = Tail(q) /\ g2[ioroot] = i + 1
    BY <1>0, <1>12, <2>3
  <2> QED BY <2>4, <2>5, <2>6 DEF Kept1
<1>15. \A c \in Component : chan'[MsgLink(c)] = chan[MsgLink(c)]
  BY <1>8, LinksApart, LinksAre
<1>16. i = g[t]
  BY <1>0
<1>17. \E p2 : Explained(V, N, p2, G, M, g2)'
  BY <1>0, <1>1, <1>2, <1>5, <1>9, <1>10, <1>12, <1>13, <1>14, <1>15, <1>16, FetchGoes
<1> QED BY <1>17

\* Task t has heard that some messages have come.
LEMMA FollowsIdle ==
    ASSUME NEW V, NEW N, NEW p, NEW t \in IOTask, Aside(t), loop[t].at \in {"top", "request"}, loop'[t].c \notin Component,
           NEW d \in Component, Follows(d, V[d], N[d], p[d])
    PROVE  Follows(d, V[d], N[d], p[d])'
<1>1. IOAt(t, d, V[d][p[d][t]], V[d][N[d]].n["begin"]) /\ p[d][t] \in 1..N[d]
  BY TaskKinds DEF Follows, TasksAt
<1>2. IOAt(t, d, V[d][p[d][t]], V[d][N[d]].n["begin"])'
  BY <1>1, IdleMoves
<1> QED BY <1>1, <1>2, FollowsAside

LEMMA ComeRec ==
    ASSUME NEW q, NEW m, [Top EXCEPT !.at = "request", !.queue = q] = m
    PROVE  m = [at |-> "request", c |-> "none", msg |-> "none", f |-> {}, got |-> 0, queue |-> q]
BY DEF Top

LEMMA ComeAt ==
    ASSUME NEW t, NEW r, LoopAt(t, loop[t], r), loop[t].at = "top", NEW q, Sq(q), NEW r2, Len(q) = r2, r2 # 0,
           UNCHANGED <<todo, cur>>,
           NEW m, [at |-> "request", c |-> "none", msg |-> "none", f |-> {}, got |-> 0, queue |-> q] = m, loop'[t] = m
    PROVE  LoopAt(t, loop[t], r2)' /\ m.c \notin Component /\ m.queue = q /\ r = 0
<1>3. /\ m.at = "request" /\ m.c = "none" /\ m.queue = q /\ m.f = {} /\ m.got = 0
      /\ m = [at |-> m.at, c |-> m.c, msg |-> m.msg, f |-> m.f, got |-> m.got, queue |-> m.queue]
  OBVIOUS
<1>4. todo'[t] = <<>> /\ cur'[t] = NoArgs /\ r = 0
  BY DEF LoopAt
<1>5. LoopAt(t, m, r2)'
  BY <1>3, <1>4 DEF LoopAt
<1> QED BY <1>3, <1>4, <1>5, AsyncAssumption DEF AsyncAssumption

LEMMA HearRequestGoes ==
    ASSUME NEW V, NEW N, NEW p, NEW G, NEW M, NEW g, Explained(V, N, p, G, M, g), NEW t \in IOTask, t # ioroot, HearRequest(t)
    PROVE  \E p2, g2 : Explained(V, N, p2, G, M, g2)'
<1>0. SUFFICES ASSUME NEW i, g[t] = i, NEW l, <<"loop", "io", t>> = l, NEW x, Head(chan[l]).val = x
               PROVE  \E p2, g2 : Explained(V, N, p2, G, M, g2)'
  OBVIOUS
<1> DEFINE g2 == [o \in IOTask |-> IF o = t THEN i + 1 ELSE g[o]]
<1>1. /\ loop[t].at \in {"top", "request"} /\ chan[l] # <<>> /\ chan' = [chan EXCEPT ![l] = Tail(@)]
      /\ IF loop[t].at = "top"
         THEN loop' = [loop EXCEPT ![t] = [Top EXCEPT !.at = "request", !.queue = [j \in 1..x |-> <<>>]]]
         ELSE loop' = [loop EXCEPT ![t] = Handles(loop[t], x[1], x[2])]
      /\ UNCHANGED <<todo, pending, cur, ierr, tables, next_id, eh, open, made>>
  BY <1>0 DEF HearRequest, Take, Moves
<1>2. t \in IOTask /\ Shaped /\ LoopsAt(V, p, G, M, g) /\ LoopLog(V, N, G, M) /\ ioroot \in IOTask
  BY <1>0, TaskKinds DEF Explained
<1>3. LoopAt(t, loop[t], G[i].rem)
  BY <1>0, <1>2 DEF LoopsAt
<1>4. Told1(g, G) /\ Kept1(g, G, M)
  BY <1>2, LoopsTold
<1>5. (\A o \in IOTask \ {t} : g2[o] = g[o]) /\ g2[t] = i + 1 /\ g2[ioroot] = g[ioroot]
  BY <1>2
<1> HIDE DEF g2
<1>6. /\ Told1(g2, G)' /\ x = G[i + 1].val /\ i < g[ioroot] /\ i \in Nat /\ g[ioroot] \in Nat
      /\ \A y \in Links : y \notin LoopLinks => chan'[y] = chan[y]
  <2>1. g2[t] = g[t] + 1
    BY <1>0, <1>5
  <2>2. /\ Told1(g2, G)' /\ Head(chan[l]).val = G[g[t] + 1].val /\ g[t] < g[ioroot] /\ g[t] \in Nat /\ g[ioroot] \in Nat
        /\ \A y \in Links : y \notin LoopLinks => chan'[y] = chan[y]
    <3>1. chan[l] # <<>> /\ chan'[l] = Tail(chan[l]) /\ \A y \in Links : y # l => chan'[y] = chan[y]
      <4>1. chan = [y \in Links |-> chan[y]] /\ l \in Links
        BY <1>0, <1>2, LinksApart DEF Shaped
      <4> QED BY <1>1, <4>1
    <3>2. Shaped /\ Told1(g, G) /\ (\A o \in IOTask \ {t} : g2[o] = g[o])
      BY <1>2, <1>4, <1>5
    <3> QED BY <1>0, <2>1, <3>1, <3>2, ToldTaken
  <2> QED BY <1>0, <2>2
<1>7. /\ M \in Nat /\ i < M /\ i \in 1..(M - 1) /\ i \in 1..M /\ i + 1 \in 1..M /\ \A j \in 1..M : G[j].rem \in Nat
  <2>1. M \in Nat \ {0} /\ M = g[ioroot] + G[g[ioroot]].rem /\ i \in 1..g[ioroot] /\ \A j \in 1..M : G[j].rem \in Nat
    BY <1>0, <1>2, <1>4 DEF LoopLog, Kept1, Told1
  <2>2. g[ioroot] \in Nat \ {0}
    BY <1>6, <2>1
  <2>3. g[ioroot] <= M
    <3>1. LoopAt(ioroot, loop[ioroot], G[g[ioroot]].rem)
      BY <1>2 DEF LoopsAt
    <3>2. Sq(loop[ioroot].queue) /\ Len(loop[ioroot].queue) = G[g[ioroot]].rem
      BY <3>1 DEF LoopAt
    <3>3. G[g[ioroot]].rem \in Nat
      BY <3>2, SqNil
    <3> QED BY <1>6, <2>1, <3>3
  <2> QED BY <1>6, <2>1, <2>2, <2>3
<1>8. chan' = [y \in Links |-> chan'[y]] /\ chan = [y \in Links |-> chan[y]]
  BY <1>1, <1>2 DEF Shaped
<1>9. Kept1(g2, G, M)'
  <2>1. loop'[ioroot] = loop[ioroot]
    <3>1. loop = [o \in IOTask |-> loop[o]]
      BY <1>2 DEF Shaped
    <3> QED BY <1>0, <1>1, <1>2, <3>1
  <2> QED BY <1>4, <1>5, <2>1 DEF Kept1
<1>10. \A c \in Component : chan'[MsgLink(c)] = chan[MsgLink(c)]
  BY <1>6, LinksApart, LinksAre
<1>11. \A c \in Component : \A k \in Kinds : \A o \in Readers(c, k) : Box(o, c, k)' = Box(o, c, k)
  BY <1>1, <1>6, BoxesAside
<1>12. CASE loop[t].at = "request"
  <2>1. loop' = [loop EXCEPT ![t] = Handles(loop[t], x[1], x[2])]
    BY <1>1, <1>12
  <2>2. /\ Shaped' /\ loop'[t] = Handles(loop[t], x[1], x[2]) /\ \A o \in IOTask \ {t} : loop'[o] = loop[o]
    BY <1>1, <1>2, <1>8, <2>1, ShapedAside
  <2>3. Aside(t)
    BY <1>1, <1>11, <2>2 DEF Aside
  <2>4. \E p2 : Explained(V, N, p2, G, M, g2)'
    BY <1>0, <1>5, <1>6, <1>7, <1>9, <1>10, <1>12, <2>2, <2>3, FetchGoes
  <2> QED BY <2>4
<1>13. CASE loop[t].at = "top"
  <2> DEFINE q == [j \in 1..x |-> <<>>]
  <2>1. G[i].rem = 0
    BY <1>3, <1>13 DEF LoopAt
  <2>2. Counted(G, i)
    <3> SUFFICES ASSUME Requested(G, i, V, N) PROVE FALSE
      BY <1>2, <1>7 DEF LoopLog
    <3>1. G[i].rem = G[i + 1].rem + 1 /\ G[i + 1].rem \in Nat
      BY <1>7 DEF Requested
    <3> QED BY <2>1, <3>1
  <2>3. x \in Nat \ {0} /\ x = G[i + 1].rem /\ \A c \in Component : G[i + 1].served[c] = G[i].served[c]
    BY <1>6, <2>2 DEF Counted
  <2>4. Sq(q) /\ Len(q) = x
    <3>1. q \in Seq({<<>>}) /\ Len(q) = x
      BY <2>3
    <3> QED BY <3>1 DEF Sq
  <2>5. loop' = [loop EXCEPT ![t] = [Top EXCEPT !.at = "request", !.queue = q]]
    BY <1>1, <1>13
  <2> HIDE DEF q
  <2>6. /\ Shaped' /\ loop'[t] = [Top EXCEPT !.at = "request", !.queue = q] /\ \A o \in IOTask \ {t} : loop'[o] = loop[o]
    BY <1>1, <1>2, <1>8, <2>5, ShapedAside
  <2>7. Aside(t)
    BY <1>1, <1>11, <2>6 DEF Aside
  <2>8. UNCHANGED <<todo, cur>> /\ x # 0
    BY <1>1, <2>3
  <2>9. LoopAt(t, loop[t], x)' /\ loop'[t].c \notin Component
    <3>1. PICK m : m = [Top EXCEPT !.at = "request", !.queue = q]
      OBVIOUS
    <3>2. loop'[t] = m
      BY <2>6, <3>1
    <3>3. m = [at |-> "request", c |-> "none", msg |-> "none", f |-> {}, got |-> 0, queue |-> q]
      BY <3>1, ComeRec
    <3>4. LoopAt(t, loop[t], G[i].rem) /\ loop[t].at = "top" /\ Sq(q) /\ Len(q) = x /\ x # 0 /\ UNCHANGED <<todo, cur>>
      BY <1>3, <1>13, <2>4, <2>8
    <3>5. LoopAt(t, loop[t], x)' /\ m.c \notin Component
      BY <3>2, <3>3, <3>4, ComeAt
    <3> QED BY <3>2, <3>5
  <2>10. \A d \in Component : Follows(d, V[d], N[d], p[d])'
    BY <1>13, <2>7, <2>9, FollowsIdle DEF Explained
  <2>11. LoopLog(V, N, G, M)' /\ Numbers(V, N, p)'
    BY <1>2, <1>10, <2>7, LoopLogAside, NumbersAside DEF Explained
  <2>12. LoopsAt(V, p, G, M, g2)'
    <3>1. \A d \in Component : V[d][p[d][t]].n["msg"] = G[g2[t]].served[d]
      BY <1>0, <1>2, <1>5, <2>3 DEF LoopsAt
    <3>2. LoopAt(t, loop[t], G[g2[t]].rem)'
      BY <1>5, <2>3, <2>9
    <3> QED BY <1>2, <1>5, <1>6, <1>9, <2>7, <3>1, <3>2, LoopsMove
  <2>13. Explained(V, N, p, G, M, g2)'
    BY <2>6, <2>10, <2>11, <2>12 DEF Explained
  <2> QED BY <2>13
<1> QED BY <1>1, <1>12, <1>13

\* The n messages taken from the components S, in the order q.
Orders(q, S, n) ==
    /\ S \subseteq Component /\ n \in Nat \ {0} /\ q \in [1..n -> S]
    /\ \A i, j \in 1..n : q[i] = q[j] => i = j
    /\ \A c \in S : \E k \in 1..n : q[k] = c

LEMMA OrdersOf ==
    ASSUME NEW S \in SUBSET Component, S # {}, NEW q \in SetToSeqs(S)
    PROVE  \E n : Orders(q, S, n) /\ Len(q) = n /\ Sq(q) /\ DOMAIN q = 1..n
<1> DEFINE n == Cardinality(S)
<1>1. IsFiniteSet(S) /\ n \in Nat /\ n # 0
  BY AsyncAssumption, FS_Subset, FS_CardinalityType, FS_EmptySet DEF AsyncAssumption
<1>2. q \in [1..n -> S] /\ \A i, j \in 1..n : i # j => q[i] # q[j]
  BY DEF SetToSeqs
<1>3. IsFiniteSet(1..n) /\ Cardinality(1..n) = n
  BY <1>1, FS_Interval
<1> HIDE DEF n
<1>4. q \in Injection(1..n, S)
  BY <1>2 DEF Injection, IsInjective
<1>5. q \in Surjection(1..n, S)
  BY <1>1, <1>3, <1>4, FS_Injection DEF n
<1>6. \A c \in S : \E k \in 1..n : q[k] = c
  BY <1>5 DEF Surjection
<1>7. Len(q) = n /\ q \in Seq(S) /\ DOMAIN q = 1..n
  BY <1>1, <1>2
<1> QED BY <1>1, <1>2, <1>6, <1>7 DEF Orders, Sq

\* The log of the loop goes on with the number of messages and with each of them.
Extends(G2, G, M, q, n) ==
    /\ \A i \in 1..M : G2[i] = G[i]
    /\ \A k \in 0..n :
           /\ G2[M + 1 + k].rem = n - k
           /\ \A c \in Component :
                  G2[M + 1 + k].served[c] = G[M].served[c] + (IF \E j \in 1..k : q[j] = c THEN 1 ELSE 0)
    /\ G2[M + 1].val = n
    /\ \A k \in 1..n : G2[M + 1 + k].val = <<q[k], Head(chan[MsgLink(q[k])]).x>>

LEMMA ExtendsBy ==
    ASSUME NEW G, NEW M \in Nat, NEW q, NEW n \in Nat
    PROVE  \E G2 : Extends(G2, G, M, q, n)
<1> DEFINE Served(k) == [c \in Component |-> G[M].served[c] + (IF \E j \in 1..k : q[j] = c THEN 1 ELSE 0)]
           Val(k) == IF k = 0 THEN n ELSE <<q[k], Head(chan[MsgLink(q[k])]).x>>
           E(k) == [rem |-> n - k, served |-> Served(k), val |-> Val(k)]
           G2 == [i \in 1..(M + 1 + n) |-> IF i <= M THEN G[i] ELSE E(i - (M + 1))]
<1>1. \A i \in 1..M : G2[i] = G[i]
  OBVIOUS
<1>2. ASSUME NEW k \in 0..n PROVE G2[M + 1 + k] = E(k)
  <2> HIDE DEF E
  <2>1. M + 1 + k \in 1..(M + 1 + n) /\ ~(M + 1 + k <= M) /\ (M + 1 + k) - (M + 1) = k
    OBVIOUS
  <2> QED BY <2>1
<1>3. ASSUME NEW k \in 0..n PROVE E(k).rem = n - k /\ E(k).served = Served(k) /\ E(k).val = Val(k)
  <2> HIDE DEF Served, Val
  <2> QED OBVIOUS
<1>4. ASSUME NEW k \in 0..n, NEW c \in Component
      PROVE  Served(k)[c] = G[M].served[c] + (IF \E j \in 1..k : q[j] = c THEN 1 ELSE 0)
  OBVIOUS
<1>5. Val(0) = n /\ \A k \in 1..n : Val(k) = <<q[k], Head(chan[MsgLink(q[k])]).x>>
  OBVIOUS
<1> HIDE DEF G2, E, Served, Val
<1>6. /\ \A k \in 0..n :
           /\ G2[M + 1 + k].rem = n - k
           /\ \A c \in Component :
                  G2[M + 1 + k].served[c] = G[M].served[c] + (IF \E j \in 1..k : q[j] = c THEN 1 ELSE 0)
  BY <1>2, <1>3, <1>4
<1>7. G2[M + 1].val = n
  <2>1. 0 \in 0..n /\ M + 1 + 0 = M + 1
    OBVIOUS
  <2>2. G2[M + 1 + 0] = E(0)
    BY <1>2, <2>1
  <2> QED BY <1>3, <1>5, <2>1, <2>2
<1>8. ASSUME NEW k \in 1..n PROVE G2[M + 1 + k].val = <<q[k], Head(chan[MsgLink(q[k])]).x>>
  <2>1. k \in 0..n
    OBVIOUS
  <2> QED BY <1>2, <1>3, <1>5, <2>1
<1>9. Extends(G2, G, M, q, n)
  BY <1>1, <1>6, <1>7, <1>8 DEF Extends
<1> QED BY <1>9

\* One more message is served.
LEMMA ServedNext ==
    ASSUME NEW S, NEW q, NEW n, Orders(q, S, n), NEW G, NEW M \in Nat, NEW G2, Extends(G2, G, M, q, n),
           \A c \in Component : G[M].served[c] \in Nat, NEW k \in 1..n, NEW d \in Component
    PROVE  /\ G2[M + 1 + k].served[d] = G2[M + 1 + (k - 1)].served[d] + (IF d = q[k] THEN 1 ELSE 0)
           /\ G2[M + 1 + k].served[q[k]] = G[M].served[q[k]] + 1
<1>1. k \in 0..n /\ k - 1 \in 0..n /\ k \in 1..k /\ 1..(k - 1) \subseteq 1..k /\ q[k] \in Component
      /\ \A j \in 1..k : j \in 1..n /\ (j \in 1..(k - 1) \/ j = k)
  BY DEF Orders
<1> DEFINE A == \E j \in 1..k : q[j] = d
           B == \E j \in 1..(k - 1) : q[j] = d
<1>2. /\ G2[M + 1 + k].served[d] = G[M].served[d] + (IF A THEN 1 ELSE 0)
      /\ G2[M + 1 + (k - 1)].served[d] = G[M].served[d] + (IF B THEN 1 ELSE 0)
      /\ G2[M + 1 + k].served[q[k]] = G[M].served[q[k]] + (IF \E j \in 1..k : q[j] = q[k] THEN 1 ELSE 0)
  BY <1>1 DEF Extends
<1>3. d = q[k] => A /\ ~B
  <2>0. n \in Nat
    BY DEF Orders
  <2>1. \A j \in 1..(k - 1) : j \in 1..n /\ j # k
    BY <2>0
  <2>2. \A i, j \in 1..n : q[i] = q[j] => i = j
    BY DEF Orders
  <2>3. d = q[k] => A
    BY <1>1
  <2>4. d = q[k] => ~B
    BY <2>1, <2>2
  <2> QED BY <2>3, <2>4
<1>4. d # q[k] => (A <=> B)
  BY <1>1
<1>5. \E j \in 1..k : q[j] = q[k]
  BY <1>1
<1> HIDE DEF A, B
<1>6. CASE d = q[k]
  BY <1>2, <1>3, <1>5, <1>6
<1>7. CASE d # q[k]
  <2>1. G2[M + 1 + k].served[d] = G2[M + 1 + (k - 1)].served[d] /\ G[M].served[d] \in Nat
    BY <1>2, <1>4, <1>7
  <2>2. G2[M + 1 + (k - 1)].served[d] \in Nat
    <3>1. CASE B
      BY <1>2, <2>1, <3>1
    <3>2. CASE ~B
      BY <1>2, <2>1, <3>2
    <3> QED BY <3>1, <3>2
  <2>3. G2[M + 1 + k].served[q[k]] = G[M].served[q[k]] + 1
    BY <1>2, <1>5
  <2> QED BY <1>7, <2>1, <2>2, <2>3
<1> QED BY <1>6, <1>7

\* The messages of S are taken.
Collected(S) ==
    \A c \in Component : IF c \in S THEN chan[MsgLink(c)] # <<>> /\ chan'[MsgLink(c)] = Tail(chan[MsgLink(c)])
                         ELSE chan'[MsgLink(c)] = chan[MsgLink(c)]

LEMMA LogCollected ==
    ASSUME NEW V, NEW N, NEW G, NEW M, LoopLog(V, N, G, M), \A c \in Component : LogOK(c, V[c], N[c]), G[M].rem = 0,
           NEW S, NEW q, NEW n, Orders(q, S, n), NEW G2, Extends(G2, G, M, q, n), Collected(S), NEW M2, M + 1 + n = M2
    PROVE  LoopLog(V, N, G2, M2)'
<1>1. /\ M \in Nat \ {0} /\ M \in 1..M /\ n \in Nat \ {0} /\ S \subseteq Component /\ 0 \in 0..n /\ M + 1 + 0 = M + 1
      /\ \A i \in 1..M : G[i].rem \in Nat /\ \A c \in Component : G[i].served[c] \in Nat
      /\ \A i \in 1..(M - 1) : Counted(G, i) \/ Requested(G, i, V, N)
      /\ \A c \in Component : Holds(chan[MsgLink(c)], V[c], N[c], G[M].served[c], "msg")
  BY DEF LoopLog, Orders
<1>2. \A c \in Component : G[M].served[c] \in Nat
  BY <1>1
<1>3. ASSUME NEW k \in 0..n PROVE G2[M + 1 + k].rem = n - k /\ n - k \in Nat /\ \A c \in Component : G2[M + 1 + k].served[c] \in Nat
  <2>1. G2[M + 1 + k].rem = n - k
    BY <1>3 DEF Extends
  <2>2. n - k \in Nat
    BY <1>1, <1>3
  <2>3. ASSUME NEW c \in Component PROVE G2[M + 1 + k].served[c] \in Nat
    <3>1. G2[M + 1 + k].served[c] = G[M].served[c] + (IF \E j \in 1..k : q[j] = c THEN 1 ELSE 0)
      BY <1>3 DEF Extends
    <3>2. G2[M + 1 + k].served[c] = G[M].served[c] + 1 \/ G2[M + 1 + k].served[c] = G[M].served[c] + 0
      BY <3>1, Zenon
    <3> QED BY <1>2, <3>2
  <2> QED BY <2>1, <2>2, <2>3
<1>4. ASSUME NEW i \in 1..M2, i \notin 1..M PROVE \E k \in 0..n : i = M + 1 + k
  <2>1. i - (M + 1) \in 0..n /\ i = M + 1 + (i - (M + 1))
    BY <1>1, <1>4
  <2> QED BY <2>1
<1>5. \A i \in 1..M : G2[i] = G[i]
  BY DEF Extends
<1>6. ASSUME NEW i \in 1..M2 PROVE G2[i].rem \in Nat /\ \A c \in Component : G2[i].served[c] \in Nat
  <2>1. CASE i \in 1..M
    BY <1>1, <1>5, <2>1
  <2>2. CASE i \notin 1..M
    <3>1. PICK k \in 0..n : i = M + 1 + k
      BY <1>4, <2>2
    <3> QED BY <1>3, <3>1
  <2> QED BY <2>1, <2>2
<1>7. ASSUME NEW k \in 1..n PROVE Requested(G2, M + 1 + (k - 1), V, N)
  <2> DEFINE i == M + 1 + (k - 1)
             c == q[k]
  <2>1. i + 1 = M + 1 + k /\ k \in 0..n /\ k - 1 \in 0..n /\ c \in S /\ c \in Component
    BY <1>1 DEF Orders
  <2>2. G2[i].rem = G2[i + 1].rem + 1
    <3>1. G2[M + 1 + k].rem = n - k /\ G2[M + 1 + (k - 1)].rem = n - (k - 1)
      BY <2>1 DEF Extends
    <3> QED BY <1>1, <2>1, <3>1
  <2>3. G2[M + 1 + k].val = <<c, Head(chan[MsgLink(c)]).x>>
    BY DEF Extends
  <2>4. /\ \A d \in Component : G2[M + 1 + k].served[d] = G2[M + 1 + (k - 1)].served[d] + (IF d = c THEN 1 ELSE 0)
        /\ G2[M + 1 + k].served[c] = G[M].served[c] + 1
    BY <1>1, <1>2, <2>1, ServedNext
  <2> HIDE DEF c
  <2> DEFINE m == G[M].served[c]
  <2>5. /\ Holds(chan[MsgLink(c)], V[c], N[c], m, "msg") /\ m \in Nat /\ chan[MsgLink(c)] # <<>> /\ "msg" \in Kinds
        /\ LogOK(c, V[c], N[c]) /\ V[c][N[c]].n["msg"] \in Nat
    <3>1. chan[MsgLink(c)] # <<>> /\ LogOK(c, V[c], N[c]) /\ "msg" \in Kinds
      BY <2>1 DEF Collected, Kinds
    <3>2. V[c][N[c]].n["msg"] \in Nat
      BY <3>1, LogAt
    <3> QED BY <1>1, <1>2, <2>1, <3>1, <3>2
  <2> HIDE DEF m
  <2>6. m + 1 <= V[c][N[c]].n["msg"]
    <3>1. m # V[c][N[c]].n["msg"] /\ m <= V[c][N[c]].n["msg"]
      BY <2>5, HoldsLen
    <3> QED BY <2>5, <3>1
  <2>7. ASSUME NEW j \in 1..N[c], V[c][j].kind = "msg", V[c][j].n["msg"] = m + 1
        PROVE  V[c][j].item.x = Head(chan[MsgLink(c)]).x
    <3>1. Head(chan[MsgLink(c)]) = V[c][j].item
      BY <2>5, <2>7, HoldsTaken
    <3> QED BY <3>1
  <2>8. G2[i + 1].served[c] = m + 1 /\ G2[i + 1].val = <<c, Head(chan[MsgLink(c)]).x>>
        /\ \A d \in Component : G2[i + 1].served[d] = G2[i].served[d] + (IF d = c THEN 1 ELSE 0)
    BY <2>1, <2>3, <2>4 DEF m
  <2> HIDE DEF i
  <2>9. G2[i + 1].val[1] = c /\ G2[i + 1].val[2] = Head(chan[MsgLink(c)]).x
    BY <2>8
  <2>10. Requested(G2, i, V, N)
    BY <2>1, <2>2, <2>6, <2>7, <2>8, <2>9 DEF Requested
  <2> QED BY <2>10 DEF i
<1>8. ASSUME NEW i \in 1..(M2 - 1) PROVE Counted(G2, i) \/ Requested(G2, i, V, N)
  <2>1. CASE i \in 1..(M - 1)
    <3>1. G2[i] = G[i] /\ G2[i + 1] = G[i + 1]
      <4>1. i \in 1..M /\ i + 1 \in 1..M
        BY <1>1, <2>1
      <4> QED BY <1>5, <4>1
    <3>2. Counted(G, i) \/ Requested(G, i, V, N)
      BY <1>1, <2>1
    <3> QED BY <3>1, <3>2 DEF Counted, Requested
  <2>2. CASE i = M
    <3>1. G2[i] = G[M]
      BY <1>1, <1>5, <2>2
    <3>2. G2[M + 1 + 0].rem = n - 0 /\ G2[M + 1].val = n
      BY <1>1 DEF Extends
    <3>3. \A c \in Component : G2[M + 1 + 0].served[c] = G[M].served[c] + (IF \E j \in 1..0 : q[j] = c THEN 1 ELSE 0)
      BY <1>1 DEF Extends
    <3>4. \A c \in Component : G2[M + 1].served[c] = G[M].served[c]
      <4>1. \A j \in 1..0 : FALSE
        OBVIOUS
      <4> QED BY <1>1, <1>2, <3>3, <4>1
    <3>5. G2[i + 1].rem = n /\ G2[i + 1].val = n /\ \A c \in Component : G2[i + 1].served[c] = G2[i].served[c]
      BY <1>1, <2>2, <3>1, <3>2, <3>4
    <3> QED BY <1>1, <3>1, <3>5 DEF Counted
  <2>3. CASE i \notin 1..M
    <3>1. PICK k \in 1..n : i = M + 1 + (k - 1)
      <4>1. i - M \in 1..n /\ i = M + 1 + ((i - M) - 1)
        BY <1>1, <2>3
      <4> QED BY <4>1
    <3> QED BY <1>7, <3>1
  <2>4. i \in 1..(M - 1) \/ i = M \/ i \notin 1..M
    BY <1>1
  <2> QED BY <2>1, <2>2, <2>3, <2>4
<1>9. ASSUME NEW c \in Component PROVE Holds(chan'[MsgLink(c)], V[c], N[c], G2[M2].served[c], "msg")
  <2>1. n \in 0..n /\ "msg" \in Kinds /\ LogOK(c, V[c], N[c])
    BY <1>1 DEF Kinds
  <2>2. G2[M2].served[c] = G[M].served[c] + (IF \E j \in 1..n : q[j] = c THEN 1 ELSE 0)
    BY <2>1 DEF Extends
  <2> DEFINE m == G[M].served[c]
  <2>3. Holds(chan[MsgLink(c)], V[c], N[c], m, "msg") /\ m \in Nat
    BY <1>1, <1>2
  <2>4. CASE c \in S
    <3>1. G2[M2].served[c] = m + 1
      BY <2>2, <2>4 DEF Orders
    <3>2. chan[MsgLink(c)] # <<>> /\ chan'[MsgLink(c)] = Tail(chan[MsgLink(c)])
      BY <2>4 DEF Collected
    <3> HIDE DEF m
    <3>3. m + 1 \in 1..V[c][N[c]].n["msg"]
      <4>1. m # V[c][N[c]].n["msg"] /\ m <= V[c][N[c]].n["msg"] /\ V[c][N[c]].n["msg"] \in Nat
        BY <2>1, <2>3, <3>2, HoldsLen, LogAt
      <4> QED BY <2>3, <4>1
    <3>4. PICK j \in 1..N[c] : V[c][j].kind = "msg" /\ V[c][j].n["msg"] = m + 1
      BY <2>1, <3>3 DEF LogOK, Found
    <3>5. Holds(Tail(chan[MsgLink(c)]), V[c], N[c], m + 1, "msg")
      BY <2>1, <2>3, <3>4, HoldsTaken
    <3> QED BY <3>1, <3>2, <3>5
  <2>5. CASE c \notin S
    <3>1. ~\E j \in 1..n : q[j] = c
      BY <2>5 DEF Orders
    <3>2. G2[M2].served[c] = m
      BY <2>2, <2>3, <3>1
    <3>3. chan'[MsgLink(c)] = chan[MsgLink(c)]
      BY <2>5 DEF Collected
    <3> QED BY <2>3, <3>2, <3>3
  <2> QED BY <2>4, <2>5
<1>10. M2 \in Nat \ {0}
  BY <1>1
<1> QED BY <1>6, <1>8, <1>9, <1>10 DEF LoopLog

\* The loop's log grows and the first I/O task t goes on with it.
LEMMA LoopsGrow ==
    ASSUME NEW V, NEW p, NEW G, NEW M, NEW g, LoopsAt(V, p, G, M, g), NEW t \in IOTask, Aside(t),
           NEW G2, \A i \in 1..g[ioroot] : G2[i] = G[i],
           NEW g2, \A o \in IOTask \ {t} : g2[o] = g[o],
           \A d \in Component : V[d][p[d][t]].n["msg"] = G2[g2[t]].served[d], NEW M2,
           LoopAt(t, loop[t], G2[g2[t]].rem)', Told1(g2, G2)', Kept1(g2, G2, M2)'
    PROVE  LoopsAt(V, p, G2, M2, g2)'
<1>0. ASSUME NEW o \in IOTask, o # t PROVE G2[g2[o]] = G[g[o]]
  <2>1. g[o] \in 1..g[ioroot] /\ g2[o] = g[o]
    BY <1>0 DEF LoopsAt
  <2> QED BY <2>1
<1>1. ASSUME NEW o \in IOTask PROVE LoopAt(o, loop[o], G2[g2[o]].rem)'
  <2>1. CASE o = t
    BY <2>1
  <2>2. CASE o # t
    <3>1. LoopAt(o, loop[o], G[g[o]].rem) /\ G2[g2[o]] = G[g[o]]
      BY <1>0, <2>2 DEF LoopsAt
    <3> QED BY <2>2, <3>1, AsideStays
  <2> QED BY <2>1, <2>2
<1>2. ASSUME NEW o \in IOTask, NEW d \in Component PROVE V[d][p[d][o]].n["msg"] = G2[g2[o]].served[d]
  <2>1. CASE o = t
    BY <2>1
  <2>2. CASE o # t
    <3>1. V[d][p[d][o]].n["msg"] = G[g[o]].served[d] /\ G2[g2[o]] = G[g[o]]
      BY <1>0, <2>2 DEF LoopsAt
    <3> QED BY <3>1
  <2> QED BY <2>1, <2>2
<1> QED BY <1>1, <1>2 DEF LoopsAt, Told1, Kept1

\* What has been collected.
LEMMA CollectedBy ==
    ASSUME NEW S \in SUBSET Component, NEW item,
           chan' = [l \in Links |-> IF l \in LoopLinks THEN Append(chan[l], item)
                                    ELSE IF l \in {MsgLink(c) : c \in S} THEN Tail(chan[l]) ELSE chan[l]],
           \A c \in S : chan[MsgLink(c)] # <<>>
    PROVE  /\ Collected(S) /\ \A l \in LoopLinks : chan'[l] = Append(chan[l], item)
           /\ \A l \in Links : l \notin LoopLinks /\ (\A c \in Component : l # MsgLink(c)) => chan'[l] = chan[l]
           /\ chan' = [l \in Links |-> chan'[l]]
<1>1. \A l \in LoopLinks : l \in Links
  BY DEF Links
<1>2. ASSUME NEW c \in Component
      PROVE IF c \in S THEN chan[MsgLink(c)] # <<>> /\ chan'[MsgLink(c)] = Tail(chan[MsgLink(c)])
                       ELSE chan'[MsgLink(c)] = chan[MsgLink(c)]
  <2>1. MsgLink(c) \in Links /\ MsgLink(c) \notin LoopLinks
    BY LinksAre, LinksApart
  <2>2. MsgLink(c) \in {MsgLink(d) : d \in S} <=> c \in S
    BY LinksApart
  <2> QED BY <2>1, <2>2
<1>3. \A l \in Links : l \notin LoopLinks /\ (\A c \in Component : l # MsgLink(c)) => chan'[l] = chan[l]
  OBVIOUS
<1> QED BY <1>1, <1>2, <1>3 DEF Collected

LEMMA QueueOf ==
    ASSUME NEW S, NEW q, NEW n, Orders(q, S, n), Sq(q), DOMAIN q = 1..n, NEW G, NEW M, NEW G2, Extends(G2, G, M, q, n)
    PROVE  \E r : /\ r = [i \in DOMAIN q |-> <<q[i], Head(chan[MsgLink(q[i])]).x>>]
                  /\ Sq(r) /\ Len(r) = n /\ \A k \in 1..n : r[k] = G2[M + 1 + k].val
<1> DEFINE r == [i \in 1..n |-> <<q[i], Head(chan[MsgLink(q[i])]).x>>]
<1>1. n \in Nat
  BY DEF Orders
<1>2. r \in Seq({<<q[i], Head(chan[MsgLink(q[i])]).x>> : i \in 1..n}) /\ Len(r) = n
  BY <1>1
<1>3. \A k \in 1..n : r[k] = G2[M + 1 + k].val
  BY DEF Extends
<1>4. r = [i \in DOMAIN q |-> <<q[i], Head(chan[MsgLink(q[i])]).x>>]
  OBVIOUS
<1> QED BY <1>2, <1>3, <1>4 DEF Sq

LEMMA WaitSomeGoes ==
    ASSUME NEW V, NEW N, NEW p, NEW G, NEW M, NEW g, Explained(V, N, p, G, M, g), NEW S \in SUBSET Component, WaitSome(S)
    PROVE  \E G2, M2, g2 : Explained(V, N, p, G2, M2, g2)'
<1>0. SUFFICES ASSUME NEW t, ioroot = t PROVE \E G2, M2, g2 : Explained(V, N, p, G2, M2, g2)'
  OBVIOUS
<1>1. PICK q \in SetToSeqs(S) :
        /\ loop[t].at = "top" /\ S # {} /\ \A c \in S : chan[MsgLink(c)] # <<>>
        /\ chan' = [l \in Links |-> IF l \in LoopLinks THEN Append(chan[l], Item(INT("outcount"), FALSE, Len(q)))
                                    ELSE IF l \in {MsgLink(c) : c \in S} THEN Tail(chan[l]) ELSE chan[l]]
        /\ loop' = [loop EXCEPT ![t] = [Top EXCEPT !.at = "request",
                                        !.queue = [i \in DOMAIN q |-> <<q[i], Head(chan[MsgLink(q[i])]).x>>]]]
        /\ UNCHANGED <<todo, pending, cur, ierr, tables, next_id, eh, open, made>>
  BY <1>0, Zenon DEF WaitSome, Moves
<1>2. PICK n : Orders(q, S, n) /\ Len(q) = n /\ Sq(q) /\ DOMAIN q = 1..n
  BY <1>1, OrdersOf
<1>3. /\ t \in IOTask /\ Shaped /\ LoopsAt(V, p, G, M, g) /\ LoopLog(V, N, G, M) /\ LoopAt(t, loop[t], G[g[t]].rem)
      /\ Told1(g, G) /\ Kept1(g, G, M) /\ Numbers(V, N, p) /\ \A c \in Component : Follows(c, V[c], N[c], p[c])
  <2>1. t \in IOTask /\ Shaped /\ LoopsAt(V, p, G, M, g) /\ LoopLog(V, N, G, M)
        /\ Numbers(V, N, p) /\ \A c \in Component : Follows(c, V[c], N[c], p[c])
    BY <1>0, TaskKinds DEF Explained
  <2>2. LoopAt(t, loop[t], G[g[t]].rem)
    BY <2>1 DEF LoopsAt
  <2>3. Told1(g, G) /\ Kept1(g, G, M)
    BY <2>1, LoopsTold
  <2> QED BY <2>1, <2>2, <2>3
<1>4. /\ M \in Nat \ {0} /\ g[t] = M /\ G[M].rem = 0 /\ n \in Nat \ {0}
  <2>1. G[g[t]].rem = 0 /\ M = g[t] + G[g[t]].rem /\ M \in Nat \ {0} /\ g[t] \in 1..g[t]
    BY <1>0, <1>1, <1>3 DEF LoopAt, LoopLog, Kept1, Told1
  <2> QED BY <1>2, <2>1 DEF Orders
<1>5. PICK G2 : Extends(G2, G, M, q, n)
  BY <1>4, ExtendsBy
<1>6. PICK r : /\ r = [i \in DOMAIN q |-> <<q[i], Head(chan[MsgLink(q[i])]).x>>]
               /\ Sq(r) /\ Len(r) = n /\ \A k \in 1..n : r[k] = G2[M + 1 + k].val
  BY <1>2, <1>5, QueueOf
<1>7. PICK item : item = Item(INT("outcount"), FALSE, n)
  OBVIOUS
<1>8. PICK m : m = [Top EXCEPT !.at = "request", !.queue = r]
  OBVIOUS
<1>9. /\ Collected(S) /\ \A l \in LoopLinks : chan'[l] = Append(chan[l], item)
      /\ \A l \in Links : l \notin LoopLinks /\ (\A c \in Component : l # MsgLink(c)) => chan'[l] = chan[l]
      /\ chan' = [l \in Links |-> chan'[l]]
  <2>1. /\ chan' = [l \in Links |-> IF l \in LoopLinks THEN Append(chan[l], item)
                                    ELSE IF l \in {MsgLink(c) : c \in S} THEN Tail(chan[l]) ELSE chan[l]]
        /\ \A c \in S : chan[MsgLink(c)] # <<>>
    BY <1>1, <1>2, <1>7
  <2> QED BY <2>1, CollectedBy
<1>10. loop' = [loop EXCEPT ![t] = m] /\ UNCHANGED <<todo, pending, cur, ierr, tables, next_id, eh, open, made>>
  BY <1>1, <1>6, <1>8
<1>11. Shaped' /\ loop'[t] = m /\ \A o \in IOTask \ {t} : loop'[o] = loop[o]
  BY <1>3, <1>9, <1>10, ShapedAside
<1>12. Aside(t)
  <2>1. \A c \in Component : \A k \in Kinds : \A o \in Readers(c, k) : Box(o, c, k)' = Box(o, c, k)
    BY <1>9, <1>10, BoxesAside
  <2> QED BY <1>10, <1>11, <2>1 DEF Aside
<1>13. LoopAt(t, loop[t], n)' /\ m.c \notin Component /\ m.queue = r
  <2>1. m = [at |-> "request", c |-> "none", msg |-> "none", f |-> {}, got |-> 0, queue |-> r]
    BY <1>8, ComeRec
  <2>2. /\ m.at = "request" /\ m.c = "none" /\ m.queue = r /\ m.f = {} /\ m.got = 0
        /\ m = [at |-> m.at, c |-> m.c, msg |-> m.msg, f |-> m.f, got |-> m.got, queue |-> m.queue]
    BY <2>1
  <2>3. todo'[t] = <<>> /\ cur'[t] = NoArgs
    BY <1>1, <1>3 DEF LoopAt
  <2>4. LoopAt(t, m, n)'
    BY <1>4, <1>6, <2>2, <2>3 DEF LoopAt
  <2> QED BY <1>11, <2>2, <2>4, AsyncAssumption DEF AsyncAssumption
<1> DEFINE g2 == [o \in IOTask |-> IF o = t THEN M + 1 ELSE g[o]]
<1>14. (\A o \in IOTask \ {t} : g2[o] = g[o]) /\ g2[t] = M + 1
  BY <1>3
<1> HIDE DEF g2
<1>15. PICK M2 : M2 = M + 1 + n
  OBVIOUS
<1>16. LoopLog(V, N, G2, M2)'
  <2>1. \A c \in Component : LogOK(c, V[c], N[c])
    BY <1>3 DEF Follows
  <2> QED BY <1>2, <1>3, <1>4, <1>5, <1>9, <1>15, <2>1, LogCollected
<1>17. /\ G2[M + 1].rem = n /\ G2[M + 1].val = n /\ (\A i \in 1..M : G2[i] = G[i])
       /\ \A c \in Component : G2[M + 1].served[c] = G[M].served[c]
  <2>1. 0 \in 0..n /\ M + 1 + 0 = M + 1 /\ n - 0 = n /\ \A j \in 1..0 : FALSE
    BY <1>4
  <2>2. /\ G2[M + 1 + 0].rem = n - 0 /\ G2[M + 1].val = n /\ (\A i \in 1..M : G2[i] = G[i])
        /\ \A c \in Component : G2[M + 1 + 0].served[c] = G[M].served[c] + (IF \E j \in 1..0 : q[j] = c THEN 1 ELSE 0)
    BY <1>5, <2>1 DEF Extends
  <2>3. \A c \in Component : G[M].served[c] \in Nat
    <3>1. M \in 1..M
      BY <1>4
    <3> QED BY <1>3, <3>1 DEF LoopLog
  <2> QED BY <2>1, <2>2, <2>3
<1>18. Told1(g2, G2)'
  <2>1. item.val = G2[g[ioroot] + 1].val
    BY <1>0, <1>4, <1>7, <1>17 DEF Item
  <2>2. /\ \A i \in 1..g[ioroot] : G2[i] = G[i]
        /\ (\A o \in IOTask \ {ioroot} : g2[o] = g[o]) /\ g2[ioroot] = g[ioroot] + 1
    BY <1>0, <1>4, <1>14, <1>17
  <2>3. Told1(g, G) /\ \A l \in LoopLinks : chan'[l] = Append(chan[l], item)
    BY <1>3, <1>9
  <2> QED BY <2>1, <2>2, <2>3, ToldSent
<1>19. Kept1(g2, G2, M2)'
  <2>1. g2[ioroot] = M + 1 /\ loop'[ioroot].queue = r
    BY <1>0, <1>11, <1>13, <1>14
  <2>2. M2 = (M + 1) + G2[M + 1].rem
    BY <1>15, <1>17
  <2>3. \A j \in 1..G2[M + 1].rem : r[j] = G2[(M + 1) + j].val
    BY <1>6, <1>17
  <2> QED BY <2>1, <2>2, <2>3 DEF Kept1
<1>20. LoopsAt(V, p, G2, M2, g2)'
  <2>1. \A i \in 1..g[ioroot] : G2[i] = G[i]
    BY <1>0, <1>4, <1>17
  <2>2. \A d \in Component : V[d][p[d][t]].n["msg"] = G2[g2[t]].served[d]
    <3>1. \A d \in Component : V[d][p[d][t]].n["msg"] = G[g[t]].served[d]
      BY <1>3 DEF LoopsAt
    <3> QED BY <1>4, <1>14, <1>17, <3>1
  <2>3. LoopAt(t, loop[t], G2[g2[t]].rem)'
    <3>1. G2[g2[t]].rem = n
      BY <1>14, <1>17
    <3> QED BY <1>13, <3>1
  <2> QED BY <1>3, <1>12, <1>14, <1>18, <1>19, <2>1, <2>2, <2>3, LoopsGrow
<1>21. \A c \in Component : Follows(c, V[c], N[c], p[c])'
  <2>1. loop'[t].c \notin Component
    BY <1>11, <1>13
  <2> QED BY <1>1, <1>3, <1>12, <2>1, FollowsIdle
<1>22. Numbers(V, N, p)'
  BY <1>3, <1>12, NumbersAside
<1> QED BY <1>11, <1>16, <1>20, <1>21, <1>22 DEF Explained

-----------------------------------------------------------------------------
(***************************************************************************)
(* The initial states, and steps that change nothing.                      *)
(***************************************************************************)
Fresh(v, h) ==
    /\ v.a = <<>> /\ v.b = <<>> /\ v.ph = "in" /\ v.kind = "none" /\ v.have = {} /\ v.open = TRUE /\ v.ierr = "ok"
    /\ v.tbl = {} /\ v.all = {} /\ v.made = [file |-> 0, decomp |-> 0] /\ v.eh = h
    /\ v.cur = NoArgs /\ v.io = NoArgs /\ \A k \in Kinds : v.n[k] = 0

LEMMA FreshOK ==
    ASSUME NEW c, NEW v, NEW h, Fresh(v, h)
    PROVE  OK(c, v) /\ R(v, v)
<1>1. \A i \in DOMAIN v.a : FALSE
  BY DEF Fresh
<1>2. Shape(v)
  <2>1. IsArgs(NoArgs)
    BY DEF IsArgs, NoArgs
  <2>2. (\A x \in Kinds : v.n[x] = 0) /\ 0 \in Nat /\ v.open = TRUE
    BY DEF Fresh
  <2>3. Sq(v.a) /\ Sq(v.b) /\ IsArgs(v.cur) /\ IsArgs(v.io) /\ v.ph = "in"
    BY <2>1, SqEmpty DEF Fresh
  <2> QED BY <2>2, <2>3 DEF Shape
<1>3. Covers(v.a, v.b)
  <2>1. Len(v.a) = 0 /\ Len(v.b) = 0 /\ \A i \in DOMAIN v.b : FALSE
    BY DEF Fresh
  <2>2. 0 \in 0..0 /\ \A i \in (0 + 1)..0 : FALSE
    OBVIOUS
  <2> QED BY <2>1, <2>2 DEF Covers
<1>4. Phase(v)
  BY <1>3 DEF Fresh, Phase
<1>5. Text(v) /\ Calm(v) /\ NoError(v)
  BY <1>1 DEF Fresh, Text, Failing, Calm, NoError, HasMessage
<1>6. Knows(v) /\ Listed(c, v)
  BY <1>1 DEF Fresh, Knows, Listed, NoArgs, HasMessage
<1>7. R(v, v)
  BY <1>2 DEF Fresh, R, Later, Missed, Passed, Numbered, At1, Idle, Shape
<1> QED BY <1>2, <1>4, <1>5, <1>6, <1>7 DEF OK

LEMMA FreshLog ==
    ASSUME NEW c \in Component, NEW V, NEW N, NEW h, N = 1, Fresh(V[1], h)
    PROVE  LogOK(c, V, N) /\ \A k \in Kinds : Holds(<<>>, V, N, 0, k)
<1>1. OK(c, V[1]) /\ R(V[1], V[1])
  BY FreshOK
<1>2. \A i \in 1..N : i = 1
  OBVIOUS
<1>3. \A i \in 1..(N - 1) : FALSE
  OBVIOUS
<1>4. ASSUME NEW k \in Kinds PROVE Found(V, N, k) /\ Holds(<<>>, V, N, 0, k)
  <2>1. V[N].n[k] = 0 /\ \A m \in 1..0 : FALSE
    BY DEF Fresh
  <2>2. \A j \in 1..N : ~(V[j].kind = k /\ V[j].n[k] > 0)
    BY <1>2, <2>1
  <2>3. Sq(<<>>) /\ Len(<<>>) = 0
    BY SqEmpty
  <2> QED BY <2>1, <2>2, <2>3 DEF Found, Holds
<1>5. Found(V, N, "msg") /\ Found(V, N, "comp")
  BY <1>4 DEF Kinds
<1>6. V[1].kind = "none"
  BY DEF Fresh
<1>7. \A i \in 1..N, j \in 1..N : i <= j => R(V[i], V[j])
  BY <1>1, <1>2
<1>8. \A i \in 1..N : OK(c, V[i])
  BY <1>1, <1>2
<1> QED BY <1>3, <1>4, <1>5, <1>6, <1>7, <1>8 DEF LogOK

LEMMA InitShaped == ASSUME Init PROVE Shaped
<1>1. \A l \in {chan, todo, pending, cur, ierr, tables} : l = l
  OBVIOUS
<1>2. next_id = [t \in Task |-> [k \in {"file", "decomp"} |-> next_id[t][k]]]
  <2>1. next_id = [t \in Task |-> [file |-> 16, decomp |-> 512]]
    BY DEF Init
  <2>2. [file |-> 16, decomp |-> 512] = [k \in {"file", "decomp"} |-> [file |-> 16, decomp |-> 512][k]]
    OBVIOUS
  <2> QED BY <2>1, <2>2
<1>3. eh = [t \in Task |-> [c \in Component |-> eh[t][c]]]
  BY DEF Init
<1>4. made = [t \in Task |-> [c \in Component |-> made[t][c]]]
  BY DEF Init
<1>5. /\ chan = [l \in Links |-> chan[l]] /\ todo = [t \in Task |-> todo[t]]
      /\ pending = [t \in CompTasks |-> pending[t]] /\ cur = [t \in Task |-> cur[t]]
      /\ ierr = [t \in Task |-> ierr[t]] /\ tables = [t \in Task |-> tables[t]]
      /\ loop = [t \in IOTask |-> loop[t]] /\ open = [t \in Task |-> open[t]]
  BY DEF Init
<1>6. \A t \in Task : \A e \in tables[t] : e.c \in Component
  BY DEF Init
<1> QED BY <1>2, <1>3, <1>4, <1>5, <1>6 DEF Shaped

LEMMA InitExplained ==
    ASSUME Init
    PROVE  \E V, N, p, G, M, g : Explained(V, N, p, G, M, g)
<1>1. PICK h \in Handlers : eh = [t \in Task |-> [c \in Component |-> h]]
  BY DEF Init
<1>2. PICK v : Fresh(v, h)
  <2> DEFINE w == [a |-> <<>>, b |-> <<>>, ph |-> "in", kind |-> "none", have |-> {}, open |-> TRUE, ierr |-> "ok",
                   tbl |-> {}, all |-> {}, made |-> [file |-> 0, decomp |-> 0], eh |-> h,
                   cur |-> NoArgs, io |-> NoArgs, n |-> [k \in Kinds |-> 0]]
  <2>1. Fresh(w, h)
    BY DEF Fresh
  <2> QED BY <2>1
<1>3. PICK V : \A c \in Component : V[c][1] = v
  <2>1. \A c \in Component : [d \in Component |-> [i \in {1} |-> v]][c][1] = v
    OBVIOUS
  <2> QED BY <2>1
<1>4. PICK N : \A c \in Component : N[c] = 1
  <2>1. \A c \in Component : [d \in Component |-> 1][c] = 1
    OBVIOUS
  <2> QED BY <2>1
<1>5. PICK p : \A c \in Component : \A t \in Task : p[c][t] = 1
  <2>1. \A c \in Component : \A t \in Task : [d \in Component |-> [o \in Task |-> 1]][c][t] = 1
    OBVIOUS
  <2> QED BY <2>1
<1>6. PICK G : G[1].rem = 0 /\ \A c \in Component : G[1].served[c] = 0
  <2> DEFINE F == [i \in {1} |-> [rem |-> 0, served |-> [c \in Component |-> 0]]]
  <2>1. F[1].rem = 0 /\ \A c \in Component : F[1].served[c] = 0
    OBVIOUS
  <2> QED BY <2>1
<1>7. PICK g : \A t \in IOTask : g[t] = 1
  <2>1. \A t \in IOTask : [o \in IOTask |-> 1][t] = 1
    OBVIOUS
  <2> QED BY <2>1
<1>8. /\ (\A l \in Links : chan[l] = <<>>) /\ (\A t \in Task : todo[t] = <<>>) /\ (\A t \in CompTasks : pending[t] = <<>>)
      /\ (\A t \in Task : cur[t] = NoArgs /\ ierr[t] = "ok" /\ tables[t] = {} /\ next_id[t] = [file |-> 16, decomp |-> 512])
      /\ (\A t \in IOTask : loop[t] = Top /\ open[t] = Component)
      /\ \A t \in Task : \A c \in Component : made[t][c] = [file |-> 0, decomp |-> 0] /\ eh[t][c] = h
  <2>1. IOTask \subseteq Task
    BY DEF Task
  <2> QED BY <1>1, <2>1 DEF Init
<1>9. ASSUME NEW c \in Component PROVE Follows(c, V[c], N[c], p[c])
  <2>1. LogOK(c, V[c], N[c]) /\ \A k \in Kinds : Holds(<<>>, V[c], N[c], 0, k)
    BY <1>2, <1>3, <1>4, FreshLog
  <2>2. \A t \in Members(c) : t \in Task /\ p[c][t] = 1
    BY <1>5, TaskKinds
  <2>3. ASSUME NEW k \in Kinds, NEW t \in Readers(c, k) PROVE Box(t, c, k) = <<>>
    <3>1. t \in Members(c)
      BY ReadersIn
    <3>2. k = "begin" => pending[t] = <<>>
      BY <1>8, TaskKinds DEF Readers
    <3>3. t \in IOTask => chan[<<"inter", c, t>>] = <<>>
      BY <1>8, LinksAre
    <3>4. t # comproot(c) => chan[<<"comp", c, t>>] = <<>>
      BY <1>8, <3>1, LinksAre
    <3>5. t # ioroot => chan[<<"io", c, t>>] = <<>>
      BY <1>8, <3>1, LinksAre
    <3> QED BY <3>2, <3>3, <3>4, <3>5 DEF Box
  <2>4. Boxes(c, V[c], N[c], p[c])
    <3> SUFFICES ASSUME NEW k \in Kinds, NEW t \in Readers(c, k)
                 PROVE  Holds(Box(t, c, k), V[c], N[c], V[c][p[c][t]].n[k], k)
      BY DEF Boxes
    <3>1. V[c][p[c][t]].n[k] = 0
      <4>1. t \in Members(c)
        BY ReadersIn
      <4> QED BY <1>2, <1>3, <2>2, <4>1 DEF Fresh
    <3> QED BY <2>1, <2>3, <3>1
  <2>5. Tokens(ioroot, v) /\ \A t : Tokens(t, v)
    BY <1>2 DEF Tokens, Fresh
  <2>6. ASSUME NEW t \in CompTask(c) PROVE CompAt(t, c, V[c][p[c][t]])
    <3>1. V[c][p[c][t]] = v /\ t \in Task /\ t \notin IOTask /\ t[1] = c
      BY <1>3, <2>2, TaskKinds
    <3>2. open[t] = {c}
      BY <3>1 DEF Init
    <3>3. todo[t] = v.a /\ v.ph = "in" /\ ierr[t] = v.ierr /\ cur[t] = v.cur /\ tables[t] = v.tbl
          /\ made[t][c] = v.made /\ eh[t][c] = v.eh /\ v.open = TRUE
      BY <1>2, <1>8, <3>1 DEF Fresh
    <3> QED BY <2>5, <3>1, <3>2, <3>3 DEF CompAt
  <2>7. ASSUME NEW t \in IOTask PROVE IOAt(t, c, V[c][p[c][t]], V[c][N[c]].n["begin"])
    <3>1. V[c][p[c][t]] = v /\ t \in Task
      BY <1>3, <2>2, TaskKinds
    <3>2. loop[t] = Top /\ ~Serves(t, c) /\ loop[t].c # c
      BY <1>8, AsyncAssumption DEF Serves, Top, AsyncAssumption
    <3>3. {e \in tables[t] : e.c = c} = v.tbl /\ made[t][c] = v.made /\ eh[t][c] = v.eh /\ c \in open[t] /\ v.open = TRUE
          /\ Idle(v)
      BY <1>2, <1>8, <3>1 DEF Fresh, Idle
    <3> QED BY <3>1, <3>2, <3>3 DEF IOAt
  <2>8. \A t \in Members(c) : p[c][t] \in 1..N[c]
    BY <1>4, <2>2
  <2> QED BY <2>1, <2>4, <2>6, <2>7, <2>8 DEF Follows, TasksAt
<1>10. LoopLog(V, N, G, 1)
  <2>1. ASSUME NEW c \in Component PROVE Holds(chan[MsgLink(c)], V[c], N[c], G[1].served[c], "msg")
    <3>1. Holds(<<>>, V[c], N[c], 0, "msg")
      BY <1>2, <1>3, <1>4, FreshLog DEF Kinds
    <3>2. chan[MsgLink(c)] = <<>>
      BY <1>8, LinksAre
    <3> QED BY <1>6, <3>1, <3>2
  <2>2. \A i \in 1..1 : i = 1
    OBVIOUS
  <2>3. \A i \in 1..(1 - 1) : FALSE
    OBVIOUS
  <2> QED BY <1>6, <2>1, <2>2, <2>3 DEF LoopLog
<1>11. LoopsAt(V, p, G, 1, g)
  <2>1. ASSUME NEW t \in IOTask PROVE LoopAt(t, loop[t], 0)
    <3>1. loop[t] = Top /\ todo[t] = <<>> /\ cur[t] = NoArgs
      BY <1>8, TaskKinds DEF Task
    <3>2. Sq(<<>>) /\ Len(<<>>) = 0
      BY SqEmpty
    <3>3. /\ Top = [at |-> Top.at, c |-> Top.c, msg |-> Top.msg, f |-> Top.f, got |-> Top.got, queue |-> Top.queue]
          /\ Top.at = "top" /\ Top.queue = <<>> /\ Top.f = {} /\ Top.got = 0
      BY DEF Top
    <3> QED BY <3>1, <3>2, <3>3 DEF LoopAt
  <2>2. ASSUME NEW t \in IOTask, NEW c \in Component PROVE V[c][p[c][t]].n["msg"] = G[g[t]].served[c]
    <3>1. t \in Task
      BY DEF Task
    <3> QED BY <1>2, <1>3, <1>5, <1>6, <1>7, <3>1 DEF Fresh, Kinds
  <2>3. ASSUME NEW t \in IOTask, t # ioroot PROVE chan[<<"loop", "io", t>>] = <<>>
    BY <1>8, <2>3, LinksApart
  <2>4. ioroot \in IOTask
    BY TaskKinds
  <2>5. \A j \in 1..0 : FALSE
    OBVIOUS
  <2>6. Sq(<<>>) /\ Len(<<>>) = 1 - 1 /\ 1 \in 1..1 /\ 1 = 1 + 0 /\ 1 - 1 = 0
    BY SqEmpty
  <2> QED BY <1>6, <1>7, <2>1, <2>2, <2>3, <2>4, <2>5, <2>6 DEF LoopsAt
<1>12. Numbers(V, N, p)
  <2>1. ioroot \in Task
    BY TaskKinds DEF Task
  <2>2. \A k \in {"file", "decomp"} : next_id[ioroot][k] \in Nat \ {0}
    <3>1. next_id[ioroot] = [file |-> 16, decomp |-> 512]
      BY <1>8, <2>1
    <3> QED BY <3>1
  <2>3. \A c \in Component : V[c][p[c][ioroot]].all = {} /\ V[c][N[c]].all = {}
    BY <1>2, <1>3, <1>4, <1>5, <2>1 DEF Fresh
  <2> QED BY <2>2, <2>3 DEF Numbers
<1>13. Explained(V, N, p, G, 1, g)
  BY <1>9, <1>10, <1>11, <1>12, InitShaped DEF Explained
<1> QED BY <1>13

LEMMA StutterGoes ==
    ASSUME NEW V, NEW N, NEW p, NEW G, NEW M, NEW g, Explained(V, N, p, G, M, g), UNCHANGED vars
    PROVE  Explained(V, N, p, G, M, g)'
<1>1. UNCHANGED <<chan, todo, pending, cur, ierr, tables, next_id, eh, loop, open, made>>
  BY DEF vars
<1>2. Shaped /\ (\A c \in Component : Follows(c, V[c], N[c], p[c]))
      /\ LoopLog(V, N, G, M) /\ LoopsAt(V, p, G, M, g) /\ Numbers(V, N, p)
  BY DEF Explained
<1>3. Shaped'
  BY <1>1, <1>2 DEF Shaped
<1>4. LoopLog(V, N, G, M)'
  BY <1>1, <1>2 DEF LoopLog
<1>5. LoopsAt(V, p, G, M, g)'
  BY <1>1, <1>2 DEF LoopsAt, LoopAt
<1>6. Numbers(V, N, p)'
  BY <1>1, <1>2 DEF Numbers
<1>7. \A t, c, k : Box(t, c, k)' = Box(t, c, k)
  BY <1>1 DEF Box
<1>8. \A t, v : Tokens(t, v)' = Tokens(t, v)
  BY <1>1 DEF Tokens
<1>9. \A t, c : Serves(t, c)' = Serves(t, c)
  BY <1>1 DEF Serves
<1>10. \A t, c, v : CompAt(t, c, v) => CompAt(t, c, v)'
  BY <1>1, <1>8 DEF CompAt
<1>11. \A t, c, v, b : IOAt(t, c, v, b) => IOAt(t, c, v, b)'
  BY <1>1, <1>8, <1>9 DEF IOAt
<1>12. \A c \in Component : Follows(c, V[c], N[c], p[c])'
  BY <1>2, <1>7, <1>10, <1>11 DEF Follows, Boxes, TasksAt
<1> QED BY <1>3, <1>4, <1>5, <1>6, <1>12 DEF Explained

-----------------------------------------------------------------------------
(***************************************************************************)
(* Every reachable state is explained by the logs.                         *)
(***************************************************************************)
Logged == \E V, N, p, G, M, g : Explained(V, N, p, G, M, g)

LEMMA NextGoes ==
    ASSUME CallsAgree, InnerErrors = FALSE, SyncErrors = FALSE, Logged, [Next]_vars
    PROVE  Logged'
<1>1. PICK V, N, p, G, M, g : Explained(V, N, p, G, M, g)
  BY DEF Logged
<1>2. (\E V2, N2, p2 : Explained(V2, N2, p2, G, M, g)') => Logged'
  BY DEF Logged
<1>3. (\E p2, g2 : Explained(V, N, p2, G, M, g2)') => Logged'
  BY DEF Logged
<1>4. (\E G2, M2, g2 : Explained(V, N, p, G2, M2, g2)') => Logged'
  BY DEF Logged
<1>5. Explained(V, N, p, G, M, g)' => Logged'
  BY DEF Logged
<1>6. ASSUME NEW t \in CompTasks, Begin(t) PROVE Logged'
  BY <1>1, <1>2, <1>6, BeginGoes
<1>7. ASSUME NEW t \in CompTasks, Follow(t) PROVE Logged'
  BY <1>1, <1>2, <1>7, FollowGoes
<1>8. ASSUME NEW t \in Task, CallStep(t) PROVE Logged'
  <2>1. CASE SendMessage(t)
    BY <1>1, <1>2, <2>1, SendMessageGoes
  <2>2. CASE SendArg(t)
    BY <1>1, <1>2, <2>2, SendArgGoes
  <2>3. CASE PassOver(t)
    BY <1>1, <1>2, <2>3, PassOverGoes
  <2>4. CASE SendShare(t)
    BY <1>1, <1>2, <2>4, SendShareGoes
  <2>5. CASE SendAnswer(t)
    BY <1>1, <1>2, <2>5, SendAnswerGoes
  <2>6. CASE SendOutcome(t)
    BY <1>1, <1>2, <2>6, SendOutcomeGoes
  <2>7. CASE Receives(t)
    BY <1>1, <1>2, <2>7, ReceivesGoes
  <2>8. CASE OwnResult(t)
    BY <1>1, <1>2, <2>8, OwnResultGoes
  <2>9. CASE HandleError(t)
    BY <1>1, <1>2, <2>9, HandleErrorGoes
  <2>10. CASE EndOrForget(t)
    BY <1>1, <1>2, <2>10, EndOrForgetGoes
  <2>11. CASE TakeEffect(t)
    BY <1>1, <1>2, <2>11, TakeEffectGoes
  <2> QED BY <1>8, <2>1, <2>2, <2>3, <2>4, <2>5, <2>6, <2>7, <2>8, <2>9, <2>10, <2>11 DEF CallStep
<1>9. ASSUME NEW t \in IOTask, LoopStep(t) PROVE Logged'
  <2>1. ASSUME NEW S \in SUBSET Component, WaitSome(S) PROVE Logged'
    BY <1>1, <1>4, <2>1, WaitSomeGoes
  <2>2. CASE NextRequest
    BY <1>1, <1>3, <2>2, NextRequestGoes
  <2>3. CASE t # ioroot /\ HearRequest(t)
    BY <1>1, <1>3, <2>3, HearRequestGoes
  <2>4. CASE TakeArg(t)
    BY <1>1, <1>2, <2>4, TakeArgGoes
  <2>5. CASE ServeCall(t)
    BY <1>1, <1>2, <2>5, ServeCallGoes
  <2>6. CASE EndRequest(t)
    BY <1>1, <1>2, <2>6, EndRequestGoes
  <2> QED BY <1>9, <2>1, <2>2, <2>3, <2>4, <2>5, <2>6 DEF LoopStep
<1>10. CASE UNCHANGED vars
  BY <1>1, <1>5, <1>10, StutterGoes
<1>11. CASE Done
  BY <1>10, <1>11 DEF Done
<1>12. CASE Next
  BY <1>6, <1>7, <1>8, <1>9, <1>11, <1>12 DEF Next
<1> QED BY <1>10, <1>12

LEMMA SpecLogged ==
    ASSUME CallsAgree, InnerErrors = FALSE, SyncErrors = FALSE
    PROVE  Spec => []Logged
<1>1. Init => Logged
  BY InitExplained DEF Logged
<1>2. Logged /\ [Next]_vars => Logged'
  BY NextGoes
<1> QED BY <1>1, <1>2, PTL DEF Spec

-----------------------------------------------------------------------------
(***************************************************************************)
(* What follows.                                                           *)
(***************************************************************************)
LEMMA HeardInStep ==
    ASSUME Logged, NEW t \in Task, Waits(t), chan[Source(t)] # <<>>
    PROVE  Head(chan[Source(t)]).x = Meant(Step(t))
<1>1. PICK V, N, p, G, M, g : Explained(V, N, p, G, M, g)
  BY DEF Logged
<1>2. PICK c, v : c = CompOf(t) /\ v = V[c][p[c][t]]
  OBVIOUS
<1>3. /\ KindOf(t) \in {"comp", "io"} /\ Step(t).do \in FromComp \cup FromIO
      /\ KindOf(t) = "comp" => Step(t).do \in FromComp
      /\ KindOf(t) = "io" => Step(t).do \in FromIO
  BY <1>1, <1>2, WaitsAt
<1>4. PICK j \in 1..N[c] : \E x : Due(t, c, v, x, V[c][j])
  BY <1>1, <1>2, DueIs
<1>5. PICK x : Due(t, c, v, x, V[c][j])
  BY <1>4
<1>6. PICK s, w : s = Step(t) /\ w = V[c][j]
  OBVIOUS
<1>7. /\ OK(c, x) /\ VStep(c, x, w) /\ x.a[1].do = s.do /\ w.kind = KindOf(t) /\ w.item = Head(chan[Source(t)])
      /\ (t \notin IOTask => x.a[1] = s) /\ (t \in IOTask => Same(x.a[1], s))
  BY <1>5, <1>6 DEF Due
<1>8. s.do \in FromComp \cup {"answer", "next_id", "effect"} => x.a[1].x = s.x
  BY <1>7 DEF Same
<1>9. CASE KindOf(t) = "comp"
  <2>1. ShareStep(x, w)
    BY <1>7, <1>9, StepKinds
  <2>2. w.item.x = x.a[1].x
    BY <2>1 DEF ShareStep, Item
  <2>3. s.do \in FromComp
    BY <1>3, <1>6, <1>9
  <2>4. Meant(s) = s.x
    BY <2>3 DEF Meant, FromComp
  <2> QED BY <1>6, <1>7, <1>8, <2>2, <2>3, <2>4
<1>10. CASE KindOf(t) = "io"
  <2>1. AnswerStep(x, w) \/ OutcomeStep(x, w)
    BY <1>7, <1>10, StepKinds
  <2>2. CASE AnswerStep(x, w)
    <3>1. w.item.x = Meant(x.a[1]) /\ s.do \in {"answer", "status", "next_id"}
      BY <1>7, <2>2 DEF AnswerStep, Item, At1
    <3>2. Meant(x.a[1]) = Meant(s)
      BY <1>7, <1>8, <3>1 DEF Meant
    <3> QED BY <1>6, <1>7, <3>1, <3>2
  <2>3. CASE OutcomeStep(x, w)
    <3>1. w.item.x = Ierr /\ s.do = "outcome"
      BY <1>7, <2>3 DEF OutcomeStep, Item, At1
    <3>2. Meant(s) = Ierr
      BY <3>1 DEF Meant
    <3> QED BY <1>6, <1>7, <3>1, <3>2
  <2> QED BY <2>1, <2>2, <2>3
<1> QED BY <1>3, <1>9, <1>10

LEMMA ArgInStep ==
    ASSUME Logged, NEW t \in IOTask, loop[t].at = "handler", chan[InterLink(t)] # <<>>, loop[t].got < Len(Expected(t))
    PROVE  Head(chan[InterLink(t)]).x = Expected(t)[loop[t].got + 1]
<1>1. PICK V, N, p, G, M, g : Explained(V, N, p, G, M, g)
  BY DEF Logged
<1>2. PICK c, v : c = loop[t].c /\ v = V[c][p[c][t]]
  OBVIOUS
<1>3. PICK w : w = V[c][p[c][t] + 1]
  OBVIOUS
<1>4. Expected(t)[loop[t].got + 1] = v.a[1].x /\ ArgStep(v, w) /\ w.item = Head(chan[InterLink(t)])
  BY <1>1, <1>2, <1>3, ArgDue
<1>5. w.item.x = v.a[1].x
  BY <1>4 DEF ArgStep, Item
<1> QED BY <1>4, <1>5

LEMMA AllInStep == ASSUME Logged PROVE InStep
<1>1. \A t \in Task : Waits(t) /\ chan[Source(t)] # <<>> => Head(chan[Source(t)]).x = Meant(Step(t))
  BY HeardInStep
<1>2. ASSUME NEW t \in IOTask, loop[t].at = "handler", chan[InterLink(t)] # <<>>
      PROVE  LET e == Expected(t)
             IN  loop[t].got < Len(e) => Head(chan[InterLink(t)]).x = e[loop[t].got + 1]
  BY <1>2, ArgInStep
<1> QED BY <1>1, <1>2 DEF InStep

\* Nobody has anything left to do or to hear of component c's log V, whose last state is v.
Settled(c, V, N, p, v) ==
    /\ v = V[N] /\ v.a = <<>> /\ LogOK(c, V, N) /\ Boxes(c, V, N, p)
    /\ \A t \in CompTask(c) : V[p[t]] = v /\ CompAt(t, c, v) /\ todo[t] = <<>> /\ pending[t] = <<>>
    /\ \A t \in IOTask : LET u == V[p[t]]
                         IN  /\ IOAt(t, c, u, v.n["begin"]) /\ ~Serves(t, c) /\ p[t] \in 1..N
                             /\ v.tbl = u.tbl /\ v.ierr = u.ierr /\ u.n["begin"] = v.n["begin"]
                             /\ v.n["arg"] = u.n["arg"] /\ v.n["comp"] = u.n["comp"] /\ v.n["io"] = u.n["io"]

LEMMA QuietSettled ==
    ASSUME NEW V, NEW N, NEW p, NEW G, NEW M, NEW g, Explained(V, N, p, G, M, g), NEW c \in Component, Quiet(c),
           NEW v, V[c][N[c]] = v
    PROVE  Settled(c, V[c], N[c], p[c], v)
<1>1. /\ LogOK(c, V[c], N[c]) /\ Boxes(c, V[c], N[c], p[c]) /\ TasksAt(c, V[c], N[c], p[c])
      /\ LoopLog(V, N, G, M) /\ LoopsAt(V, p, G, M, g)
  BY DEF Explained, Follows
<1>2. ASSUME NEW t \in CompTask(c)
      PROVE  V[c][p[c][t]] = v /\ CompAt(t, c, v) /\ todo[t] = <<>> /\ pending[t] = <<>> /\ v.a = <<>>
  <2>1. todo[t] = <<>> /\ pending[t] = <<>>
    BY DEF Quiet
  <2>2. t[1] = c /\ t \in CompTasks
    BY TaskKinds
  <2>3. p[c][t] = N[c]
    BY <2>1, <2>2, NothingPending
  <2>4. CompAt(t, c, V[c][p[c][t]]) /\ V[c][p[c][t]].a = <<>>
    BY <2>1, <2>2, BetweenCalls
  <2> QED BY <2>1, <2>3, <2>4
<1>3. v.a = <<>>
  BY <1>2, TaskKinds
<1>4. G[M].served[c] = v.n["msg"]
  <2>1. /\ Holds(chan[MsgLink(c)], V[c], N[c], G[M].served[c], "msg") /\ G[M].served[c] \in Nat
        /\ chan[MsgLink(c)] = <<>> /\ "msg" \in Kinds
    <3>1. M \in 1..M
      BY <1>1 DEF LoopLog
    <3> QED BY <1>1, <3>1 DEF LoopLog, Quiet, Kinds
  <2> QED BY <1>1, <2>1, HoldsLen
<1>5. ASSUME NEW t \in IOTask PROVE g[t] = M
  <2>1. LoopAt(ioroot, loop[ioroot], G[g[ioroot]].rem) /\ loop[ioroot].at \in {"top", "left"} /\ ioroot \in IOTask
    BY <1>1, TaskKinds DEF LoopsAt, Quiet
  <2>2. g[ioroot] = M
    <3>1. G[g[ioroot]].rem = 0
      BY <2>1 DEF LoopAt
    <3>2. M = g[ioroot] + 0 /\ g[ioroot] \in 1..g[ioroot] /\ M \in Nat
      BY <1>1, <2>1, <3>1 DEF LoopsAt, LoopLog
    <3> QED BY <3>2
  <2>3. CASE t # ioroot
    <3>1. chan[<<"loop", "io", t>>] = <<>>
      BY <2>3, LinksApart DEF Quiet
    <3>2. Len(chan[<<"loop", "io", t>>]) = g[ioroot] - g[t] /\ g[t] \in 1..g[ioroot] /\ M \in Nat
      BY <1>1, <2>3 DEF LoopsAt, LoopLog
    <3>3. 0 = M - g[t] /\ g[t] \in Nat /\ M \in Nat
      BY <2>2, <3>1, <3>2
    <3> QED BY <3>3
  <2> QED BY <2>2, <2>3
<1>6. ASSUME NEW t \in IOTask, NEW u, V[c][p[c][t]] = u
      PROVE  /\ IOAt(t, c, u, v.n["begin"]) /\ ~Serves(t, c) /\ p[c][t] \in 1..N[c]
             /\ v.tbl = u.tbl /\ v.ierr = u.ierr /\ u.n["begin"] = v.n["begin"]
             /\ v.n["arg"] = u.n["arg"] /\ v.n["comp"] = u.n["comp"] /\ v.n["io"] = u.n["io"]
  <2>1. IOAt(t, c, u, v.n["begin"]) /\ p[c][t] \in 1..N[c]
    BY <1>1, <1>6, TaskKinds DEF TasksAt
  <2>2. ~Serves(t, c)
    BY DEF Quiet, Serves
  <2>3. Idle(u)
    BY <2>1, <2>2 DEF IOAt
  <2>4. u.n["msg"] = v.n["msg"]
    BY <1>1, <1>4, <1>5, <1>6 DEF LoopsAt
  <2>5. R(u, v)
    BY <1>1, <1>6, <2>1, LogAt
  <2> QED BY <1>3, <2>1, <2>2, <2>3, <2>4, <2>5 DEF R, Missed
<1> QED BY <1>1, <1>2, <1>3, <1>6 DEF Settled

LEMMA AllNothingLeft == ASSUME Logged PROVE NothingLeft
<1> SUFFICES ASSUME NEW c \in Component, Quiet(c), NEW l \in LinksOf(c) PROVE chan[l] = <<>>
  BY DEF NothingLeft
<1>1. PICK V, N, p, G, M, g : Explained(V, N, p, G, M, g)
  BY DEF Logged
<1>2. PICK v : v = V[c][N[c]]
  OBVIOUS
<1>3. Settled(c, V[c], N[c], p[c], v)
  BY <1>1, <1>2, QuietSettled
<1>4. ASSUME NEW k \in {"arg", "comp", "io"}, NEW t \in Readers(c, k) PROVE Box(t, c, k) = <<>>
  <2>1. k \in Kinds /\ t \in Members(c)
    BY ReadersIn DEF Kinds
  <2>2. Holds(Box(t, c, k), V[c], N[c], V[c][p[c][t]].n[k], k) /\ LogOK(c, V[c], N[c]) /\ v.n[k] \in Nat
    <3>1. Holds(Box(t, c, k), V[c], N[c], V[c][p[c][t]].n[k], k) /\ LogOK(c, V[c], N[c])
      BY <1>3, <2>1 DEF Settled, Boxes
    <3> QED BY <1>2, <2>1, <3>1, LogAt
  <2>3. V[c][p[c][t]].n[k] = v.n[k]
    <3>1. t \in CompTask(c) \/ t \in IOTask
      BY <2>1 DEF Members
    <3> QED BY <1>3, <3>1 DEF Settled
  <2> QED BY <1>2, <2>1, <2>2, <2>3, HoldsLen
<1>5. CASE l = MsgLink(c)
  BY <1>5 DEF Quiet
<1>6. ASSUME NEW t \in IOTask, l = <<"inter", c, t>> PROVE chan[l] = <<>>
  <2>1. t \in Readers(c, "arg")
    BY DEF Readers
  <2>2. Box(t, c, "arg") = chan[l]
    BY <1>6 DEF Box
  <2> QED BY <1>4, <2>1, <2>2
<1>7. ASSUME NEW t \in Members(c), t # comproot(c), l = <<"comp", c, t>> PROVE chan[l] = <<>>
  <2>1. t \in Readers(c, "comp")
    BY DEF Readers
  <2>2. Box(t, c, "comp") = chan[l]
    BY <1>7 DEF Box
  <2> QED BY <1>4, <2>1, <2>2
<1>8. ASSUME NEW t \in Members(c), t # ioroot, l = <<"io", c, t>> PROVE chan[l] = <<>>
  <2>1. t \in Readers(c, "io")
    BY DEF Readers
  <2>2. Box(t, c, "io") = chan[l]
    BY <1>8 DEF Box
  <2> QED BY <1>4, <2>1, <2>2
<1> QED BY <1>5, <1>6, <1>7, <1>8 DEF LinksOf, InterLinks, CompLinks, IOLinks

LEMMA AllSameAnswer == ASSUME Logged PROVE SameAnswer
<1> SUFFICES ASSUME NEW c \in Component, Quiet(c), \A t \in IOTask : loop[t].c = c,
                    NEW t \in CompTask(c) \cup IOTask
             PROVE  ierr[t] = ierr[ioroot]
  BY DEF SameAnswer
<1>1. PICK V, N, p, G, M, g : Explained(V, N, p, G, M, g)
  BY DEF Logged
<1>2. PICK v : v = V[c][N[c]]
  OBVIOUS
<1>3. Settled(c, V[c], N[c], p[c], v)
  BY <1>1, <1>2, QuietSettled
<1>4. ASSUME NEW o \in IOTask PROVE ierr[o] = v.ierr
  BY <1>3 DEF Settled, IOAt
<1>5. ASSUME NEW o \in CompTask(c) PROVE ierr[o] = v.ierr
  BY <1>3 DEF Settled, CompAt
<1> QED BY <1>4, <1>5, TaskKinds

LEMMA AllTablesAgree == ASSUME Logged PROVE TablesAgree
<1>1. PICK V, N, p, G, M, g : Explained(V, N, p, G, M, g)
  BY DEF Logged
<1>2. ASSUME NEW c \in Component, Quiet(c), NEW t \in CompTask(c), NEW o \in IOTask
      PROVE  tables[t] = {e \in tables[o] : e.c = c}
  <2>1. PICK v : v = V[c][N[c]]
    OBVIOUS
  <2>2. Settled(c, V[c], N[c], p[c], v)
    BY <1>1, <1>2, <2>1, QuietSettled
  <2>3. tables[t] = v.tbl
    BY <2>2 DEF Settled, CompAt
  <2>4. {e \in tables[o] : e.c = c} = v.tbl
    BY <2>2, SMTT(30) DEF Settled, IOAt
  <2> QED BY <2>3, <2>4
<1>3. ASSUME NEW t \in IOTask, NEW e \in tables[t]
      PROVE  e.c \in Component /\ e \in V[e.c][N[e.c]].all
  <2>1. e.c \in Component
    BY <1>1 DEF Explained, Shaped, Task
  <2>2. PICK c \in Component : c = e.c
    BY <2>1
  <2>3. /\ IOAt(t, c, V[c][p[c][t]], V[c][N[c]].n["begin"]) /\ p[c][t] \in 1..N[c] /\ LogOK(c, V[c], N[c])
    BY <1>1, TaskKinds DEF Explained, Follows, TasksAt
  <2>4. e \in V[c][p[c][t]].tbl
    BY <2>2, <2>3 DEF IOAt
  <2>5. OK(c, V[c][p[c][t]]) /\ R(V[c][p[c][t]], V[c][N[c]])
    BY <2>3, LogAt
  <2>6. e \in V[c][p[c][t]].all
    BY <2>4, <2>5 DEF OK, Listed
  <2> QED BY <2>2, <2>5, <2>6, Zenon DEF R, Later
<1>4. ASSUME NEW t \in IOTask, NEW e \in tables[t], NEW f \in tables[t], e.kind = f.kind, e.id = f.id
      PROVE  e = f
  BY <1>1, <1>3, <1>4 DEF Explained, Numbers
<1> QED BY <1>2, <1>3, <1>4 DEF TablesAgree

\* Every broadcast is understood, for any numbers of components, of tasks and of
\* calls under way: the calls agree (TLC evaluates this for all of them), none that
\* makes others is made under PIO_BCAST_ERROR, and nc_sync does not fail.
THEOREM AlwaysInStep ==
    CallsAgree /\ InnerErrors = FALSE /\ SyncErrors = FALSE => (Spec => []InStep)
<1> SUFFICES ASSUME CallsAgree, InnerErrors = FALSE, SyncErrors = FALSE PROVE Spec => []InStep
  OBVIOUS
<1>1. Spec => []Logged
  BY SpecLogged
<1>2. Logged => InStep
  BY AllInStep
<1> QED BY <1>1, <1>2, PTL

\* Under the same conditions no broadcast of a call is left over for the next one.
THEOREM NeverLeft ==
    CallsAgree /\ InnerErrors = FALSE /\ SyncErrors = FALSE => (Spec => []NothingLeft)
<1> SUFFICES ASSUME CallsAgree, InnerErrors = FALSE, SyncErrors = FALSE PROVE Spec => []NothingLeft
  OBVIOUS
<1>1. Spec => []Logged
  BY SpecLogged
<1>2. Logged => NothingLeft
  BY AllNothingLeft
<1> QED BY <1>1, <1>2, PTL

\* Under the same conditions a call has the same result on all tasks.
THEOREM AlwaysSameAnswer ==
    CallsAgree /\ InnerErrors = FALSE /\ SyncErrors = FALSE => (Spec => []SameAnswer)
<1> SUFFICES ASSUME CallsAgree, InnerErrors = FALSE, SyncErrors = FALSE PROVE Spec => []SameAnswer
  OBVIOUS
<1>1. Spec => []Logged
  BY SpecLogged
<1>2. Logged => SameAnswer
  BY AllSameAnswer
<1> QED BY <1>1, <1>2, PTL

\* Under the same conditions all tasks know the same files and decompositions by
\* the same numbers, and the I/O tasks give no number twice.
THEOREM TablesAlwaysAgree ==
    CallsAgree /\ InnerErrors = FALSE /\ SyncErrors = FALSE => (Spec => []TablesAgree)
<1> SUFFICES ASSUME CallsAgree, InnerErrors = FALSE, SyncErrors = FALSE PROVE Spec => []TablesAgree
  OBVIOUS
<1>1. Spec => []Logged
  BY SpecLogged
<1>2. Logged => TablesAgree
  BY AllTablesAgree
<1> QED BY <1>1, <1>2, PTL
=============================================================================
