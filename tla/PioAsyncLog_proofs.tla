------------------------- MODULE PioAsyncLog_proofs -------------------------
(***************************************************************************)
(* The first half of the argument that asynchronous PIO stays in step; the *)
(* theorems are in PioAsync_proofs.                                        *)
(*                                                                         *)
(* What a component's tasks and the I/O tasks that serve it do is written  *)
(* down as a log V[1], ..., V[N]: one state for each step of the call that *)
(* all of them are making, with what callers (a) and I/O tasks (b) have    *)
(* left to do and all that their steps depend on. VStep is one step of the *)
(* log. Each task is at a place of its own in the log, and what is on its  *)
(* way to it is exactly what was broadcast after that place. Shown here:   *)
(* every state of a log is in order (OK: what callers and I/O tasks have   *)
(* left covers each other, what an I/O task will need will have been       *)
(* sent), how an earlier state is related to a later one (R: while I/O     *)
(* tasks are between two messages they miss nothing, what has to be passed *)
(* over is passed over by all), that a task which makes a step of its own  *)
(* goes to the next place of the log, that the root of a broadcast makes   *)
(* the log longer, and that the other tasks find in the log what they      *)
(* receive.                                                                *)
(***************************************************************************)
EXTENDS PioAsync, FiniteSetTheorems, TLAPS

Sq(s) == \E S : s \in Seq(S)

LEMMA SqTail ==
    ASSUME NEW s, Sq(s), s # <<>>
    PROVE  /\ Sq(Tail(s)) /\ Len(Tail(s)) = Len(s) - 1 /\ Len(s) \in Nat /\ Len(s) > 0
           /\ \A i \in 1..(Len(s) - 1) : Tail(s)[i] = s[i + 1]
           /\ Head(s) = s[1]
<1>1. PICK S : s \in Seq(S)
  BY DEF Sq
<1>2. Tail(s) \in Seq(S) /\ Len(Tail(s)) = Len(s) - 1 /\ Len(s) \in Nat /\ Len(s) > 0
  BY <1>1
<1>3. \A i \in 1..(Len(s) - 1) : Tail(s)[i] = s[i + 1]
  BY <1>1
<1> QED BY <1>1, <1>2, <1>3 DEF Sq

LEMMA SqAppend ==
    ASSUME NEW s, Sq(s), NEW e
    PROVE  /\ Sq(Append(s, e)) /\ Len(Append(s, e)) = Len(s) + 1 /\ Len(s) \in Nat
           /\ \A i \in 1..Len(s) : Append(s, e)[i] = s[i]
           /\ Append(s, e)[Len(s) + 1] = e
           /\ Append(s, e) # <<>>
<1>1. PICK S : s \in Seq(S)
  BY DEF Sq
<1> DEFINE T == S \cup {e}
<1>2. s \in Seq(T) /\ e \in T
  BY <1>1
<1> HIDE DEF T
<1>3. /\ Append(s, e) \in Seq(T) /\ Len(Append(s, e)) = Len(s) + 1 /\ Len(s) \in Nat
      /\ \A i \in 1..Len(s) : Append(s, e)[i] = s[i]
      /\ Append(s, e)[Len(s) + 1] = e
      /\ Append(s, e) # <<>>
  BY <1>2
<1> QED BY <1>3 DEF Sq

LEMMA SqCat ==
    ASSUME NEW s, Sq(s), NEW r, Sq(r)
    PROVE  /\ Sq(s \o r) /\ Len(s \o r) = Len(s) + Len(r) /\ Len(s) \in Nat /\ Len(r) \in Nat
           /\ \A i \in 1..Len(s) : (s \o r)[i] = s[i]
           /\ \A i \in (Len(s) + 1)..(Len(s) + Len(r)) : (s \o r)[i] = r[i - Len(s)]
<1>1. PICK S : s \in Seq(S)
  BY DEF Sq
<1>2. PICK R : r \in Seq(R)
  BY DEF Sq
<1> DEFINE T == S \cup R
<1>3. s \in Seq(T) /\ r \in Seq(T)
  BY <1>1, <1>2
<1> HIDE DEF T
<1>4. /\ s \o r \in Seq(T) /\ Len(s \o r) = Len(s) + Len(r) /\ Len(s) \in Nat /\ Len(r) \in Nat
      /\ \A i \in 1..Len(s) : (s \o r)[i] = s[i]
      /\ \A i \in (Len(s) + 1)..(Len(s) + Len(r)) : (s \o r)[i] = r[i - Len(s)]
  BY <1>3
<1> QED BY <1>4 DEF Sq

LEMMA SqEq ==
    ASSUME NEW s, Sq(s), NEW r, Sq(r), Len(s) = Len(r), \A i \in 1..Len(s) : s[i] = r[i]
    PROVE  s = r
<1>1. PICK S : s \in Seq(S)
  BY DEF Sq
<1>2. PICK R : r \in Seq(R)
  BY DEF Sq
<1> QED BY <1>1, <1>2

LEMMA SqDrop ==
    ASSUME NEW s, Sq(s), NEW n \in 0..Len(s)
    PROVE  /\ Sq(SubSeq(s, n + 1, Len(s))) /\ Len(SubSeq(s, n + 1, Len(s))) = Len(s) - n /\ Len(s) \in Nat
           /\ \A i \in 1..(Len(s) - n) : SubSeq(s, n + 1, Len(s))[i] = s[n + i]
<1>1. PICK S : s \in Seq(S)
  BY DEF Sq
<1>2. SubSeq(s, n + 1, Len(s)) \in Seq(S)  /\ Len(SubSeq(s, n + 1, Len(s))) = Len(s) - n /\ Len(s) \in Nat
  BY <1>1
<1>3. \A i \in 1..(Len(s) - n) : SubSeq(s, n + 1, Len(s))[i] = s[n + i]
  BY <1>1
<1> QED BY <1>2, <1>3 DEF Sq

LEMMA SqEmpty == Sq(<<>>) /\ \A e : Sq(<<e>>) /\ Len(<<e>>) = 1 /\ <<e>>[1] = e
<1>1. <<>> \in Seq({})
  OBVIOUS
<1>2. \A e : <<e>> \in Seq({e})
  OBVIOUS
<1>3. \A e : Len(<<e>>) = 1 /\ <<e>>[1] = e
  OBVIOUS
<1> QED BY <1>1, <1>2, <1>3 DEF Sq

-----------------------------------------------------------------------------
(***************************************************************************)
(* What a component and the I/O tasks that serve it do, step by step: the  *)
(* callers' steps a and the I/O tasks' steps b that are left, and all that *)
(* the steps depend on.                                                    *)
(***************************************************************************)
Kinds == {"begin", "msg", "arg", "comp", "io"}

Counts(v, w, kd) ==
    /\ w.kind = kd
    /\ \A x \in Kinds : w.n[x] = v.n[x] + (IF x = kd THEN 1 ELSE 0)

IsArgs(x) == x = [file |-> x.file, decomp |-> x.decomp, method |-> x.method]

IdsIn(T, kind) == {e.id : e \in {e \in T : e.kind = kind}}

NextIds == {NextId("file"), NextId("decomp")}

Idle(v) == v.ph = "in" /\ v.b = <<>>

Keeps(v, w) ==
    w.tbl = v.tbl /\ w.all = v.all /\ w.made = v.made /\ w.open = v.open /\ w.eh = v.eh /\ w.cur = v.cur

Failing(a) == \A i \in DOMAIN a : a[i].do \in Local \cup {"status"}

HasMessage(a) == \E i \in DOMAIN a : a[i].do = "message"

\* What effect i of a needs is there or comes first.
SuppliedIn(a, i, have) ==
    \/ /\ Needs(a[i].x) \in have
       /\ \A k \in 1..(i - 1) : a[k].do \notin {"message", "effect"}
    \/ Supplied(a, i)

Mild(s) == \A j, k \in DOMAIN s.fail : s.fail[j].do = "check" /\ s.fail[k].do = "check" => j = k

FitsOutcome(a, i) ==
    a[i].do = "outcome" =>
        /\ Sq(a[i].fail)
        /\ a[i].on => i = Len(a)
        /\ \A j \in DOMAIN a[i].fail : a[i].fail[j].do \in Local

FitsEffect(a, i, have) ==
    a[i].do = "effect" =>
        /\ i = Len(a) \/ (a[i + 1].do = "message" /\ a[i].x \in {"file", "decomp"})
        /\ a[i].x # "exit" => SuppliedIn(a, i, have)

Fits(a, i, have) ==
    /\ a[i].do \notin Local \cup {"status"}
    /\ a[i].do = "message" => Understood(SubSeq(a, i + 1, Len(a)), a[i].x, {}, 0)
    /\ a[i].do = "verdict" => \A j \in i..Len(a) : a[j].do # "message"
    /\ a[i].do = "next_id" => a[i].x \in {"file", "decomp"}
    /\ FitsEffect(a, i, have)
    /\ FitsOutcome(a, i)

Texty(a, have) == \A i \in DOMAIN a : Fits(a, i, have)

Shape(v) ==
    /\ Sq(v.a) /\ Sq(v.b) /\ IsArgs(v.cur) /\ IsArgs(v.io) /\ v.open \in BOOLEAN
    /\ \A x \in Kinds : v.n[x] \in Nat
    /\ v.ph \in {"args", "start", "in"}
    /\ v.open = FALSE => v.a = <<>>

Phase(v) ==
    /\ v.ph = "args" => /\ v.a # <<>> /\ v.a[1].do = "arg" /\ v.b = <<>> /\ v.got \in Nat
                        /\ Understood(v.a, v.msg, v.f, v.got)
    /\ v.ph = "start" => /\ v.a # <<>> /\ v.a[1].do = "share" /\ v.b # <<>> /\ v.got \in Nat
                         /\ Len(Handler(v.msg, v.f)["recv"]) = v.got
                         /\ "unknown" \notin Handler(v.msg, v.f)["call"].checks
                         /\ v.b = IOSteps(Handler(v.msg, v.f)["call"])
                         /\ Covers(v.a, v.b)
    /\ v.ph = "in" => Covers(v.a, v.b)
    /\ v.kind = "msg" => v.ph # "in" /\ v.f = {} /\ v.got = 0 /\ v.io = NoArgs

Text(v) == Failing(v.a) \/ Texty(v.a, v.have)

\* Under PIO_BCAST_ERROR only what everybody does tells a status.
Calm(v) ==
    v.eh = "BCAST" =>
        /\ \A i \in DOMAIN v.a : i > Len(v.b) => v.a[i].do # "check"
        /\ \A i \in DOMAIN v.a : v.a[i].do = "outcome" => Mild(v.a[i])

NoError(v) == HasMessage(v.a) \/ v.ph # "in" => v.ierr = "ok"

Knows(v) ==
    /\ v.cur.file \in {0} \cup IdsIn(v.all, "file") /\ v.cur.decomp \in {0} \cup IdsIn(v.all, "decomp")
    /\ HasMessage(v.a) \/ v.ph # "in" =>
           /\ v.cur.file \in {0} \cup IdsIn(v.tbl, "file")
           /\ v.cur.decomp \in {0} \cup IdsIn(v.tbl, "decomp")
    /\ v.ph # "in" => v.io.file \in {0, v.cur.file} /\ v.io.decomp \in {0, v.cur.decomp}
    /\ INT("ncid") \in v.have => v.io.file = v.cur.file
    /\ INT("ioid") \in v.have => v.io.decomp = v.cur.decomp
    /\ INT("method") \in v.have => v.io.method = v.cur.method
    /\ Idle(v) => v.have = {}
    /\ v.ph # "in" => v.have \cap NextIds = {}

Listed(c, v) ==
    /\ \A e \in v.tbl : e \in v.all
    /\ \A e \in v.all : e.c = c /\ e.kind \in {"file", "decomp"}

OK(c, v) == Shape(v) /\ Phase(v) /\ Text(v) /\ Calm(v) /\ NoError(v) /\ Knows(v) /\ Listed(c, v)

-----------------------------------------------------------------------------
\* The steps.
BeginStep(v, w) ==
    /\ v.a = <<>> /\ v.open
    /\ \E call \in Calls : LET x == w.cur IN
           /\ w.item = <<call, x>> /\ w.a = CompSteps(call) /\ IsArgs(x)
           /\ v.eh = "BCAST" => ~Inner(call)
           /\ x.file \in {0} \cup IdsIn(v.tbl, "file") /\ x.decomp \in {0} \cup IdsIn(v.tbl, "decomp")
    /\ Counts(v, w, "begin") /\ w.ierr = "ok"
    /\ w.b = v.b /\ w.ph = v.ph /\ w.have = v.have /\ w.io = v.io /\ w.nid = v.nid
    /\ w.tbl = v.tbl /\ w.all = v.all /\ w.made = v.made /\ w.open = v.open /\ w.eh = v.eh

At1(v, do) == v.a # <<>> /\ v.a[1].do \in do

\* The message or an argument has been received: on to the next one, or to the call.
Enters(w) ==
    IF w.a[1].do = "arg" THEN w.ph = "args" /\ w.b = <<>>
    ELSE w.ph = "start" /\ w.b = IOSteps(Handler(w.msg, w.f)["call"])

MsgStep(v, w) ==
    /\ At1(v, {"message"})
    /\ w.a = Tail(v.a) /\ w.item = Item(v.a[1].x, FALSE, 0) /\ Counts(v, w, "msg")
    /\ w.msg = v.a[1].x /\ w.f = {} /\ w.got = 0 /\ w.io = NoArgs /\ w.have = {} /\ Enters(w)
    /\ w.ierr = v.ierr /\ w.nid = v.nid /\ Keeps(v, w)

ArgValue(x, args) ==
    CASE x = INT("ncid") -> args.file
      [] x = INT("ioid") -> args.decomp
      [] x = INT("method") -> args.method
      [] OTHER -> 0

Heard(x, val, args) ==
    CASE x = INT("ncid") -> [args EXCEPT !.file = val]
      [] x = INT("ioid") -> [args EXCEPT !.decomp = val]
      [] x = INT("method") -> [args EXCEPT !.method = val]
      [] OTHER -> args

ArgStep(v, w) ==
    /\ At1(v, {"arg"})
    /\ w.a = Tail(v.a) /\ w.item = Item(v.a[1].x, v.a[1].v, ArgValue(v.a[1].x, v.cur)) /\ Counts(v, w, "arg")
    /\ w.msg = v.msg /\ w.f = (IF v.a[1].v THEN v.f \cup {v.a[1].x[2]} ELSE v.f) /\ w.got = v.got + 1
    /\ w.io = Heard(v.a[1].x, ArgValue(v.a[1].x, v.cur), v.io)
    /\ w.have = v.have \cup {Gives(v.a[1])} /\ Enters(w)
    /\ w.ierr = v.ierr /\ w.nid = v.nid /\ Keeps(v, w)

InCall(v, w, have) == w.ph = "in" /\ w.have = IF w.b = <<>> THEN {} ELSE have

ShareStep(v, w) ==
    /\ At1(v, FromComp)
    /\ w.a = Tail(v.a) /\ w.b = Tail(v.b) /\ Counts(v, w, "comp")
    /\ \E bad \in BOOLEAN :
           /\ bad => v.a[1].do = "verdict"
           /\ w.item = Item(v.a[1].x, bad, 0) /\ w.ierr = (IF bad THEN "err" ELSE v.ierr)
    /\ InCall(v, w, v.have) /\ w.io = v.io /\ w.nid = v.nid /\ Keeps(v, w)

AnswerStep(v, w) ==
    /\ At1(v, {"answer", "status", "next_id"})
    /\ w.a = Tail(v.a) /\ w.b = Tail(v.b) /\ Counts(v, w, "io")
    /\ w.item = Item(Meant(v.a[1]), FALSE, w.item.val)
    /\ \A k \in {"file", "decomp"} :
          w.nid[k] = IF v.a[1].do = "next_id" /\ k = v.a[1].x THEN w.item.val ELSE v.nid[k]
    /\ InCall(v, w, v.have \cup (IF v.a[1].do = "next_id" THEN {NextId(v.a[1].x)} ELSE {}))
    /\ w.ierr = v.ierr /\ w.io = v.io /\ Keeps(v, w)

\* What is left after the outcome e.
Going(s, e) == IF e = "ok" THEN Tail(s) ELSE Head(s).fail \o (IF Head(s).on THEN Tail(s) ELSE <<>>)

OutcomeStep(v, w) ==
    /\ At1(v, {"outcome"})
    /\ w.item = Item(Ierr, FALSE, w.ierr) /\ w.a = Going(v.a, w.ierr) /\ w.b = Going(v.b, w.ierr)
    /\ Counts(v, w, "io") /\ InCall(v, w, v.have) /\ w.io = v.io /\ w.nid = v.nid /\ Keeps(v, w)

OwnStep(v, w) ==
    /\ At1(v, {"own"})
    /\ w.ierr = "ok" /\ w.a = Tail(v.a) /\ w.b = Tail(v.b)
    /\ Counts(v, w, "none") /\ InCall(v, w, v.have) /\ w.io = v.io /\ w.nid = v.nid /\ Keeps(v, w)

\* What is left after an error has been handled.
Handled(s, ierr1, eh1) ==
    LET do == Head(s).do
        h == IF do = "check_default" THEN "INTERNAL" ELSE eh1
    IN  IF do = "check_filter" /\ ierr1 = "nofilter" THEN Tail(s)
        ELSE (IF do # "pio_err" /\ h = "BCAST" THEN <<[do |-> "status"]>> ELSE <<>>) \o Tail(s)

HandleStep(v, w) ==
    /\ At1(v, {"check", "check_filter", "check_default", "pio_err"})
    /\ w.ierr = v.ierr /\ w.a = Handled(v.a, v.ierr, v.eh)
    /\ w.b = (IF v.b = <<>> THEN <<>> ELSE Handled(v.b, v.ierr, v.eh))
    /\ Counts(v, w, "none") /\ InCall(v, w, v.have) /\ w.io = v.io /\ w.nid = v.nid /\ Keeps(v, w)

\* What is left after the end of a call, and its error code.
Ended(s, ierr1) ==
    LET do == Head(s).do
    IN  IF do = "forget" \/ (do = "reject" /\ ierr1 = "ok") THEN Tail(s) ELSE IF do = "fail" THEN PioErr ELSE <<>>

EndCode(do, ierr1) == CASE do = "forget" -> "ok" [] do = "fail" -> "err" [] OTHER -> ierr1

EndStep(v, w) ==
    /\ At1(v, {"forget", "reject", "fail"})
    /\ w.ierr = EndCode(v.a[1].do, v.ierr) /\ w.a = Ended(v.a, v.ierr) /\ w.b = Ended(v.b, v.ierr)
    /\ Counts(v, w, "none") /\ InCall(v, w, v.have) /\ w.io = v.io /\ w.nid = v.nid /\ Keeps(v, w)

Entry(c, v, kind) == [kind |-> kind, id |-> v.nid[kind], c |-> c, n |-> v.made[kind] + 1]

Made(c, v, w, kind) ==
    /\ w.tbl = v.tbl \cup {Entry(c, v, kind)} /\ w.all = v.all \cup {Entry(c, v, kind)}
    /\ w.made = [v.made EXCEPT ![kind] = @ + 1]
    /\ w.cur = [v.cur EXCEPT ![kind] = v.nid[kind]] /\ w.io = [v.io EXCEPT ![kind] = v.nid[kind]]

Dropped(v, w, kind) ==
    /\ w.tbl = {e \in v.tbl : ~(e.kind = kind /\ e.id = v.cur[kind])}
    /\ w.all = v.all /\ w.made = v.made /\ w.cur = v.cur /\ w.io = v.io

EffectStep(c, v, w) ==
    LET e == v.a[1].x
    IN  /\ At1(v, {"effect"})
        /\ w.a = Tail(v.a) /\ w.b = Tail(v.b) /\ w.ierr = v.ierr /\ w.nid = v.nid
        /\ e \in {"file", "decomp"} => Made(c, v, w, e)
        /\ e = "close" => Dropped(v, w, "file")
        /\ e = "freedecomp" => Dropped(v, w, "decomp")
        /\ e \notin {"file", "decomp", "close", "freedecomp"} =>
               w.tbl = v.tbl /\ w.all = v.all /\ w.made = v.made /\ w.cur = v.cur /\ w.io = v.io
        /\ w.eh = (IF e = "error_handler" THEN v.cur.method ELSE v.eh)
        /\ w.open = (IF e = "exit" THEN FALSE ELSE v.open)
        /\ Counts(v, w, "none") /\ InCall(v, w, {})

VStep(c, v, w) ==
    \/ BeginStep(v, w) \/ MsgStep(v, w) \/ ArgStep(v, w) \/ ShareStep(v, w) \/ AnswerStep(v, w)
    \/ OutcomeStep(v, w) \/ OwnStep(v, w) \/ HandleStep(v, w) \/ EndStep(v, w) \/ EffectStep(c, v, w)

(***************************************************************************)
(* How an earlier state u and a later one v of the same log are related.   *)
(***************************************************************************)
Later(u, v) == (\A x \in Kinds : u.n[x] <= v.n[x]) /\ (\A e \in u.all : e \in v.all)

\* Between two messages the I/O tasks miss nothing.
Missed(u, v) ==
    Idle(u) /\ u.n["msg"] = v.n["msg"] =>
        /\ Idle(v) /\ v.tbl = u.tbl /\ v.eh = u.eh /\ v.made = u.made /\ v.open = u.open
        /\ v.n["arg"] = u.n["arg"] /\ v.n["comp"] = u.n["comp"] /\ v.n["io"] = u.n["io"]
        /\ u.n["begin"] = v.n["begin"] => v.ierr = u.ierr
        /\ u.n["begin"] # v.n["begin"] => v.a # <<>> /\ v.a[1].do = "message"

\* While the I/O tasks are told about a call the callers miss nothing.
Passed(u, v) ==
    At1(u, {"message"}) /\ u.n["comp"] = v.n["comp"] =>
        /\ \E d \in 0..(Len(u.a) - 1) :
               /\ v.a = SubSeq(u.a, d + 1, Len(u.a))
               /\ \A x \in 1..d : u.a[x].do \in {"message", "arg"}
               /\ d = 0 \/ v.ph # "in"
        /\ v.ierr = u.ierr /\ v.nid = u.nid /\ Keeps(u, v)
        /\ v.n["io"] = u.n["io"] /\ v.n["begin"] = u.n["begin"]
        /\ v.have \cap NextIds = {}

\* Nothing is recorded but under the number that was given.
Numbered(u, v) ==
    u.n["io"] = v.n["io"] =>
        /\ \A e \in v.all : e \in u.all \/ (/\ NextId(e.kind) \in u.have /\ e.id = u.nid[e.kind]
                                            /\ NextId(e.kind) \notin v.have)
        /\ \A k \in {"file", "decomp"} :
               NextId(k) \in v.have => NextId(k) \in u.have /\ u.nid[k] = v.nid[k]

R(u, v) == Later(u, v) /\ Missed(u, v) /\ Passed(u, v) /\ Numbered(u, v)

-----------------------------------------------------------------------------
(***************************************************************************)
(* The log of a component: its states V[1], ..., V[N]; what was broadcast  *)
(* after the first m broadcasts of kind k is what is on its way.           *)
(***************************************************************************)
Holds(s, V, N, m, k) ==
    /\ Sq(s) /\ Len(s) = V[N].n[k] - m
    /\ \A j \in 1..N : V[j].kind = k /\ V[j].n[k] > m => s[V[j].n[k] - m] = V[j].item

Found(V, N, k) == \A m \in 1..V[N].n[k] : \E j \in 1..N : V[j].kind = k /\ V[j].n[k] = m

LogOK(c, V, N) ==
    /\ N \in Nat \ {0}
    /\ \A i \in 1..N : OK(c, V[i])
    /\ \A i \in 1..(N - 1) : VStep(c, V[i], V[i + 1])
    /\ \A i \in 1..N, j \in 1..N : i <= j => R(V[i], V[j])
    /\ Found(V, N, "msg") /\ Found(V, N, "comp")
    /\ V[1].kind = "none"

\* Who reads which kind of broadcast of component c, and what is there for it.
Readers(c, k) ==
    CASE k = "begin" -> CompTask(c)
      [] k = "msg" -> {comproot(c)}
      [] k = "arg" -> {comproot(c)} \cup IOTask
      [] OTHER -> Members(c)

Box(t, c, k) ==
    CASE k = "begin" -> pending[t]
      [] k = "arg" /\ t \in IOTask -> chan[<<"inter", c, t>>]
      [] k = "comp" /\ t # comproot(c) -> chan[<<"comp", c, t>>]
      [] k = "io" /\ t # ioroot -> chan[<<"io", c, t>>]
      [] OTHER -> <<>>

Boxes(c, V, N, p) ==
    \A k \in Kinds : \A t \in Readers(c, k) : Holds(Box(t, c, k), V, N, V[p[t]].n[k], k)

\* The number to be given is known to who is about to record it.
Tokens(t, v) == \A k \in {"file", "decomp"} : NextId(k) \in v.have => next_id[t][k] = v.nid[k]

\* Past the message and its arguments.
PastArgs(s, a) ==
    \E d \in 1..(Len(a) - 1) : /\ s = SubSeq(a, d + 1, Len(a))
                               /\ \A i \in 1..d : a[i].do \in {"message", "arg"}
                               /\ a[d + 1].do \notin {"message", "arg"}

CompAt(t, c, v) ==
    /\ \/ todo[t] = v.a
       \/ t # comproot(c) /\ At1(v, {"message"}) /\ PastArgs(todo[t], v.a)
    /\ t # comproot(c) => v.ph = "in"
    /\ todo[t] # <<>> \/ pending[t] = <<>> => ierr[t] = v.ierr
    /\ cur[t] = v.cur /\ tables[t] = v.tbl /\ made[t][c] = v.made /\ eh[t][c] = v.eh
    /\ c \in open[t] <=> v.open
    /\ Tokens(t, v)

Serves(t, c) == loop[t].c = c /\ loop[t].at \in {"handler", "call"}

\* b calls of component c have begun.
IOAt(t, c, v, b) ==
    /\ {e \in tables[t] : e.c = c} = v.tbl /\ made[t][c] = v.made /\ eh[t][c] = v.eh
    /\ c \in open[t] <=> v.open
    /\ ~Serves(t, c) => Idle(v) /\ (loop[t].c = c /\ v.n["begin"] = b => ierr[t] = v.ierr)
    /\ Serves(t, c) => cur[t] = v.io
    /\ Serves(t, c) /\ loop[t].at = "handler" =>
           v.ph # "in" /\ loop[t].msg = v.msg /\ loop[t].f = v.f /\ loop[t].got = v.got
    /\ Serves(t, c) /\ loop[t].at = "call" =>
           v.ph # "args" /\ todo[t] = v.b /\ ierr[t] = v.ierr /\ Tokens(t, v)

TasksAt(c, V, N, p) ==
    /\ \A t \in Members(c) : p[t] \in 1..N
    /\ \A t \in CompTask(c) : CompAt(t, c, V[p[t]])
    /\ \A t \in IOTask : IOAt(t, c, V[p[t]], V[N].n["begin"])

Follows(c, V, N, p) == LogOK(c, V, N) /\ Boxes(c, V, N, p) /\ TasksAt(c, V, N, p)

(***************************************************************************)
(* The log of the message loop: what the first I/O task tells the others.  *)
(***************************************************************************)
Counted(G, i) == G[i].rem = 0 /\ G[i + 1].rem \in Nat \ {0} /\ G[i + 1].val = G[i + 1].rem
                 /\ \A c \in Component : G[i + 1].served[c] = G[i].served[c]

Requested(G, i, V, N) ==
    \E c \in Component :
        /\ G[i].rem = G[i + 1].rem + 1 /\ G[i + 1].val[1] = c /\ G[i + 1].val = <<c, G[i + 1].val[2]>>
        /\ \A d \in Component : G[i + 1].served[d] = G[i].served[d] + (IF d = c THEN 1 ELSE 0)
        /\ G[i + 1].served[c] <= V[c][N[c]].n["msg"]
        /\ \A j \in 1..N[c] : V[c][j].kind = "msg" /\ V[c][j].n["msg"] = G[i + 1].served[c] =>
                               V[c][j].item.x = G[i + 1].val[2]

LoopLog(V, N, G, M) ==
    /\ M \in Nat \ {0}
    /\ \A i \in 1..M : G[i].rem \in Nat /\ \A c \in Component : G[i].served[c] \in Nat
    /\ \A i \in 1..(M - 1) : Counted(G, i) \/ Requested(G, i, V, N)
    /\ \A c \in Component : Holds(chan[MsgLink(c)], V[c], N[c], G[M].served[c], "msg")

LoopAt(t, l, r) ==
    /\ l = [at |-> l.at, c |-> l.c, msg |-> l.msg, f |-> l.f, got |-> l.got, queue |-> l.queue]
    /\ l.at \in {"top", "request", "handler", "call", "left"} /\ Sq(l.queue) /\ Len(l.queue) = r
    /\ l.at \in {"top", "left"} => r = 0
    /\ l.at = "request" => r # 0
    /\ l.at \in {"handler", "call"} => l.c \in Component
    /\ l.at # "call" => todo[t] = <<>>
    /\ l.at \in {"top", "request", "left"} => cur[t] = NoArgs
    /\ l.at \in {"top", "request"} => l.f = {} /\ l.got = 0

LoopsAt(V, p, G, M, g) ==
    /\ \A t \in IOTask :
           /\ g[t] \in 1..g[ioroot] /\ LoopAt(t, loop[t], G[g[t]].rem)
           /\ \A c \in Component : V[c][p[c][t]].n["msg"] = G[g[t]].served[c]
           /\ t # ioroot => LET s == chan[<<"loop", "io", t>>]
                            IN  /\ Sq(s) /\ Len(s) = g[ioroot] - g[t]
                                /\ \A j \in 1..(g[ioroot] - g[t]) : s[j].val = G[g[t] + j].val
    /\ M = g[ioroot] + G[g[ioroot]].rem
    /\ \A j \in 1..G[g[ioroot]].rem : loop[ioroot].queue[j] = G[g[ioroot] + j].val

(***************************************************************************)
(* Numbers.                                                                *)
(***************************************************************************)
Numbers(V, N, p) ==
    /\ \A k \in {"file", "decomp"} : next_id[ioroot][k] \in Nat \ {0}
    /\ \A c \in Component : \A e \in V[c][p[c][ioroot]].all : e.id \in Nat \ {0} /\ e.id < next_id[ioroot][e.kind]
    /\ \A c \in Component, d \in Component : \A e \in V[c][N[c]].all, f \in V[d][N[d]].all :
           e.kind = f.kind /\ e.id = f.id => e = f

Shaped ==
    /\ chan = [l \in Links |-> chan[l]] /\ todo = [t \in Task |-> todo[t]]
    /\ pending = [t \in CompTasks |-> pending[t]] /\ cur = [t \in Task |-> cur[t]]
    /\ ierr = [t \in Task |-> ierr[t]] /\ tables = [t \in Task |-> tables[t]]
    /\ next_id = [t \in Task |-> [k \in {"file", "decomp"} |-> next_id[t][k]]]
    /\ eh = [t \in Task |-> [c \in Component |-> eh[t][c]]]
    /\ loop = [t \in IOTask |-> loop[t]] /\ open = [t \in Task |-> open[t]]
    /\ made = [t \in Task |-> [c \in Component |-> made[t][c]]]
    /\ \A t \in Task : \A e \in tables[t] : e.c \in Component

Explained(V, N, p, G, M, g) ==
    /\ Shaped
    /\ \A c \in Component : Follows(c, V[c], N[c], p[c])
    /\ LoopLog(V, N, G, M) /\ LoopsAt(V, p, G, M, g)
    /\ Numbers(V, N, p)

-----------------------------------------------------------------------------
(***************************************************************************)
(* What is left of the steps of callers and I/O tasks agrees.              *)
(***************************************************************************)
LEMMA TailFrom ==
    ASSUME NEW s, Sq(s), s # <<>>, NEW n \in 1..(Len(s) - 1)
    PROVE  SubSeq(Tail(s), n + 1, Len(Tail(s))) = SubSeq(s, n + 2, Len(s))
<1>1. /\ Sq(Tail(s)) /\ Len(Tail(s)) = Len(s) - 1 /\ Len(s) \in Nat /\ Len(s) > 0
      /\ \A i \in 1..(Len(s) - 1) : Tail(s)[i] = s[i + 1]
  BY SqTail
<1>2. n \in 0..Len(Tail(s)) /\ n + 1 \in 0..Len(s)
  BY <1>1
<1> DEFINE x == SubSeq(Tail(s), n + 1, Len(Tail(s)))
           y == SubSeq(s, (n + 1) + 1, Len(s))
<1>3. Sq(x) /\ Len(x) = Len(Tail(s)) - n /\ \A i \in 1..(Len(Tail(s)) - n) : x[i] = Tail(s)[n + i]
  BY <1>1, <1>2, SqDrop, Zenon
<1>4. Sq(y) /\ Len(y) = Len(s) - (n + 1) /\ \A i \in 1..(Len(s) - (n + 1)) : y[i] = s[(n + 1) + i]
  BY <1>1, <1>2, SqDrop, Zenon
<1> HIDE DEF x, y
<1>5. Len(x) = Len(y) /\ \A i \in 1..Len(x) : x[i] = y[i]
  BY <1>1, <1>3, <1>4
<1>6. x = y
  BY <1>3, <1>4, <1>5, SqEq
<1>7. (n + 1) + 1 = n + 2
  OBVIOUS
<1> QED BY <1>6, <1>7 DEF x, y

LEMMA FromFirst ==
    ASSUME NEW s, Sq(s)
    PROVE  SubSeq(s, 1, Len(s)) = s
<1>1. Len(s) \in Nat /\ 0 \in 0..Len(s)
  BY DEF Sq
<1> DEFINE x == SubSeq(s, 0 + 1, Len(s))
<1>2. Sq(x) /\ Len(x) = Len(s) - 0 /\ \A i \in 1..(Len(s) - 0) : x[i] = s[0 + i]
  BY <1>1, SqDrop
<1> HIDE DEF x
<1>3. Len(x) = Len(s) /\ \A i \in 1..Len(x) : x[i] = s[i]
  BY <1>1, <1>2
<1>4. x = s
  BY <1>2, <1>3, SqEq
<1> QED BY <1>4 DEF x

LEMMA SqDomain == \A s : Sq(s) => DOMAIN s = 1..Len(s) /\ Len(s) \in Nat /\ (s # <<>> <=> Len(s) > 0)
<1> SUFFICES ASSUME NEW s, Sq(s) PROVE DOMAIN s = 1..Len(s) /\ Len(s) \in Nat /\ (s # <<>> <=> Len(s) > 0)
  OBVIOUS
<1>1. PICK S : s \in Seq(S)
  BY DEF Sq
<1> QED BY <1>1

LEMMA SqCons ==
    ASSUME NEW s, NEW a, Sq(a)
    PROVE  /\ Sq(<<s>> \o a) /\ Len(<<s>> \o a) = 1 + Len(a) /\ (<<s>> \o a)[1] = s
           /\ \A i \in 1..Len(a) : (<<s>> \o a)[1 + i] = a[i]
<1> DEFINE p == <<s>>
<1>1. Sq(p) /\ Len(p) = 1 /\ p[1] = s
  BY SqEmpty
<1> HIDE DEF p
<1> DEFINE x == p \o a
<1>2. /\ Sq(x) /\ Len(x) = Len(p) + Len(a) /\ Len(a) \in Nat
      /\ \A i \in 1..Len(p) : x[i] = p[i]
      /\ \A i \in (Len(p) + 1)..(Len(p) + Len(a)) : x[i] = a[i - Len(p)]
  BY <1>1, SqCat
<1> HIDE DEF x
<1>3. \A i \in 1..Len(a) : x[1 + i] = a[i]
  <2> SUFFICES ASSUME NEW i \in 1..Len(a) PROVE x[1 + i] = a[i]
    OBVIOUS
  <2>1. 1 + i \in (Len(p) + 1)..(Len(p) + Len(a)) /\ (1 + i) - Len(p) = i
    BY <1>1, <1>2
  <2> QED BY <2>1, <1>2
<1>4. 1 \in 1..Len(p)
  BY <1>1
<1>5. Sq(x) /\ Len(x) = 1 + Len(a) /\ x[1] = s /\ \A i \in 1..Len(a) : x[1 + i] = a[i]
  BY <1>1, <1>2, <1>3, <1>4
<1> QED BY <1>5 DEF x, p

\* The first e steps of a are b's and then some of the callers' own.
CoversTo(a, b, e) ==
    /\ e \in Nat /\ Len(b) <= e /\ e <= Len(a)
    /\ \A i \in 1..Len(b) : Same(a[i], b[i])
    /\ \A i \in 1..e : i > Len(b) => a[i].do \in Extra
    /\ e = Len(a) \/ a[e + 1].do = "message"

LEMMA CoversIs ==
    ASSUME NEW a, NEW b, Sq(a), Sq(b)
    PROVE  Covers(a, b) <=> \E e : CoversTo(a, b, e)
<1>1. DOMAIN b = 1..Len(b)
  BY SqDomain
<1>2. Len(b) \in Nat /\ Len(a) \in Nat
  BY SqDomain
<1>3. \A e : e \in Len(b)..Len(a) <=> e \in Nat /\ Len(b) <= e /\ e <= Len(a)
  BY <1>2
<1>4. \A e : e \in Nat /\ Len(b) <= e => \A i : i \in (Len(b) + 1)..e <=> i \in 1..e /\ i > Len(b)
  BY <1>2
<1> DEFINE P(e) == /\ \A i \in 1..Len(b) : Same(a[i], b[i])
                   /\ \A i \in 1..e : i > Len(b) => a[i].do \in Extra
                   /\ e = Len(a) \/ a[e + 1].do = "message"
           Q(e) == /\ \A i \in DOMAIN b : Same(a[i], b[i])
                   /\ \A i \in (Len(b) + 1)..e : a[i].do \in Extra
                   /\ e = Len(a) \/ a[e + 1].do = "message"
<1>5. \A e : e \in Nat /\ Len(b) <= e => (P(e) <=> Q(e))
  BY <1>1, <1>4
<1>6. Covers(a, b) <=> \E e \in Len(b)..Len(a) : Q(e)
  BY DEF Covers
<1> HIDE DEF P, Q
<1>7. Covers(a, b) <=> \E e : e \in Nat /\ Len(b) <= e /\ e <= Len(a) /\ P(e)
  BY <1>3, <1>5, <1>6
<1>8. \A e : CoversTo(a, b, e) <=> e \in Nat /\ Len(b) <= e /\ e <= Len(a) /\ P(e)
  BY DEF CoversTo, P
<1> QED BY <1>7, <1>8

\* What begins with the steps of the I/O tasks.
LEMMA CoversBy ==
    ASSUME NEW a, NEW b, Sq(a), Sq(b), NEW e, e \in Nat, Len(b) <= e, e <= Len(a),
           \A i \in 1..Len(b) : Same(a[i], b[i]),
           \A i \in 1..e : i > Len(b) => a[i].do \in Extra,
           e = Len(a) \/ a[e + 1].do = "message"
    PROVE  Covers(a, b)
<1> QED BY CoversIs DEF CoversTo

LEMMA CoversTail ==
    ASSUME NEW a, NEW b, Sq(a), Sq(b), Covers(a, b), b # <<>>
    PROVE  /\ a # <<>> /\ Same(a[1], b[1]) /\ Covers(Tail(a), Tail(b))
           /\ Len(b) <= Len(a) /\ Len(b) > 0 /\ Len(a) \in Nat /\ Len(b) \in Nat
           /\ \A i \in 1..Len(b) : Same(a[i], b[i])
<1>1. Len(b) \in Nat /\ Len(b) > 0 /\ Len(a) \in Nat
  BY SqDomain
<1>2. PICK e : CoversTo(a, b, e)
  BY CoversIs
<1>3. e \in Nat /\ Len(b) <= e /\ e <= Len(a) /\ Len(a) > 0
  BY <1>1, <1>2 DEF CoversTo
<1>4. a # <<>>
  BY <1>3, SqDomain
<1>5. /\ Sq(Tail(b)) /\ Len(Tail(b)) = Len(b) - 1
      /\ \A i \in 1..(Len(b) - 1) : Tail(b)[i] = b[i + 1]
  BY SqTail
<1>6. /\ Sq(Tail(a)) /\ Len(Tail(a)) = Len(a) - 1
      /\ \A i \in 1..(Len(a) - 1) : Tail(a)[i] = a[i + 1]
  BY <1>4, SqTail
<1>7. e - 1 \in Nat /\ Len(Tail(b)) <= e - 1 /\ e - 1 <= Len(Tail(a))
  <2>1. Len(Tail(b)) = Len(b) - 1 /\ Len(Tail(a)) = Len(a) - 1
    BY <1>5, <1>6
  <2> QED BY <2>1, <1>1, <1>3
<1>8. ASSUME NEW i \in 1..Len(Tail(b)) PROVE Same(Tail(a)[i], Tail(b)[i])
  <2>1. i \in 1..(Len(b) - 1) /\ i \in 1..(Len(a) - 1) /\ i + 1 \in 1..Len(b)
    <3>1. Len(Tail(b)) = Len(b) - 1
      BY <1>5
    <3> QED BY <3>1, <1>1, <1>3
  <2>2. Tail(b)[i] = b[i + 1] /\ Tail(a)[i] = a[i + 1]
    BY <2>1, <1>5, <1>6
  <2>3. Same(a[i + 1], b[i + 1])
    BY <2>1, <1>2 DEF CoversTo
  <2> QED BY <2>2, <2>3
<1>9. ASSUME NEW i \in 1..(e - 1), i > Len(Tail(b)) PROVE Tail(a)[i].do \in Extra
  <2>1. i \in 1..(Len(a) - 1) /\ i + 1 \in 1..e /\ i + 1 > Len(b)
    <3>1. Len(Tail(b)) = Len(b) - 1
      BY <1>5
    <3> QED BY <3>1, <1>1, <1>3, <1>9
  <2>2. Tail(a)[i] = a[i + 1]
    BY <2>1, <1>6
  <2>3. a[i + 1].do \in Extra
    BY <2>1, <1>2 DEF CoversTo
  <2> QED BY <2>2, <2>3
<1>10. e - 1 = Len(Tail(a)) \/ Tail(a)[(e - 1) + 1].do = "message"
  <2>1. CASE e = Len(a)
    <3>1. Len(Tail(a)) = Len(a) - 1
      BY <1>6
    <3> QED BY <2>1, <3>1
  <2>2. CASE e # Len(a)
    <3>1. e \in 1..(Len(a) - 1) /\ (e - 1) + 1 = e
      BY <2>2, <1>1, <1>3
    <3>2. Tail(a)[e] = a[e + 1]
      BY <3>1, <1>6
    <3>3. a[e + 1].do = "message"
      BY <2>2, <1>2 DEF CoversTo
    <3> QED BY <3>1, <3>2, <3>3
  <2> QED BY <2>1, <2>2
<1>11. Covers(Tail(a), Tail(b))
  BY <1>5, <1>6, <1>7, <1>8, <1>9, <1>10, CoversBy
<1>12. 1 \in 1..Len(b)
  BY <1>1
<1>13. Same(a[1], b[1]) /\ \A i \in 1..Len(b) : Same(a[i], b[i])
  BY <1>2, <1>12 DEF CoversTo
<1> QED BY <1>1, <1>3, <1>4, <1>11, <1>13

\* What the callers do by themselves.
LEMMA CoversExtra ==
    ASSUME NEW a, Sq(a), a # <<>>, Covers(a, <<>>)
    PROVE  /\ a[1].do \in Extra \cup {"message"}
           /\ a[1].do \in Extra => Covers(Tail(a), <<>>)
<1> DEFINE b == <<>>
<1>0. Len(b) = 0 /\ Sq(b)
  BY SqEmpty
<1>1. Len(a) \in Nat /\ Len(a) > 0
  BY SqDomain
<1>2. PICK e : CoversTo(a, b, e)
  BY <1>0, CoversIs
<1>3. /\ e \in Nat /\ e <= Len(a)
      /\ \A i \in 1..e : a[i].do \in Extra
      /\ e = Len(a) \/ a[e + 1].do = "message"
  <2>0. e \in Nat
    BY <1>2 DEF CoversTo
  <2>1. \A i \in 1..e : i > 0
    BY <2>0
  <2> QED BY <1>0, <1>2, <2>1 DEF CoversTo
<1>4. e # 0 => a[1].do \in Extra
  <2>1. e # 0 => 1 \in 1..e
    BY <1>3
  <2> QED BY <2>1, <1>3
<1>5. e = 0 => a[1].do = "message"
  <2>1. e = 0 => e + 1 = 1 /\ e # Len(a)
    BY <1>1
  <2> QED BY <2>1, <1>3
<1>6. ASSUME a[1].do \in Extra PROVE Covers(Tail(a), b)
  <2>1. e # 0
    BY <1>5, <1>6 DEF Extra
  <2>2. /\ Sq(Tail(a)) /\ Len(Tail(a)) = Len(a) - 1
        /\ \A i \in 1..(Len(a) - 1) : Tail(a)[i] = a[i + 1]
    BY SqTail
  <2>3. e - 1 \in Nat /\ Len(b) <= e - 1 /\ e - 1 <= Len(Tail(a))
    <3>1. Len(Tail(a)) = Len(a) - 1
      BY <2>2
    <3>2. e \in Nat /\ e <= Len(a)
      BY <1>3, SMTT(30)
    <3> QED BY <3>1, <3>2, <2>1, <1>0, <1>1
  <2>4. ASSUME NEW i \in 1..(e - 1) PROVE Tail(a)[i].do \in Extra
    <3>1. i \in 1..(Len(a) - 1) /\ i + 1 \in 1..e
      <4>1. e \in Nat /\ e <= Len(a)
        BY <1>3
      <4> QED BY <4>1, <1>1
    <3> QED BY <3>1, <2>2, <1>3
  <2>5. e - 1 = Len(Tail(a)) \/ Tail(a)[(e - 1) + 1].do = "message"
    <3>1. CASE e = Len(a)
      BY <3>1, <2>2
    <3>2. CASE e # Len(a)
      <4>0. e \in Nat /\ e <= Len(a)
        BY <1>3
      <4>1. e \in 1..(Len(a) - 1) /\ (e - 1) + 1 = e
        BY <3>2, <2>1, <1>1, <4>0
      <4>2. Tail(a)[e] = a[e + 1]
        BY <4>1, <2>2
      <4>3. a[e + 1].do = "message"
        BY <3>2, <1>3
      <4> QED BY <4>1, <4>2, <4>3
    <3> QED BY <3>1, <3>2
  <2>6. \A i \in 1..Len(b) : Same(Tail(a)[i], b[i])
    BY <1>0
  <2> HIDE DEF b
  <2> QED BY <2>2, <2>3, <2>4, <2>5, <2>6, <1>0, CoversBy
<1> QED BY <1>4, <1>5, <1>6

LEMMA CoversEmpty == \A b : Sq(b) /\ Covers(<<>>, b) => b = <<>>
<1> SUFFICES ASSUME NEW b, Sq(b), Covers(<<>>, b), b # <<>> PROVE FALSE
  OBVIOUS
<1> QED BY CoversTail, SqEmpty

LEMMA NothingCovered == Covers(<<>>, <<>>)
<1>1. Len(<<>>) = 0 /\ (\A i \in DOMAIN <<>> : FALSE) /\ 0 \in 0..0 /\ \A i \in 1..0 : FALSE
  OBVIOUS
<1> QED BY <1>1 DEF Covers

\* One step put first on both sides.
LEMMA CoversCons ==
    ASSUME NEW a, NEW b, Sq(a), Sq(b), Covers(a, b), NEW s, Same(s, s)
    PROVE  Covers(<<s>> \o a, <<s>> \o b)
<1>1. Len(b) \in Nat /\ Len(a) \in Nat
  BY SqDomain
<1>2. PICK e : CoversTo(a, b, e)
  BY CoversIs
<1>0. e \in Nat /\ Len(b) <= e /\ e <= Len(a)
  BY <1>2 DEF CoversTo
<1> DEFINE x == <<s>> \o a
           y == <<s>> \o b
<1>4. /\ Sq(x) /\ Len(x) = 1 + Len(a) /\ x[1] = s
      /\ \A i \in 1..Len(a) : x[1 + i] = a[i]
  BY SqCons
<1>5. /\ Sq(y) /\ Len(y) = 1 + Len(b) /\ y[1] = s
      /\ \A i \in 1..Len(b) : y[1 + i] = b[i]
  BY SqCons
<1> HIDE DEF x, y
<1>3. Len(x) = 1 + Len(a) /\ Len(y) = 1 + Len(b)
  BY <1>4, <1>5
<1>7. e + 1 \in Nat /\ Len(y) <= e + 1 /\ e + 1 <= Len(x)
  BY <1>1, <1>0, <1>3
<1>8. ASSUME NEW i \in 1..Len(y) PROVE Same(x[i], y[i])
  <2>1. CASE i = 1
    BY <2>1, <1>4, <1>5
  <2>2. CASE i # 1
    <3>1. i - 1 \in 1..Len(b) /\ i - 1 \in 1..Len(a) /\ 1 + (i - 1) = i
      BY <2>2, <1>1, <1>0, <1>3
    <3>2. x[1 + (i - 1)] = a[i - 1] /\ y[1 + (i - 1)] = b[i - 1]
      BY <3>1, <1>4, <1>5
    <3>3. Same(a[i - 1], b[i - 1])
      BY <3>1, <1>2 DEF CoversTo
    <3> QED BY <3>1, <3>2, <3>3
  <2> QED BY <2>1, <2>2
<1>9. ASSUME NEW i \in 1..(e + 1), i > Len(y) PROVE x[i].do \in Extra
  <2>1. i - 1 \in 1..Len(a) /\ 1 + (i - 1) = i /\ i - 1 \in 1..e /\ i - 1 > Len(b)
    BY <1>1, <1>0, <1>3, <1>9
  <2>2. x[1 + (i - 1)] = a[i - 1]
    BY <2>1, <1>4
  <2>3. a[i - 1].do \in Extra
    BY <2>1, <1>2 DEF CoversTo
  <2> QED BY <2>1, <2>2, <2>3
<1>10. e + 1 = Len(x) \/ x[(e + 1) + 1].do = "message"
  <2>1. CASE e = Len(a)
    BY <2>1, <1>1, <1>3
  <2>2. CASE e # Len(a)
    <3>1. e + 1 \in 1..Len(a) /\ 1 + (e + 1) = (e + 1) + 1
      BY <2>2, <1>1, <1>0
    <3>2. x[1 + (e + 1)] = a[e + 1]
      BY <3>1, <1>4
    <3>3. a[e + 1].do = "message"
      BY <2>2, <1>2 DEF CoversTo
    <3> QED BY <3>1, <3>2, <3>3
  <2> QED BY <2>1, <2>2
<1>11. Covers(x, y)
  BY <1>4, <1>5, <1>7, <1>8, <1>9, <1>10, CoversBy
<1> QED BY <1>11 DEF x, y

\* After an error both have the error's steps left, the callers then their own.
LEMMA CoversFail ==
    ASSUME NEW s, NEW o, Same(s, o), s.do = "outcome", Sq(s.fail),
           \A j \in DOMAIN s.fail : s.fail[j].do \in Local
    PROVE  Sq(o.fail) /\ Covers(s.fail, o.fail)
<1>1. /\ o.fail \in Seq(Range(o.fail)) /\ Len(o.fail) <= Len(s.fail)
      /\ \A i \in DOMAIN o.fail : o.fail[i] = s.fail[i]
      /\ \A i \in DOMAIN s.fail : i > Len(o.fail) => s.fail[i].do \in Extra
  BY DEF Same
<1>2. Sq(o.fail)
  BY <1>1 DEF Sq
<1> DEFINE x == s.fail
           y == o.fail
<1>3. DOMAIN x = 1..Len(x) /\ Len(x) \in Nat /\ DOMAIN y = 1..Len(y) /\ Len(y) \in Nat
  BY <1>2, SqDomain
<1>4. \A i \in DOMAIN y : Same(x[i], y[i])
  <2> SUFFICES ASSUME NEW i \in DOMAIN y PROVE Same(x[i], y[i])
    OBVIOUS
  <2>1. x[i] = y[i] /\ x[i].do \in Local
    BY <1>1, <1>3
  <2> QED BY <2>1 DEF Same, Local, FromComp
<1>5. \A i \in (Len(y) + 1)..Len(x) : x[i].do \in Extra
  BY <1>1, <1>3
<1>6. Len(x) \in Len(y)..Len(x)
  BY <1>1, <1>3
<1> QED BY <1>2, <1>4, <1>5, <1>6 DEF Covers

-----------------------------------------------------------------------------
\* The names of what is exchanged differ.
LEMMA Names ==
    /\ \A x : Needs(x) # Status
    /\ NextId("file") # NextId("decomp")
    /\ \A s : Gives(s) \in NextIds => s.do = "next_id"
    /\ \A s : s.do = "next_id" => Gives(s) = NextId(s.x)
    /\ \A s : s.do \in {"message", "effect"} => Gives(s) = Status
    /\ \A s : s.do \notin {"arg", "next_id"} => Gives(s) = Status
    /\ Status \notin NextIds /\ Status \notin {INT("ncid"), INT("ioid"), INT("method")}
    /\ \A k : NextId(k) \in NextIds /\ NextId(k) \notin {INT("ncid"), INT("ioid"), INT("method")}
    /\ INT("ncid") # INT("ioid") /\ INT("ncid") # INT("method") /\ INT("ioid") # INT("method")
<1>1. \A x : Needs(x) # Status
  BY DEF Needs, Status, NextId, INT, Ierr
<1>2. NextId("file") # NextId("decomp")
  BY DEF NextId, INT
<1>3. \A s : Gives(s) \in NextIds => s.do = "next_id"
  BY DEF Gives, NextIds, NextId, INT, Status
<1>4. \A s : s.do = "next_id" => Gives(s) = NextId(s.x)
  BY DEF Gives
<1>5. \A s : s.do \notin {"arg", "next_id"} => Gives(s) = Status
  BY DEF Gives
<1>6. Status \notin NextIds /\ Status \notin {INT("ncid"), INT("ioid"), INT("method")}
  BY DEF Status, NextIds, NextId, INT
<1>7. \A k : NextId(k) \in NextIds /\ NextId(k) \notin {INT("ncid"), INT("ioid"), INT("method")}
  BY DEF NextIds, NextId, INT
<1>8. INT("ncid") # INT("ioid") /\ INT("ncid") # INT("method") /\ INT("ioid") # INT("method")
  BY DEF INT
<1> QED BY <1>1, <1>2, <1>3, <1>4, <1>5, <1>6, <1>7, <1>8

LEMMA SuppliedTail ==
    ASSUME NEW a, Sq(a), a # <<>>, NEW have, NEW more, NEW i \in 1..(Len(a) - 1),
           SuppliedIn(a, i + 1, have), a[1].do \notin {"message", "effect"} => have \subseteq more,
           Gives(a[1]) \in more \cup {Status}
    PROVE  SuppliedIn(Tail(a), i, more)
<1>1. /\ Len(a) \in Nat /\ Len(a) > 0
      /\ \A k \in 1..(Len(a) - 1) : Tail(a)[k] = a[k + 1]
  BY SqTail
<1>2. Tail(a)[i] = a[i + 1]
  BY <1>1
<1>3. \A j \in Nat \ {0} : (\A k \in (j + 1)..i : a[k].do \notin {"message", "effect"}) =>
                     \A k \in j..(i - 1) : Tail(a)[k].do \notin {"message", "effect"}
  <2> SUFFICES ASSUME NEW j \in Nat \ {0}, \A k \in (j + 1)..i : a[k].do \notin {"message", "effect"}, NEW k \in j..(i - 1)
               PROVE  Tail(a)[k].do \notin {"message", "effect"}
    OBVIOUS
  <2>1. k \in 1..(Len(a) - 1) /\ k + 1 \in (j + 1)..i
    BY <1>1
  <2>2. Tail(a)[k] = a[k + 1]
    BY <2>1, <1>1
  <2> QED BY <2>1, <2>2
<1>4. CASE Needs(a[i + 1].x) \in have /\ \A k \in 1..((i + 1) - 1) : a[k].do \notin {"message", "effect"}
  <2>1. (i + 1) - 1 = i /\ 1 \in 1..i
    BY <1>1
  <2>2. \A k \in 1..i : a[k].do \notin {"message", "effect"}
    BY <2>1, <1>4
  <2>3. Needs(a[i + 1].x) \in more
    BY <2>1, <2>2, <1>4
  <2>4. \A k \in (1 + 1)..i : k \in 1..i
    BY <1>1
  <2>5. \A k \in 1..(i - 1) : Tail(a)[k].do \notin {"message", "effect"}
    BY <1>3, <2>2, <2>4
  <2> QED BY <1>2, <2>3, <2>5 DEF SuppliedIn
<1>5. CASE Supplied(a, i + 1)
  <2>1. PICK j \in 1..((i + 1) - 1) : /\ Gives(a[j]) = Needs(a[i + 1].x)
                                     /\ \A k \in (j + 1)..((i + 1) - 1) : a[k].do \notin {"message", "effect"}
    BY <1>5 DEF Supplied
  <2>2. j \in 1..i /\ (i + 1) - 1 = i
    BY <1>1
  <2>3. \A k \in (j + 1)..i : a[k].do \notin {"message", "effect"}
    BY <2>1, <2>2
  <2>4. \A k \in j..(i - 1) : Tail(a)[k].do \notin {"message", "effect"}
    <3>1. j \in Nat \ {0}
      BY <2>2
    <3> QED BY <3>1, <2>3, <1>3
  <2>5. CASE j = 1
    <3>1. Needs(a[i + 1].x) \in more
      BY <2>1, <2>5, Names
    <3>2. \A k \in 1..(i - 1) : Tail(a)[k].do \notin {"message", "effect"}
      BY <2>4, <2>5
    <3> QED BY <1>2, <3>1, <3>2 DEF SuppliedIn
  <2>6. CASE j # 1
    <3>1. j - 1 \in 1..(i - 1) /\ j - 1 \in 1..(Len(a) - 1) /\ (j - 1) + 1 = j
      BY <2>2, <2>6, <1>1
    <3>2. Tail(a)[j - 1] = a[j]
      BY <3>1, <1>1
    <3>3. Gives(Tail(a)[j - 1]) = Needs(Tail(a)[i].x)
      BY <3>2, <1>2, <2>1
    <3>4. \A k \in ((j - 1) + 1)..(i - 1) : Tail(a)[k].do \notin {"message", "effect"}
      BY <2>4, <3>1
    <3>5. Supplied(Tail(a), i)
      BY <3>1, <3>3, <3>4 DEF Supplied
    <3> QED BY <3>5 DEF SuppliedIn
  <2> QED BY <2>5, <2>6
<1> QED BY <1>4, <1>5 DEF SuppliedIn

\* What is left after the first step.
LEMMA TextyTail ==
    ASSUME NEW a, Sq(a), a # <<>>, NEW have, NEW more, Texty(a, have),
           a[1].do \notin {"message", "effect"} => have \subseteq more,
           Gives(a[1]) \in more \cup {Status}
    PROVE  Texty(Tail(a), more)
<1>1. /\ Sq(Tail(a)) /\ Len(Tail(a)) = Len(a) - 1 /\ Len(a) \in Nat /\ Len(a) > 0
      /\ \A i \in 1..(Len(a) - 1) : Tail(a)[i] = a[i + 1]
  BY SqTail
<1>2. DOMAIN a = 1..Len(a) /\ DOMAIN Tail(a) = 1..(Len(a) - 1)
  BY <1>1, SqDomain
<1> SUFFICES ASSUME NEW i \in 1..(Len(a) - 1) PROVE Fits(Tail(a), i, more)
  BY <1>2 DEF Texty
<1> DEFINE b == Tail(a)
<1>3. b[i] = a[i + 1] /\ i + 1 \in 1..Len(a) /\ Len(b) = Len(a) - 1
  BY <1>1
<1>4. Fits(a, i + 1, have)
  BY <1>2, <1>3 DEF Texty
<1>5. i = Len(b) <=> i + 1 = Len(a)
  BY <1>1, <1>3
<1>6. i + 1 \in 1..Len(b) => b[i + 1] = a[(i + 1) + 1]
  BY <1>1, <1>3
<1>7. SubSeq(b, i + 1, Len(b)) = SubSeq(a, (i + 1) + 1, Len(a))
  <2>1. (i + 1) + 1 = i + 2
    OBVIOUS
  <2> QED BY <2>1, TailFrom
<1>8. b[i].do \notin Local \cup {"status"}
  BY <1>3, <1>4 DEF Fits
<1>9. b[i].do = "message" => Understood(SubSeq(b, i + 1, Len(b)), b[i].x, {}, 0)
  BY <1>3, <1>4, <1>7 DEF Fits
<1>10. b[i].do = "verdict" => \A j \in i..Len(b) : b[j].do # "message"
  <2> SUFFICES ASSUME b[i].do = "verdict", NEW j \in i..Len(b) PROVE b[j].do # "message"
    OBVIOUS
  <2>1. j \in 1..(Len(a) - 1) /\ j + 1 \in (i + 1)..Len(a)
    BY <1>1, <1>3
  <2>2. b[j] = a[j + 1]
    BY <2>1, <1>1
  <2>3. a[j + 1].do # "message"
    BY <2>1, <1>3, <1>4 DEF Fits
  <2> QED BY <2>2, <2>3
<1>11. b[i].do = "next_id" => b[i].x \in {"file", "decomp"}
  BY <1>3, <1>4 DEF Fits
<1>12. FitsEffect(b, i, more)
  <2> SUFFICES ASSUME b[i].do = "effect"
               PROVE  /\ i = Len(b) \/ (b[i + 1].do = "message" /\ b[i].x \in {"file", "decomp"})
                      /\ b[i].x # "exit" => SuppliedIn(b, i, more)
    BY DEF FitsEffect
  <2>1. /\ i + 1 = Len(a) \/ (a[(i + 1) + 1].do = "message" /\ a[i + 1].x \in {"file", "decomp"})
        /\ a[i + 1].x # "exit" => SuppliedIn(a, i + 1, have)
    BY <1>3, <1>4, Zenon DEF Fits, FitsEffect
  <2>2. i # Len(b) => i + 1 \in 1..Len(b)
    BY <1>1, <1>3
  <2>3. i = Len(b) \/ (b[i + 1].do = "message" /\ b[i].x \in {"file", "decomp"})
    BY <2>1, <2>2, <1>3, <1>5, <1>6
  <2>4. b[i].x # "exit" => SuppliedIn(b, i, more)
    BY <2>1, <1>3, SuppliedTail, Zenon
  <2> QED BY <2>3, <2>4
<1>13. FitsOutcome(b, i)
  BY <1>3, <1>4, <1>5, Zenon DEF Fits, FitsOutcome
<1> HIDE DEF b
<1>14. Fits(b, i, more)
  BY <1>8, <1>9, <1>10, <1>11, <1>12, <1>13 DEF Fits
<1> QED BY <1>14 DEF b

LEMMA FailingTail ==
    ASSUME NEW a, Sq(a), a # <<>>, Failing(a)
    PROVE  Failing(Tail(a)) /\ a[1].do \in Local \cup {"status"}
<1>1. /\ Sq(Tail(a)) /\ Len(Tail(a)) = Len(a) - 1 /\ Len(a) \in Nat /\ Len(a) > 0
      /\ \A i \in 1..(Len(a) - 1) : Tail(a)[i] = a[i + 1]
  BY SqTail
<1>2. DOMAIN a = 1..Len(a) /\ DOMAIN Tail(a) = 1..(Len(a) - 1)
  BY <1>1, SqDomain
<1>3. 1 \in 1..Len(a)
  BY <1>1
<1>4. ASSUME NEW i \in 1..(Len(a) - 1) PROVE Tail(a)[i].do \in Local \cup {"status"}
  <2>1. i + 1 \in 1..Len(a) /\ Tail(a)[i] = a[i + 1]
    BY <1>1
  <2> QED BY <2>1, <1>2 DEF Failing
<1> QED BY <1>2, <1>3, <1>4 DEF Failing

LEMMA MessageTail ==
    ASSUME NEW a, Sq(a), a # <<>>, HasMessage(Tail(a))
    PROVE  HasMessage(a)
<1>1. /\ Sq(Tail(a)) /\ Len(Tail(a)) = Len(a) - 1 /\ Len(a) \in Nat /\ Len(a) > 0
      /\ \A i \in 1..(Len(a) - 1) : Tail(a)[i] = a[i + 1]
  BY SqTail
<1>2. DOMAIN a = 1..Len(a) /\ DOMAIN Tail(a) = 1..(Len(a) - 1)
  BY <1>1, SqDomain
<1>3. PICK i \in 1..(Len(a) - 1) : Tail(a)[i].do = "message"
  BY <1>2 DEF HasMessage
<1>4. i + 1 \in 1..Len(a) /\ Tail(a)[i] = a[i + 1]
  BY <1>1
<1> QED BY <1>2, <1>3, <1>4 DEF HasMessage

LEMMA NoMessageFails ==
    ASSUME NEW a, Failing(a)
    PROVE  ~HasMessage(a)
BY DEF Failing, HasMessage, Local

\* Under PIO_BCAST_ERROR.
Quietly(a, b) ==
    /\ \A i \in DOMAIN a : i > Len(b) => a[i].do # "check"
    /\ \A i \in DOMAIN a : a[i].do = "outcome" => Mild(a[i])

LEMMA QuietlyTail ==
    ASSUME NEW a, NEW b, NEW d, Sq(a), a # <<>>, Quietly(a, b), Len(b) \in Nat,
           Len(d) \in Nat, Len(d) >= Len(b) - 1
    PROVE  Quietly(Tail(a), d)
<1>1. /\ Sq(Tail(a)) /\ Len(Tail(a)) = Len(a) - 1 /\ Len(a) \in Nat /\ Len(a) > 0
      /\ \A i \in 1..(Len(a) - 1) : Tail(a)[i] = a[i + 1]
  BY SqTail
<1>2. DOMAIN a = 1..Len(a) /\ DOMAIN Tail(a) = 1..(Len(a) - 1)
  BY <1>1, SqDomain
<1>3. ASSUME NEW i \in 1..(Len(a) - 1)
      PROVE  (i > Len(d) => Tail(a)[i].do # "check") /\ (Tail(a)[i].do = "outcome" => Mild(Tail(a)[i]))
  <2>1. i + 1 \in 1..Len(a) /\ Tail(a)[i] = a[i + 1] /\ (i > Len(d) => i + 1 > Len(b))
    BY <1>1
  <2> QED BY <2>1, <1>2 DEF Quietly
<1> QED BY <1>2, <1>3 DEF Quietly

-----------------------------------------------------------------------------
(***************************************************************************)
(* Every step of a component and its I/O tasks leaves a state that is in   *)
(* order.                                                                  *)
(***************************************************************************)
LEMMA Parallel ==
    ASSUME NEW c, NEW v, OK(c, v), v.a # <<>>, v.a[1].do \notin {"message", "arg"},
           v.b # <<>> \/ v.a[1].do \notin Extra
    PROVE  /\ Sq(v.a) /\ Sq(v.b) /\ v.b # <<>> /\ v.ph \in {"start", "in"} /\ v.open = TRUE
           /\ Same(v.a[1], v.b[1]) /\ Covers(v.a, v.b) /\ Covers(Tail(v.a), Tail(v.b))
           /\ Sq(Tail(v.a)) /\ Sq(Tail(v.b)) /\ Len(Tail(v.a)) = Len(v.a) - 1 /\ Len(Tail(v.b)) = Len(v.b) - 1
           /\ Len(v.b) <= Len(v.a) /\ Len(v.b) > 0 /\ Len(v.a) \in Nat /\ Len(v.b) \in Nat
<1>1. Sq(v.a) /\ Sq(v.b) /\ v.ph \in {"args", "start", "in"} /\ v.open = TRUE
  BY DEF OK, Shape
<1>2. v.ph # "args"
  BY DEF OK, Phase
<1>3. Covers(v.a, v.b)
  BY <1>1, <1>2 DEF OK, Phase
<1>4. v.b # <<>>
  <2> SUFFICES ASSUME v.b = <<>> PROVE FALSE
    OBVIOUS
  <2>1. v.a[1].do \in Extra \cup {"message"}
    BY <1>1, <1>3, CoversExtra
  <2> QED BY <2>1
<1>5. /\ Same(v.a[1], v.b[1]) /\ Covers(Tail(v.a), Tail(v.b))
      /\ Len(v.b) <= Len(v.a) /\ Len(v.b) > 0 /\ Len(v.a) \in Nat /\ Len(v.b) \in Nat
  BY <1>1, <1>3, <1>4, CoversTail
<1>6. Sq(Tail(v.a)) /\ Sq(Tail(v.b)) /\ Len(Tail(v.a)) = Len(v.a) - 1 /\ Len(Tail(v.b)) = Len(v.b) - 1
  BY <1>1, <1>4, SqTail
<1> QED BY <1>1, <1>2, <1>3, <1>4, <1>5, <1>6

LEMMA CountsNat ==
    ASSUME NEW v, NEW w, NEW kd, Counts(v, w, kd), \A x \in Kinds : v.n[x] \in Nat
    PROVE  \A x \in Kinds : w.n[x] \in Nat
<1> SUFFICES ASSUME NEW x \in Kinds PROVE w.n[x] \in Nat
  OBVIOUS
<1>1. w.n[x] = v.n[x] + (IF x = kd THEN 1 ELSE 0)
  BY DEF Counts
<1> QED BY <1>1

\* Within a call nothing but what is left changes.
LEMMA InCallOK ==
    ASSUME NEW c, NEW v, NEW w, NEW have, NEW kd, OK(c, v), v.open = TRUE,
           Counts(v, w, kd), kd # "msg", InCall(v, w, have), w.io = v.io, Keeps(v, w),
           Sq(w.a), Sq(w.b), Covers(w.a, w.b), Failing(w.a) \/ Texty(w.a, w.have),
           w.eh = "BCAST" => Quietly(w.a, w.b),
           HasMessage(w.a) => w.ierr = "ok" /\ HasMessage(v.a),
           \A x \in have : x \in v.have \/ x \notin {INT("ncid"), INT("ioid"), INT("method")}
    PROVE  OK(c, w)
<1>1. Shape(w)
  <2>1. w.cur = v.cur /\ w.io = v.io /\ w.open = TRUE /\ w.ph = "in"
    BY DEF Keeps, InCall
  <2>2. IsArgs(w.cur) /\ IsArgs(w.io) /\ \A x \in Kinds : v.n[x] \in Nat
    BY <2>1 DEF OK, Shape
  <2>3. \A x \in Kinds : w.n[x] \in Nat
    BY <2>2, CountsNat
  <2> QED BY <2>1, <2>2, <2>3 DEF Shape
<1>2. Phase(w)
  <2>1. w.ph = "in" /\ w.kind = kd
    BY DEF InCall, Counts
  <2> QED BY <2>1 DEF Phase
<1>3. Text(w)
  BY DEF Text
<1>4. Calm(w)
  BY DEF Calm, Quietly
<1>5. NoError(w)
  BY DEF NoError, InCall
<1>6. Knows(w)
  <2>1. w.cur = v.cur /\ w.io = v.io /\ w.tbl = v.tbl /\ w.all = v.all /\ w.ph = "in"
    BY DEF Keeps, InCall
  <2>2. \A x \in w.have : x \in v.have \/ x \notin {INT("ncid"), INT("ioid"), INT("method")}
    BY DEF InCall
  <2>3. Idle(w) => w.have = {}
    BY DEF Idle, InCall
  <2>4. Knows(v)
    BY DEF OK
  <2> QED BY <2>1, <2>2, <2>3, <2>4 DEF Knows
<1>7. Listed(c, w)
  BY DEF OK, Listed, Keeps
<1> QED BY <1>1, <1>2, <1>3, <1>4, <1>5, <1>6, <1>7 DEF OK

LEMMA CalmIs == \A v : Calm(v) <=> (v.eh = "BCAST" => Quietly(v.a, v.b))
BY DEF Calm, Quietly

\* A step taken on both sides.
LEMMA BothGo ==
    ASSUME NEW c, NEW v, NEW w, NEW have, NEW kd, OK(c, v), v.a # <<>>,
           v.a[1].do \notin {"message", "arg", "effect"}, v.b # <<>> \/ v.a[1].do \notin Extra,
           w.a = Tail(v.a), w.b = Tail(v.b),
           Counts(v, w, kd), kd # "msg", InCall(v, w, have), w.io = v.io, Keeps(v, w),
           v.have \subseteq have, Gives(v.a[1]) \in have \cup {Status}, have \subseteq v.have \cup {Gives(v.a[1])},
           HasMessage(w.a) => w.ierr = "ok"
    PROVE  OK(c, w)
<1>1. /\ Sq(v.a) /\ Sq(v.b) /\ v.b # <<>> /\ v.open = TRUE
      /\ Covers(Tail(v.a), Tail(v.b)) /\ Sq(Tail(v.a)) /\ Sq(Tail(v.b))
      /\ Len(Tail(v.b)) = Len(v.b) - 1 /\ Len(v.b) > 0 /\ Len(v.b) \in Nat
  BY Parallel
<1>2. Failing(w.a) \/ Texty(w.a, w.have)
  <2>1. Failing(v.a) \/ Texty(v.a, v.have)
    BY DEF OK, Text
  <2>2. CASE Failing(v.a)
    BY <2>2, <1>1, FailingTail
  <2>3. CASE Texty(v.a, v.have) /\ w.b # <<>>
    <3>1. w.have = have
      BY <2>3 DEF InCall
    <3>2. Texty(Tail(v.a), have)
      BY <2>3, <1>1, TextyTail
    <3> QED BY <3>1, <3>2
  <2>4. CASE Texty(v.a, v.have) /\ w.b = <<>>
    <3>1. Covers(Tail(v.a), <<>>)
      BY <2>4, <1>1
    <3>2. Texty(Tail(v.a), have)
      BY <2>4, <1>1, TextyTail
    <3>3. w.have = {}
      BY <2>4 DEF InCall
    <3>4. CASE w.a = <<>>
      <4>1. DOMAIN w.a = 1..0
        BY <3>4, SqEmpty, SqDomain
      <4> QED BY <4>1 DEF Texty
    <3>5. CASE w.a # <<>>
      <4>1. w.a[1].do \in Extra \cup {"message"}
        BY <3>1, <3>5, <1>1, CoversExtra
      <4>2. 1 \in DOMAIN w.a
        BY <3>5, <1>1, SqDomain
      <4>3. w.a[1].do \notin Local
        BY <3>2, <4>2 DEF Texty, Fits
      <4>4. w.a[1].do = "message"
        BY <4>1, <4>3 DEF Extra, Local
      <4>5. ASSUME NEW i \in DOMAIN w.a PROVE Fits(w.a, i, {})
        <5>1. Fits(w.a, i, have)
          BY <3>2 DEF Texty
        <5>2. SuppliedIn(w.a, i, have) /\ w.a[i].do = "effect" => SuppliedIn(w.a, i, {})
          <6>0. i \in Nat /\ (i # 1 => 1 \in 1..(i - 1))
            BY <1>1, SqDomain
          <6>1. i # 1 => ~(\A k \in 1..(i - 1) : w.a[k].do \notin {"message", "effect"})
            BY <6>0, <4>4
          <6>2. i = 1 => w.a[i].do # "effect"
            BY <4>4
          <6> QED BY <6>1, <6>2 DEF SuppliedIn
        <5>3. FitsEffect(w.a, i, {})
          BY <5>1, <5>2 DEF Fits, FitsEffect
        <5> QED BY <5>1, <5>3 DEF Fits
      <4> QED BY <3>3, <4>5 DEF Texty
    <3> QED BY <3>4, <3>5
  <2> QED BY <2>1, <2>2, <2>3, <2>4
<1>3. w.eh = "BCAST" => Quietly(w.a, w.b)
  <2>1. Len(w.b) \in Nat /\ Len(w.b) >= Len(v.b) - 1
    BY <1>1
  <2>2. w.eh = v.eh /\ Calm(v)
    BY DEF Keeps, OK
  <2> QED BY <2>1, <2>2, <1>1, CalmIs, QuietlyTail
<1>4. HasMessage(w.a) => HasMessage(v.a)
  BY <1>1, MessageTail
<1>5. \A x \in have : x \in v.have \/ x \notin {INT("ncid"), INT("ioid"), INT("method")}
  <2>1. Gives(v.a[1]) \notin {INT("ncid"), INT("ioid"), INT("method")}
    BY Names
  <2> QED BY <2>1
<1> QED BY <1>1, <1>2, <1>3, <1>4, <1>5, InCallOK

LEMMA ShareOK ==
    ASSUME NEW c, NEW v, NEW w, OK(c, v), ShareStep(v, w)
    PROVE  OK(c, w)
<1>1. /\ v.a # <<>> /\ v.a[1].do \in FromComp /\ w.a = Tail(v.a) /\ w.b = Tail(v.b) /\ Counts(v, w, "comp")
      /\ InCall(v, w, v.have) /\ w.io = v.io /\ Keeps(v, w)
      /\ w.ierr = v.ierr \/ v.a[1].do = "verdict"
  BY DEF ShareStep, At1
<1>2. v.a[1].do \notin {"message", "arg", "effect"} \cup Extra /\ Gives(v.a[1]) = Status
  BY <1>1, Names DEF FromComp, Extra
<1>3. HasMessage(w.a) => w.ierr = "ok"
  <2> SUFFICES ASSUME HasMessage(w.a) PROVE w.ierr = "ok"
    OBVIOUS
  <2>1. Sq(v.a)
    BY DEF OK, Shape
  <2>2. HasMessage(v.a)
    BY <1>1, <2>1, MessageTail
  <2>3. v.ierr = "ok"
    BY <2>2 DEF OK, NoError
  <2>4. v.a[1].do # "verdict"
    <3> SUFFICES ASSUME v.a[1].do = "verdict" PROVE FALSE
      OBVIOUS
    <3>1. Texty(v.a, v.have)
      BY <2>2, NoMessageFails DEF OK, Text
    <3>2. DOMAIN v.a = 1..Len(v.a) /\ Len(v.a) \in Nat /\ Len(v.a) > 0
      BY <2>1, <1>1, SqDomain
    <3>3. 1 \in DOMAIN v.a
      BY <3>2
    <3>4. \A j \in 1..Len(v.a) : v.a[j].do # "message"
      BY <3>1, <3>3 DEF Texty, Fits
    <3> QED BY <3>2, <3>4, <2>2 DEF HasMessage
  <2> QED BY <1>1, <2>3, <2>4
<1> QED BY <1>1, <1>2, <1>3, BothGo

LEMMA AnswerOK ==
    ASSUME NEW c, NEW v, NEW w, OK(c, v), AnswerStep(v, w)
    PROVE  OK(c, w)
<1> DEFINE have == v.have \cup (IF v.a[1].do = "next_id" THEN {NextId(v.a[1].x)} ELSE {})
<1>1. /\ v.a # <<>> /\ v.a[1].do \in {"answer", "status", "next_id"}
      /\ w.a = Tail(v.a) /\ w.b = Tail(v.b) /\ Counts(v, w, "io")
      /\ InCall(v, w, have) /\ w.io = v.io /\ Keeps(v, w) /\ w.ierr = v.ierr
  BY DEF AnswerStep, At1
<1>2. /\ v.a[1].do \notin {"message", "arg", "effect"} \cup Extra
      /\ v.have \subseteq have /\ Gives(v.a[1]) \in have \cup {Status} /\ have \subseteq v.have \cup {Gives(v.a[1])}
  <2>1. v.a[1].do \notin {"message", "arg", "effect"} \cup Extra
    BY <1>1 DEF Extra
  <2>2. CASE v.a[1].do = "next_id"
    BY <2>1, <2>2, Names
  <2>3. CASE v.a[1].do # "next_id"
    BY <2>1, <2>3, Names
  <2> QED BY <2>2, <2>3
<1> HIDE DEF have
<1>3. HasMessage(w.a) => w.ierr = "ok"
  <2>1. Sq(v.a)
    BY DEF OK, Shape
  <2>2. HasMessage(w.a) => HasMessage(v.a)
    BY <1>1, <2>1, MessageTail
  <2> QED BY <1>1, <2>2 DEF OK, NoError
<1> QED BY <1>1, <1>2, <1>3, BothGo

LEMMA OwnOK ==
    ASSUME NEW c, NEW v, NEW w, OK(c, v), OwnStep(v, w)
    PROVE  OK(c, w)
<1>1. /\ v.a # <<>> /\ v.a[1].do = "own" /\ w.a = Tail(v.a) /\ w.b = Tail(v.b) /\ Counts(v, w, "none")
      /\ InCall(v, w, v.have) /\ w.io = v.io /\ Keeps(v, w) /\ w.ierr = "ok"
  BY DEF OwnStep, At1
<1>2. v.a[1].do \notin {"message", "arg", "effect"} \cup Extra /\ Gives(v.a[1]) = Status
  BY <1>1, Names DEF Extra
<1> QED BY <1>1, <1>2, BothGo

LEMMA CatEmpty == \A s : Sq(s) => s \o <<>> = s
<1> SUFFICES ASSUME NEW s, Sq(s) PROVE s \o <<>> = s
  OBVIOUS
<1>1. PICK S : s \in Seq(S)
  BY DEF Sq
<1> QED BY <1>1

LEMMA OutcomeOK ==
    ASSUME NEW c, NEW v, NEW w, OK(c, v), OutcomeStep(v, w)
    PROVE  OK(c, w)
<1>1. /\ v.a # <<>> /\ v.a[1].do = "outcome" /\ w.a = Going(v.a, w.ierr) /\ w.b = Going(v.b, w.ierr)
      /\ Counts(v, w, "io") /\ InCall(v, w, v.have) /\ w.io = v.io /\ Keeps(v, w)
  BY DEF OutcomeStep, At1
<1>2. v.a[1].do \notin {"message", "arg", "effect"} \cup Extra /\ Gives(v.a[1]) = Status
  BY <1>1, Names DEF Extra
<1>3. CASE w.ierr = "ok"
  <2>1. w.a = Tail(v.a) /\ w.b = Tail(v.b)
    BY <1>1, <1>3 DEF Going
  <2> QED BY <1>1, <1>2, <1>3, <2>1, BothGo
<1>4. CASE w.ierr # "ok"
  <2> DEFINE s == v.a[1]
             o == v.b[1]
  <2>1. /\ Sq(v.a) /\ Sq(v.b) /\ v.b # <<>> /\ v.open = TRUE
        /\ Same(s, o)
        /\ Sq(Tail(v.a)) /\ Sq(Tail(v.b)) /\ Len(Tail(v.a)) = Len(v.a) - 1 /\ Len(Tail(v.b)) = Len(v.b) - 1
        /\ Len(v.b) <= Len(v.a) /\ Len(v.b) > 0 /\ Len(v.a) \in Nat /\ Len(v.b) \in Nat
    BY <1>1, <1>2, Parallel
  <2>2. Texty(v.a, v.have)
    <3>1. 1 \in DOMAIN v.a
      BY <2>1, <1>1, SqDomain
    <3>2. ~Failing(v.a)
      BY <3>1, <1>1 DEF Failing, Local
    <3> QED BY <3>2 DEF OK, Text
  <2>3. /\ Sq(s.fail) /\ (s.on => Len(v.a) = 1)
        /\ \A j \in DOMAIN s.fail : s.fail[j].do \in Local
    <3>1. 1 \in DOMAIN v.a
      BY <2>1, <1>1, SqDomain
    <3>2. FitsOutcome(v.a, 1)
      BY <2>2, <3>1 DEF Texty, Fits
    <3> QED BY <3>2, <1>1 DEF FitsOutcome
  <2>4. Head(v.a) = s /\ Head(v.b) = o
    BY <2>1, <1>1, SqTail
  <2>5. Sq(o.fail) /\ Covers(s.fail, o.fail)
    BY <2>1, <2>3, <1>1, CoversFail
  <2>6. w.a = s.fail
    <3>1. w.a = s.fail \o (IF s.on THEN Tail(v.a) ELSE <<>>)
      BY <1>1, <1>4, <2>4 DEF Going
    <3>2. s.on => Tail(v.a) = <<>>
      <4> SUFFICES ASSUME s.on PROVE Tail(v.a) = <<>>
        OBVIOUS
      <4>1. Len(v.a) = 1
        BY <2>3
      <4>2. Len(Tail(v.a)) <= 0
        <5>1. Len(Tail(v.a)) = Len(v.a) - 1
          BY <2>1
        <5>2. \A m, n : n = 1 /\ m = n - 1 => m <= 0
          OBVIOUS
        <5> QED BY ONLY <4>1, <5>1, <5>2
      <4>3. Sq(Tail(v.a))
        BY <2>1
      <4> HIDE DEF s, o
      <4> QED BY <4>2, <4>3, SqDomain
    <3>3. (IF s.on THEN Tail(v.a) ELSE <<>>) = <<>>
      BY <3>2
    <3>4. s.fail \o <<>> = s.fail
      BY <2>3, CatEmpty
    <3> QED BY <3>1, <3>3, <3>4
  <2>7. w.b = o.fail
    <3>1. w.b = o.fail \o (IF o.on THEN Tail(v.b) ELSE <<>>)
      BY <1>1, <1>4, <2>4 DEF Going
    <3>2. o.on = s.on
      BY <2>1, <1>1 DEF Same
    <3>3. s.on => Tail(v.b) = <<>>
      <4> SUFFICES ASSUME s.on PROVE Tail(v.b) = <<>>
        OBVIOUS
      <4>1. Len(v.a) = 1
        BY <2>3
      <4>2. Len(Tail(v.b)) <= 0
        BY <4>1, <2>1
      <4>3. Sq(Tail(v.b))
        BY <2>1
      <4> HIDE DEF s, o
      <4> QED BY <4>2, <4>3, SqDomain
    <3>4. (IF o.on THEN Tail(v.b) ELSE <<>>) = <<>>
      BY <3>2, <3>3
    <3>5. o.fail \o <<>> = o.fail
      BY <2>5, CatEmpty
    <3> QED BY <3>1, <3>4, <3>5
  <2> HIDE DEF s, o
  <2>8. Failing(w.a)
    BY <2>3, <2>6 DEF Failing
  <2>9. w.eh = "BCAST" => Quietly(w.a, w.b)
    <3> SUFFICES ASSUME w.eh = "BCAST" PROVE Quietly(w.a, w.b)
      OBVIOUS
    <3>1. v.eh = "BCAST"
      BY <1>1 DEF Keeps
    <3>2. Mild(s)
      <4>1. 1 \in DOMAIN v.a
        BY <2>1, <1>1, SqDomain
      <4> QED BY <3>1, <4>1, <1>1 DEF OK, Calm, s
    <3>3. DOMAIN s.fail = 1..Len(s.fail) /\ Len(s.fail) \in Nat /\ DOMAIN o.fail = 1..Len(o.fail) /\ Len(o.fail) \in Nat
      BY <2>3, <2>5, SqDomain
    <3>4. /\ \A i \in DOMAIN o.fail : o.fail[i] = s.fail[i]
          /\ \A i \in DOMAIN s.fail : i > Len(o.fail) =>
                 (s.fail[i].do = "check" => \E j \in DOMAIN o.fail : o.fail[j].do = "check")
          /\ Len(o.fail) <= Len(s.fail)
      BY <2>1, <1>1 DEF Same, s
    <3>5. ASSUME NEW i \in DOMAIN s.fail, i > Len(o.fail), s.fail[i].do = "check" PROVE FALSE
      <4>1. PICK j \in DOMAIN o.fail : o.fail[j].do = "check"
        BY <3>4, <3>5
      <4>2. j \in DOMAIN s.fail /\ s.fail[j].do = "check" /\ j <= Len(o.fail)
        BY <4>1, <3>3, <3>4
      <4>3. i = j
        BY <3>2, <3>5, <4>2 DEF Mild
      <4>4. i \in Nat /\ Len(o.fail) \in Nat
        BY <3>3
      <4> QED BY <3>5, <4>2, <4>3, <4>4
    <3>6. \A i \in DOMAIN s.fail : s.fail[i].do # "outcome"
      BY <2>3 DEF Local
    <3> QED BY <3>5, <3>6, <2>6, <2>7 DEF Quietly
  <2>10. ~HasMessage(w.a)
    BY <2>8, NoMessageFails
  <2> QED BY <1>1, <2>1, <2>3, <2>5, <2>6, <2>7, <2>8, <2>9, <2>10, InCallOK
<1> QED BY <1>3, <1>4

LEMMA NilCat == \A s : Sq(s) => <<>> \o s = s
<1> SUFFICES ASSUME NEW s, Sq(s) PROVE <<>> \o s = s
  OBVIOUS
<1>1. PICK S : s \in Seq(S)
  BY DEF Sq
<1> QED BY <1>1

\* Where nobody but the callers goes on, or everybody does: what comes first.
LEMMA Place ==
    ASSUME NEW c, NEW v, OK(c, v), v.a # <<>>
    PROVE  /\ Sq(v.a) /\ Sq(v.b) /\ v.open = TRUE
           /\ v.a[1].do = "message" => v.ph = "in" /\ v.b = <<>>
           /\ v.a[1].do = "arg" => v.ph = "args"
           /\ v.a[1].do \notin {"message", "arg"} => v.ph # "args" /\ Covers(v.a, v.b)
           /\ v.a[1].do \notin {"message", "arg", "share"} => v.ph = "in"
<1>1. Sq(v.a) /\ Sq(v.b) /\ v.ph \in {"args", "start", "in"} /\ v.open = TRUE
  BY DEF OK, Shape
<1>2. Phase(v)
  BY DEF OK
<1>3. v.ph # "args" => Covers(v.a, v.b)
  BY <1>1, <1>2 DEF Phase
<1>4. v.ph # "args" => v.a[1].do # "arg"
  <2> SUFFICES ASSUME v.ph # "args", v.a[1].do = "arg" PROVE FALSE
    OBVIOUS
  <2>1. CASE v.b = <<>>
    BY <1>1, <1>3, <2>1, CoversExtra DEF Extra
  <2>2. CASE v.b # <<>>
    <3>1. Same(v.a[1], v.b[1])
      BY <1>1, <1>3, <2>2, CoversTail
    <3> QED BY <3>1 DEF Same
  <2> QED BY <2>1, <2>2
<1>5. v.a[1].do = "message" => v.ph = "in" /\ v.b = <<>>
  <2> SUFFICES ASSUME v.a[1].do = "message" PROVE v.ph = "in" /\ v.b = <<>>
    OBVIOUS
  <2>1. v.ph = "in"
    BY <1>1, <1>2 DEF Phase
  <2>2. v.b # <<>> => Same(v.a[1], v.b[1])
    BY <1>1, <1>3, <2>1, CoversTail
  <2> QED BY <2>1, <2>2 DEF Same
<1>6. v.ph = "args" => v.a[1].do = "arg"
  BY <1>2 DEF Phase
<1>7. v.ph = "start" => v.a[1].do = "share"
  BY <1>2 DEF Phase
<1> QED BY <1>1, <1>3, <1>4, <1>5, <1>6, <1>7

LEMMA QuietlyCons ==
    ASSUME NEW a, NEW b, Sq(a), Sq(b), Quietly(a, b), NEW s, s.do \notin {"check", "outcome"}
    PROVE  Quietly(<<s>> \o a, <<s>> \o b)
<1> DEFINE x == <<s>> \o a
           y == <<s>> \o b
<1>1. /\ Sq(x) /\ Len(x) = 1 + Len(a) /\ x[1] = s
      /\ \A i \in 1..Len(a) : x[1 + i] = a[i]
  BY SqCons
<1>2. Sq(y) /\ Len(y) = 1 + Len(b)
  BY SqCons
<1> HIDE DEF x, y
<1>3. DOMAIN x = 1..(1 + Len(a)) /\ DOMAIN a = 1..Len(a) /\ Len(a) \in Nat /\ Len(b) \in Nat
  BY <1>1, SqDomain
<1>4. ASSUME NEW i \in DOMAIN x
      PROVE  (i > Len(y) => x[i].do # "check") /\ (x[i].do = "outcome" => Mild(x[i]))
  <2>1. CASE i = 1
    BY <2>1, <1>1
  <2>2. CASE i # 1
    <3>1. i - 1 \in 1..Len(a) /\ 1 + (i - 1) = i /\ (i > Len(y) => i - 1 > Len(b))
      BY <2>2, <1>2, <1>3
    <3>2. x[i] = a[i - 1]
      BY <3>1, <1>1
    <3>3. i - 1 \in DOMAIN a
      BY <3>1, <1>3
    <3> QED BY <3>1, <3>2, <3>3 DEF Quietly
  <2> QED BY <2>1, <2>2
<1>5. Quietly(x, y)
  BY <1>4 DEF Quietly
<1> QED BY <1>5 DEF x, y

LEMMA FailingCons ==
    ASSUME NEW a, Sq(a), Failing(a), NEW s, s.do \in Local \cup {"status"}
    PROVE  Failing(<<s>> \o a)
<1> DEFINE x == <<s>> \o a
<1>1. /\ Sq(x) /\ Len(x) = 1 + Len(a) /\ x[1] = s
      /\ \A i \in 1..Len(a) : x[1 + i] = a[i]
  BY SqCons
<1> HIDE DEF x
<1>3. DOMAIN x = 1..(1 + Len(a)) /\ DOMAIN a = 1..Len(a) /\ Len(a) \in Nat
  BY <1>1, SqDomain
<1>4. ASSUME NEW i \in DOMAIN x PROVE x[i].do \in Local \cup {"status"}
  <2>1. CASE i = 1
    BY <2>1, <1>1
  <2>2. CASE i # 1
    <3>1. i - 1 \in 1..Len(a) /\ 1 + (i - 1) = i
      BY <2>2, <1>3
    <3>2. x[i] = a[i - 1]
      BY <3>1, <1>1
    <3>3. i - 1 \in DOMAIN a
      BY <3>1, <1>3
    <3> QED BY <3>1, <3>2, <3>3 DEF Failing
  <2> QED BY <2>1, <2>2
<1>5. Failing(x)
  BY <1>4 DEF Failing
<1> QED BY <1>5 DEF x

\* A step of their own that comes first is one after an error.
LEMMA LocalFails ==
    ASSUME NEW c, NEW v, OK(c, v), v.a # <<>>, v.a[1].do \in Local
    PROVE  Failing(v.a) /\ Failing(Tail(v.a)) /\ Sq(v.a) /\ Sq(Tail(v.a))
<1>1. Sq(v.a)
  BY DEF OK, Shape
<1>2. 1 \in DOMAIN v.a
  BY <1>1, SqDomain
<1>3. ~Texty(v.a, v.have)
  BY <1>2 DEF Texty, Fits
<1>4. Failing(v.a)
  BY <1>3 DEF OK, Text
<1> QED BY <1>1, <1>4, FailingTail, SqTail

LEMMA HandleOK ==
    ASSUME NEW c, NEW v, NEW w, OK(c, v), HandleStep(v, w)
    PROVE  OK(c, w)
<1> DEFINE s == [do |-> "status"]
<1>1. /\ v.a # <<>> /\ v.a[1].do \in {"check", "check_filter", "check_default", "pio_err"}
      /\ w.ierr = v.ierr /\ w.a = Handled(v.a, v.ierr, v.eh)
      /\ w.b = (IF v.b = <<>> THEN <<>> ELSE Handled(v.b, v.ierr, v.eh))
      /\ Counts(v, w, "none") /\ InCall(v, w, v.have) /\ w.io = v.io /\ Keeps(v, w)
  BY DEF HandleStep, At1
<1>2. Failing(v.a) /\ Failing(Tail(v.a)) /\ Sq(v.a) /\ Sq(Tail(v.a))
  BY <1>1, LocalFails DEF Local
<1>3. Sq(v.b) /\ v.open = TRUE /\ v.ph = "in" /\ Covers(v.a, v.b)
  BY <1>1, Place
<1>4. Head(v.a) = v.a[1] /\ Len(v.a) \in Nat /\ Len(v.b) \in Nat
  BY <1>1, <1>2, <1>3, SqTail, SqDomain
<1>5. w.eh = v.eh /\ (v.eh = "BCAST" => Quietly(v.a, v.b))
  BY <1>1, CalmIs DEF Keeps, OK
<1>6. CASE v.b = <<>>
  <2>1. v.a[1].do \in Extra /\ Covers(Tail(v.a), <<>>)
    BY <1>1, <1>2, <1>3, <1>6, CoversExtra
  <2>2. v.eh = "BCAST" => v.a[1].do # "check"
    <3>1. 1 \in DOMAIN v.a /\ 1 > Len(v.b)
      BY <1>1, <1>2, <1>6, SqDomain
    <3> QED BY <3>1, <1>5 DEF Quietly
  <2>3. w.a = <<>> \o Tail(v.a)
    BY <1>1, <1>4, <2>1, <2>2 DEF Handled, Extra
  <2>4. w.a = Tail(v.a) /\ w.b = <<>>
    BY <1>1, <1>2, <1>6, <2>3, NilCat
  <2>5. Len(<<>>) = 0 /\ Sq(<<>>)
    BY SqEmpty
  <2>6. w.eh = "BCAST" => Quietly(w.a, w.b)
    BY <1>1, <1>2, <1>4, <1>5, <1>6, <2>4, <2>5, QuietlyTail
  <2> QED BY <1>1, <1>2, <1>3, <2>1, <2>4, <2>5, <2>6, NoMessageFails, InCallOK
<1>7. CASE v.b # <<>>
  <2>1. /\ Same(v.a[1], v.b[1]) /\ Covers(Tail(v.a), Tail(v.b))
    BY <1>2, <1>3, <1>7, CoversTail
  <2>2. v.b[1].do = v.a[1].do
    BY <2>1 DEF Same
  <2>3. Head(v.b) = v.b[1] /\ Sq(Tail(v.b)) /\ Len(Tail(v.b)) = Len(v.b) - 1
    BY <1>3, <1>7, SqTail
  <2>4. v.eh = "BCAST" => Quietly(Tail(v.a), Tail(v.b))
    <3>1. Len(Tail(v.b)) \in Nat
      BY <2>3, SqDomain
    <3>2. Len(Tail(v.b)) >= Len(v.b) - 1 /\ Len(v.b) \in Nat
      BY <3>1, <1>4, <2>3
    <3>3. v.a # <<>> /\ Sq(v.a)
      BY <1>1, <1>2, Zenon
    <3> QED BY <1>5, <3>1, <3>2, <3>3, QuietlyTail
  <2>5. \/ w.a = Tail(v.a) /\ w.b = Tail(v.b)
        \/ w.a = <<>> \o Tail(v.a) /\ w.b = <<>> \o Tail(v.b)
        \/ w.a = <<s>> \o Tail(v.a) /\ w.b = <<s>> \o Tail(v.b)
    BY <1>1, <1>4, <1>7, <2>2, <2>3, Zenon DEF Handled
  <2>6. CASE w.a = Tail(v.a) /\ w.b = Tail(v.b)
    BY <1>1, <1>2, <1>3, <1>5, <2>1, <2>3, <2>4, <2>6, NoMessageFails, InCallOK
  <2>7. CASE w.a = <<s>> \o Tail(v.a) /\ w.b = <<s>> \o Tail(v.b)
    <3>1. Same(s, s)
      BY DEF Same, FromComp
    <3>2. s.do \notin {"check", "outcome"} /\ s.do \in Local \cup {"status"}
      OBVIOUS
    <3> HIDE DEF s
    <3>3. Covers(w.a, w.b)
      BY <1>2, <2>1, <2>3, <2>7, <3>1, CoversCons
    <3>4. v.eh = "BCAST" => Quietly(w.a, w.b)
      BY <1>2, <2>3, <2>4, <2>7, <3>2, QuietlyCons
    <3>5. Failing(w.a)
      BY <1>2, <2>7, <3>2, FailingCons
    <3>6. Sq(w.a) /\ Sq(w.b)
      BY <1>2, <2>3, <2>7, SqCons
    <3> QED BY <1>1, <1>3, <1>5, <3>3, <3>4, <3>5, <3>6, NoMessageFails, InCallOK
  <2> HIDE DEF s
  <2>8. CASE w.a = <<>> \o Tail(v.a) /\ w.b = <<>> \o Tail(v.b)
    BY <1>2, <2>3, <2>6, <2>8, NilCat
  <2> QED BY <2>5, <2>6, <2>7, <2>8
<1> QED BY <1>6, <1>7

LEMMA EndOK ==
    ASSUME NEW c, NEW v, NEW w, OK(c, v), EndStep(v, w)
    PROVE  OK(c, w)
<1>1. /\ v.a # <<>> /\ v.a[1].do \in {"forget", "reject", "fail"}
      /\ w.ierr = EndCode(v.a[1].do, v.ierr) /\ w.a = Ended(v.a, v.ierr) /\ w.b = Ended(v.b, v.ierr)
      /\ Counts(v, w, "none") /\ InCall(v, w, v.have) /\ w.io = v.io /\ Keeps(v, w)
  BY DEF EndStep, At1
<1>2. v.a[1].do \notin {"message", "arg", "effect"} \cup Extra /\ Gives(v.a[1]) = Status
  BY <1>1, Names DEF Extra
<1>3. Sq(v.a) /\ Sq(v.b) /\ v.b # <<>> /\ v.open = TRUE /\ Same(v.a[1], v.b[1])
  BY <1>1, <1>2, Parallel
<1>4. Head(v.a) = v.a[1] /\ Head(v.b) = v.b[1]
  BY <1>1, <1>3, SqTail
<1>5. v.b[1].do = v.a[1].do
  BY <1>3 DEF Same
<1>6. CASE v.a[1].do = "forget" \/ (v.a[1].do = "reject" /\ v.ierr = "ok")
  <2>1. w.a = Tail(v.a) /\ w.b = Tail(v.b)
    BY <1>1, <1>4, <1>5, <1>6 DEF Ended
  <2>2. w.ierr = "ok"
    BY <1>1, <1>6 DEF EndCode
  <2> QED BY <1>1, <1>2, <2>1, <2>2, BothGo
<1>7. CASE v.a[1].do = "fail"
  <2> DEFINE s == [do |-> "pio_err"]
  <2>1. w.a = <<s>> /\ w.b = <<s>>
    BY <1>1, <1>4, <1>5, <1>7 DEF Ended, PioErr
  <2>2. Same(s, s)
    BY DEF Same, FromComp
  <2>3. s.do \notin {"check", "outcome"} /\ s.do \in Local \cup {"status"}
    BY DEF Local
  <2> HIDE DEF s
  <2>4. Sq(w.a) /\ Sq(w.b) /\ Len(w.a) = 1 /\ Len(w.b) = 1 /\ w.a[1] = s /\ w.b[1] = s
    BY <2>1, SqEmpty
  <2>5. DOMAIN w.a = 1..1 /\ 1 \in Nat
    BY <2>4, SqDomain
  <2>6. Covers(w.a, w.b)
    <3>1. \A i \in 1..Len(w.b) : Same(w.a[i], w.b[i])
      BY <2>2, <2>4
    <3>2. \A i \in 1..1 : i > Len(w.b) => w.a[i].do \in Extra
      BY <2>4
    <3> QED BY <2>4, <2>5, <3>1, <3>2, CoversBy
  <2>7. Failing(w.a) /\ Quietly(w.a, w.b)
    BY <2>3, <2>4, <2>5 DEF Failing, Quietly
  <2> QED BY <1>1, <1>3, <2>4, <2>6, <2>7, NoMessageFails, InCallOK
<1>8. CASE v.a[1].do = "reject" /\ v.ierr # "ok"
  <2>1. w.a = <<>> /\ w.b = <<>>
    BY <1>1, <1>4, <1>5, <1>8 DEF Ended
  <2>2. Sq(w.a) /\ Sq(w.b) /\ Covers(w.a, w.b) /\ DOMAIN w.a = 1..0
    BY <2>1, SqEmpty, NothingCovered, SqDomain
  <2>3. Failing(w.a) /\ Quietly(w.a, w.b)
    BY <2>2 DEF Failing, Quietly
  <2> QED BY <1>1, <1>3, <2>2, <2>3, NoMessageFails, InCallOK
<1> QED BY <1>1, <1>6, <1>7, <1>8

\* The arguments of a message that a begins with and the flags f, got received: on
\* to the next one, or to the call.
LEMMA Arrives ==
    ASSUME NEW a, Sq(a), NEW msg, NEW f, NEW got \in Nat, Understood(a, msg, f, got)
    PROVE  /\ a # <<>>
           /\ \/ /\ a[1].do = "arg"
                 /\ got + 1 <= Len(Handler(msg, f)["recv"]) /\ Handler(msg, f)["recv"][got + 1] = a[1].x
                 /\ Understood(Tail(a), msg, IF a[1].v THEN f \cup {a[1].x[2]} ELSE f, got + 1)
              \/ /\ a[1].do = "share" /\ Len(Handler(msg, f)["recv"]) = got
                 /\ "unknown" \notin Handler(msg, f)["call"].checks
                 /\ Sq(IOSteps(Handler(msg, f)["call"])) /\ IOSteps(Handler(msg, f)["call"]) # <<>>
                 /\ Covers(a, IOSteps(Handler(msg, f)["call"]))
<1> DEFINE E(k) == Handler(msg, f \cup Told(a, k - 1))["recv"]
           H(n) == Handler(msg, f \cup Told(a, n - 1))
<1>1. PICK n \in DOMAIN a :
        /\ a[n].do = "share"
        /\ \A k \in 1..(n - 1) : a[k].do = "arg" /\ got + k <= Len(E(k)) /\ E(k)[got + k] = a[k].x
        /\ Len(H(n)["recv"]) = got + n - 1 /\ "unknown" \notin H(n)["call"].checks
        /\ IOSteps(H(n)["call"]) \in Seq(Range(IOSteps(H(n)["call"])))
        /\ Covers(SubSeq(a, n, Len(a)), IOSteps(H(n)["call"]))
  BY DEF Understood
<1>2. a # <<>> /\ DOMAIN a = 1..Len(a) /\ Len(a) \in Nat /\ n \in 1..Len(a)
  BY SqDomain
<1>3. Told(a, 0) = {}
  BY DEF Told
<1>4. CASE n = 1
  <2> DEFINE b == IOSteps(Handler(msg, f)["call"])
  <2>1. H(1) = Handler(msg, f)
    BY <1>3
  <2>2. /\ a[1].do = "share" /\ Len(Handler(msg, f)["recv"]) = got
        /\ "unknown" \notin Handler(msg, f)["call"].checks /\ b \in Seq(Range(b))
    BY <1>1, <1>4, <2>1
  <2>3. Covers(a, b)
    <3>1. Covers(SubSeq(a, 1, Len(a)), b)
      BY <1>1, <1>4, <2>1
    <3> QED BY <3>1, FromFirst
  <2>4. Sq(b)
    BY <2>2 DEF Sq
  <2>5. b # <<>>
    <3> SUFFICES ASSUME b = <<>> PROVE FALSE
      OBVIOUS
    <3>1. Covers(a, <<>>)
      BY <2>3
    <3>2. a[1].do \in Extra \cup {"message"}
      BY <1>2, <3>1, CoversExtra
    <3> QED BY <2>2, <3>2 DEF Extra
  <2> QED BY <1>2, <2>2, <2>3, <2>4, <2>5
<1>5. CASE n # 1
  <2> DEFINE ff == IF a[1].v THEN f \cup {a[1].x[2]} ELSE f
             x == Tail(a)
             m == n - 1
  <2>1. 1 \in 1..(n - 1) /\ n \in Nat /\ n >= 2 /\ n <= Len(a)
    BY <1>2, <1>5
  <2>2. E(1) = Handler(msg, f)["recv"]
    BY <1>3
  <2>3. a[1].do = "arg" /\ got + 1 <= Len(Handler(msg, f)["recv"]) /\ Handler(msg, f)["recv"][got + 1] = a[1].x
    BY <1>1, <2>1, <2>2
  <2>4. /\ Sq(x) /\ Len(x) = Len(a) - 1
        /\ \A i \in 1..(Len(a) - 1) : x[i] = a[i + 1]
    BY <1>2, SqTail
  <2>5. DOMAIN x = 1..(Len(a) - 1)
    BY <2>4, SqDomain
  <2>6. ASSUME NEW k \in 0..(n - 1) PROVE f \cup Told(a, k) = IF k = 0 THEN f ELSE ff \cup Told(x, k - 1)
    <3>1. CASE k = 0
      BY <3>1, <1>3
    <3>2. CASE k # 0
      <4> DEFINE A == {i \in 1..k : a[i].v}
                 X == {i \in 1..(k - 1) : x[i].v}
      <4>1. \A i \in 1..(k - 1) : i + 1 \in 1..k /\ i \in 1..(Len(a) - 1)
        BY <2>1
      <4>2. ASSUME NEW i \in A PROVE (i = 1 /\ a[1].v) \/ (i - 1 \in X /\ x[i - 1] = a[i])
        <5>1. i \in 1..k /\ a[i].v
          OBVIOUS
        <5>2. CASE i # 1
          <6>1. i - 1 \in 1..(k - 1) /\ i - 1 \in 1..(Len(a) - 1) /\ (i - 1) + 1 = i
            BY <5>1, <5>2, <2>1
          <6>2. x[i - 1] = a[i]
            BY <6>1, <2>4
          <6> QED BY <5>1, <6>1, <6>2
        <5> QED BY <5>1, <5>2
      <4>3. ASSUME NEW i \in X PROVE i + 1 \in A /\ x[i] = a[i + 1]
        <5>1. i \in 1..(k - 1) /\ x[i].v
          OBVIOUS
        <5>2. i + 1 \in 1..k /\ x[i] = a[i + 1]
          BY <5>1, <4>1, <2>4
        <5> QED BY <5>1, <5>2
      <4>4. a[1].v => 1 \in A
        BY <3>2
      <4>5. Told(a, k) = {a[i].x[2] : i \in A} /\ Told(x, k - 1) = {x[i].x[2] : i \in X}
        BY DEF Told
      <4> HIDE DEF A, X, x
      <4>6. Told(a, k) = (IF a[1].v THEN {a[1].x[2]} ELSE {}) \cup Told(x, k - 1)
        <5>1. ASSUME NEW e \in Told(a, k) PROVE e \in (IF a[1].v THEN {a[1].x[2]} ELSE {}) \cup Told(x, k - 1)
          <6>1. PICK i \in A : e = a[i].x[2]
            BY <4>5
          <6> QED BY <6>1, <4>2, <4>5
        <5>2. ASSUME NEW e \in (IF a[1].v THEN {a[1].x[2]} ELSE {}) \cup Told(x, k - 1) PROVE e \in Told(a, k)
          <6>1. CASE a[1].v /\ e = a[1].x[2]
            BY <6>1, <4>4, <4>5
          <6>2. CASE e \in Told(x, k - 1)
            <7>1. PICK i \in X : e = x[i].x[2]
              BY <6>2, <4>5
            <7> QED BY <7>1, <4>3, <4>5
          <6> QED BY <6>1, <6>2
        <5> QED BY <5>1, <5>2
      <4> QED BY <4>6, <3>2
    <3> QED BY <3>1, <3>2
  <2>7. m \in DOMAIN x /\ m \in Nat /\ m + 1 = n
    BY <2>1, <2>5
  <2>8. x[m].do = "share"
    BY <1>1, <2>4, <2>5, <2>7
  <2>9. ASSUME NEW k \in 1..(m - 1)
        PROVE  LET e == Handler(msg, ff \cup Told(x, k - 1))["recv"]
               IN  x[k].do = "arg" /\ (got + 1) + k <= Len(e) /\ e[(got + 1) + k] = x[k].x
    <3>1. k + 1 \in 1..(n - 1) /\ k \in 1..(Len(a) - 1) /\ (got + 1) + k = got + (k + 1) /\ (k + 1) - 1 = k /\ k # 0 /\ k \in 0..(n - 1)
      BY <2>1
    <3>2. a[k + 1].do = "arg" /\ got + (k + 1) <= Len(E(k + 1)) /\ E(k + 1)[got + (k + 1)] = a[k + 1].x
      BY <1>1, <3>1
    <3>3. x[k] = a[k + 1]
      BY <3>1, <2>4
    <3>4. f \cup Told(a, k) = ff \cup Told(x, k - 1)
      BY <3>1, <2>6
    <3>5. E(k + 1) = Handler(msg, ff \cup Told(x, k - 1))["recv"]
      BY <3>1, <3>4
    <3> QED BY <3>1, <3>2, <3>3, <3>5
  <2>10. H(n) = Handler(msg, ff \cup Told(x, m - 1))
    <3>1. n - 1 \in 0..(n - 1) /\ n - 1 # 0 /\ (n - 1) - 1 = m - 1
      BY <2>1
    <3> QED BY <3>1, <2>6
  <2>11. SubSeq(x, m, Len(x)) = SubSeq(a, n, Len(a))
    <3>1. CASE n = 2
      <4>1. SubSeq(x, 1, Len(x)) = x
        BY <2>4, FromFirst
      <4> DEFINE y == SubSeq(a, 1 + 1, Len(a))
      <4>2. /\ Sq(y) /\ Len(y) = Len(a) - 1
            /\ \A i \in 1..(Len(a) - 1) : y[i] = a[1 + i]
        BY <2>1, <1>2, SqDrop
      <4> HIDE DEF y, x
      <4>3. x = y
        BY <4>2, <2>4, SqEq
      <4> QED BY <3>1, <4>1, <4>3 DEF y
    <3>2. CASE n # 2
      <4>1. n - 2 \in 1..(Len(a) - 1) /\ (n - 2) + 1 = m /\ (n - 2) + 2 = n
        BY <2>1, <3>2
      <4>2. SubSeq(Tail(a), (n - 2) + 1, Len(Tail(a))) = SubSeq(a, (n - 2) + 2, Len(a))
        BY <4>1, <1>2, TailFrom
      <4> QED BY <4>1, <4>2
    <3> QED BY <3>1, <3>2
  <2>12. /\ Len(H(n)["recv"]) = (got + 1) + m - 1 /\ "unknown" \notin H(n)["call"].checks
         /\ IOSteps(H(n)["call"]) \in Seq(Range(IOSteps(H(n)["call"])))
         /\ Covers(SubSeq(x, m, Len(x)), IOSteps(H(n)["call"]))
    <3>1. got + n - 1 = (got + 1) + m - 1
      BY <2>1
    <3> HIDE DEF m, x, H
    <3> QED BY <1>1, <2>11, <3>1
  <2>13. Understood(x, msg, ff, got + 1)
    <3> HIDE DEF x, m, ff, E, H
    <3> QED BY <2>7, <2>8, <2>9, <2>10, <2>12 DEF Understood
  <2> QED BY <1>2, <2>3, <2>13
<1> QED BY <1>4, <1>5

LEMMA TextyCalm ==
    ASSUME NEW a, NEW have, Texty(a, have)
    PROVE  \A i \in DOMAIN a : a[i].do # "check"
BY DEF Texty, Fits, Local

LEMMA IOIsArgs ==
    ASSUME NEW x, NEW val, NEW args, IsArgs(args)
    PROVE  /\ IsArgs(Heard(x, val, args))
           /\ Heard(x, val, args).file = (IF x = INT("ncid") THEN val ELSE args.file)
           /\ Heard(x, val, args).decomp = (IF x = INT("ioid") THEN val ELSE args.decomp)
           /\ Heard(x, val, args).method = (IF x = INT("method") THEN val ELSE args.method)
<1>1. args = [file |-> args.file, decomp |-> args.decomp, method |-> args.method]
  BY DEF IsArgs
<1> DEFINE F == args.file
           D == args.decomp
           M == args.method
<1>2. args = [file |-> F, decomp |-> D, method |-> M]
  BY <1>1
<1> HIDE DEF F, D, M
<1>3. CASE x = INT("ncid")
  <2>1. Heard(x, val, args) = [file |-> val, decomp |-> D, method |-> M]
    BY <1>2, <1>3, Names DEF Heard
  <2> QED BY <1>2, <1>3, <2>1, Names DEF IsArgs
<1>4. CASE x = INT("ioid")
  <2>1. Heard(x, val, args) = [file |-> F, decomp |-> val, method |-> M]
    BY <1>2, <1>4, Names DEF Heard
  <2> QED BY <1>2, <1>4, <2>1, Names DEF IsArgs
<1>5. CASE x = INT("method")
  <2>1. Heard(x, val, args) = [file |-> F, decomp |-> D, method |-> val]
    BY <1>2, <1>5, Names DEF Heard
  <2> QED BY <1>2, <1>5, <2>1, Names DEF IsArgs
<1>6. CASE x \notin {INT("ncid"), INT("ioid"), INT("method")}
  <2>1. Heard(x, val, args) = args
    BY <1>6 DEF Heard
  <2> QED BY <1>2, <1>6, <2>1 DEF IsArgs
<1> QED BY <1>3, <1>4, <1>5, <1>6

\* On the way to the I/O tasks nothing else changes.
LEMMA ToldOK ==
    ASSUME NEW c, NEW v, NEW w, NEW kd, OK(c, v), v.a # <<>>, v.a[1].do \in {"message", "arg"},
           Counts(v, w, kd), w.a = Tail(v.a), w.got \in Nat, Enters(w),
           Understood(w.a, w.msg, w.f, w.got), kd = "msg" => w.f = {} /\ w.got = 0 /\ w.io = NoArgs,
           Texty(w.a, w.have), w.ierr = "ok", Keeps(v, w), IsArgs(w.io), Knows(w)
    PROVE  OK(c, w)
<1>1. Sq(v.a) /\ Sq(v.b) /\ v.open = TRUE
  BY Place
<1>2. Sq(w.a)
  BY <1>1, SqTail
<1>3. /\ w.a # <<>>
      /\ \/ w.a[1].do = "arg"
         \/ /\ w.a[1].do = "share" /\ Len(Handler(w.msg, w.f)["recv"]) = w.got
            /\ "unknown" \notin Handler(w.msg, w.f)["call"].checks
            /\ Sq(IOSteps(Handler(w.msg, w.f)["call"])) /\ IOSteps(Handler(w.msg, w.f)["call"]) # <<>>
            /\ Covers(w.a, IOSteps(Handler(w.msg, w.f)["call"]))
  BY <1>2, Arrives
<1>4. \/ w.a[1].do = "arg" /\ w.ph = "args" /\ w.b = <<>>
      \/ w.a[1].do = "share" /\ w.ph = "start" /\ w.b = IOSteps(Handler(w.msg, w.f)["call"])
  BY <1>3 DEF Enters
<1>5. Sq(w.b)
  BY <1>3, <1>4, SqEmpty
<1>6. Shape(w)
  <2>1. IsArgs(w.cur) /\ w.open = TRUE
    BY <1>1 DEF OK, Shape, Keeps
  <2>2. \A x \in Kinds : w.n[x] \in Nat
    BY CountsNat DEF OK, Shape
  <2> QED BY <1>2, <1>4, <1>5, <2>1, <2>2 DEF Shape
<1>7. Phase(w)
  <2>1. w.kind = kd /\ w.ph # "in"
    BY <1>4 DEF Counts
  <2> QED BY <1>3, <1>4, <2>1 DEF Phase
<1>8. Calm(w)
  <2> SUFFICES ASSUME w.eh = "BCAST" PROVE Quietly(w.a, w.b)
    BY CalmIs
  <2>1. Quietly(v.a, v.b)
    BY CalmIs DEF OK, Keeps
  <2>2. \A i \in DOMAIN w.a : w.a[i].do # "check"
    BY TextyCalm
  <2>3. \A i \in DOMAIN w.a : w.a[i].do = "outcome" => Mild(w.a[i])
    <3>1. /\ Len(w.a) = Len(v.a) - 1 /\ Len(v.a) \in Nat
          /\ \A i \in 1..(Len(v.a) - 1) : w.a[i] = v.a[i + 1]
      BY <1>1, SqTail
    <3>2. DOMAIN w.a = 1..(Len(v.a) - 1) /\ DOMAIN v.a = 1..Len(v.a)
      BY <3>1, <1>1, <1>2, SqDomain
    <3>3. ASSUME NEW i \in 1..(Len(v.a) - 1), w.a[i].do = "outcome" PROVE Mild(w.a[i])
      <4>1. i + 1 \in 1..Len(v.a) /\ w.a[i] = v.a[i + 1]
        BY <3>1
      <4> QED BY <4>1, <3>2, <3>3, <2>1 DEF Quietly
    <3> QED BY <3>2, <3>3
  <2> QED BY <2>2, <2>3 DEF Quietly
<1>9. Text(w) /\ NoError(w)
  BY DEF Text, NoError
<1>10. Listed(c, w)
  BY DEF OK, Listed, Keeps
<1> QED BY <1>6, <1>7, <1>8, <1>9, <1>10 DEF OK

\* Where a message or an argument comes no call has failed.
LEMMA ToldText ==
    ASSUME NEW c, NEW v, OK(c, v), v.a # <<>>, v.a[1].do \in {"message", "arg"}
    PROVE  Texty(v.a, v.have) /\ Sq(v.a) /\ 1 \in DOMAIN v.a /\ v.ierr = "ok"
<1>1. Sq(v.a)
  BY DEF OK, Shape
<1>2. 1 \in DOMAIN v.a
  BY <1>1, SqDomain
<1>3. ~Failing(v.a)
  BY <1>2 DEF Failing, Local
<1>4. v.ierr = "ok"
  <2>1. v.a[1].do = "arg" => v.ph = "args"
    BY Place
  <2>2. v.a[1].do = "message" => HasMessage(v.a)
    BY <1>2 DEF HasMessage
  <2> QED BY <2>1, <2>2 DEF OK, NoError
<1> QED BY <1>1, <1>2, <1>3, <1>4 DEF OK, Text

LEMMA TailIs ==
    ASSUME NEW a, Sq(a), a # <<>>
    PROVE  SubSeq(a, 1 + 1, Len(a)) = Tail(a)
<1> DEFINE x == Tail(a)
           y == SubSeq(a, 1 + 1, Len(a))
<1>1. /\ Sq(x) /\ Len(x) = Len(a) - 1 /\ Len(a) \in Nat /\ Len(a) > 0
      /\ \A i \in 1..(Len(a) - 1) : x[i] = a[i + 1]
  BY SqTail
<1>2. 1 \in 0..Len(a)
  BY <1>1
<1>3. /\ Sq(y) /\ Len(y) = Len(a) - 1
      /\ \A i \in 1..(Len(a) - 1) : y[i] = a[1 + i]
  BY <1>2, SqDrop
<1> HIDE DEF x, y
<1>4. x = y
  BY <1>1, <1>3, SqEq
<1> QED BY <1>4 DEF x, y

LEMMA MsgOK ==
    ASSUME NEW c, NEW v, NEW w, OK(c, v), MsgStep(v, w)
    PROVE  OK(c, w)
<1>1. /\ v.a # <<>> /\ v.a[1].do = "message"
      /\ w.a = Tail(v.a) /\ Counts(v, w, "msg")
      /\ w.msg = v.a[1].x /\ w.f = {} /\ w.got = 0 /\ w.io = NoArgs /\ w.have = {} /\ Enters(w)
      /\ w.ierr = v.ierr /\ Keeps(v, w)
  BY DEF MsgStep, At1
<1>2. Texty(v.a, v.have) /\ Sq(v.a) /\ 1 \in DOMAIN v.a /\ v.ierr = "ok"
  BY <1>1, ToldText
<1>3. Understood(w.a, w.msg, w.f, w.got)
  <2>1. Understood(SubSeq(v.a, 1 + 1, Len(v.a)), v.a[1].x, {}, 0)
    BY <1>1, <1>2 DEF Texty, Fits
  <2>2. SubSeq(v.a, 1 + 1, Len(v.a)) = w.a
    BY <1>1, <1>2, TailIs
  <2> QED BY <1>1, <2>1, <2>2
<1>4. Texty(w.a, w.have)
  <2>1. Gives(v.a[1]) = Status
    BY <1>1, Names
  <2> QED BY <1>1, <1>2, <2>1, TextyTail
<1>5. IsArgs(w.io) /\ w.io.file = 0 /\ w.io.decomp = 0
  BY <1>1 DEF IsArgs, NoArgs
<1>6. Knows(w)
  <2>1. w.cur = v.cur /\ w.tbl = v.tbl /\ w.all = v.all /\ w.have = {}
    BY <1>1 DEF Keeps
  <2>2. HasMessage(v.a)
    BY <1>1, <1>2 DEF HasMessage
  <2>3. Knows(v)
    BY DEF OK
  <2> QED BY <1>5, <2>1, <2>2, <2>3 DEF Knows
<1>7. w.got \in Nat /\ w.ierr = "ok"
  BY <1>1, <1>2
<1>8. v.a # <<>> /\ v.a[1].do \in {"message", "arg"} /\ Counts(v, w, "msg") /\ w.a = Tail(v.a) /\ Enters(w) /\ Keeps(v, w)
  BY <1>1
<1>9. "msg" = "msg" => w.f = {} /\ w.got = 0 /\ w.io = NoArgs
  BY <1>1
<1> QED BY <1>3, <1>4, <1>5, <1>6, <1>7, <1>8, <1>9, ToldOK

LEMMA ArgOK ==
    ASSUME NEW c, NEW v, NEW w, OK(c, v), ArgStep(v, w)
    PROVE  OK(c, w)
<1> DEFINE x == v.a[1].x
<1>1. /\ v.a # <<>> /\ v.a[1].do = "arg"
      /\ w.a = Tail(v.a) /\ Counts(v, w, "arg")
      /\ w.msg = v.msg /\ w.f = (IF v.a[1].v THEN v.f \cup {v.a[1].x[2]} ELSE v.f) /\ w.got = v.got + 1
      /\ w.io = Heard(x, ArgValue(x, v.cur), v.io)
      /\ w.have = v.have \cup {Gives(v.a[1])} /\ Enters(w)
      /\ w.ierr = v.ierr /\ Keeps(v, w)
  BY DEF ArgStep, At1
<1>2. Texty(v.a, v.have) /\ Sq(v.a) /\ 1 \in DOMAIN v.a /\ v.ierr = "ok" /\ v.ph = "args"
  BY <1>1, ToldText, Place
<1>3. Understood(v.a, v.msg, v.f, v.got)
  BY <1>2 DEF OK, Phase
<1>4. Texty(w.a, w.have)
  BY <1>1, <1>2, TextyTail
<1>5. IsArgs(v.io) /\ IsArgs(v.cur)
  BY DEF OK, Shape
<1>6. /\ IsArgs(w.io)
      /\ w.io.file = (IF x = INT("ncid") THEN v.cur.file ELSE v.io.file)
      /\ w.io.decomp = (IF x = INT("ioid") THEN v.cur.decomp ELSE v.io.decomp)
      /\ w.io.method = (IF x = INT("method") THEN v.cur.method ELSE v.io.method)
  <2> HIDE DEF x
  <2>1. ArgValue(x, v.cur) = CASE x = INT("ncid") -> v.cur.file
                               [] x = INT("ioid") -> v.cur.decomp
                               [] x = INT("method") -> v.cur.method
                               [] OTHER -> 0
    BY DEF ArgValue
  <2>2. /\ x = INT("ncid") => ArgValue(x, v.cur) = v.cur.file
        /\ x = INT("ioid") => ArgValue(x, v.cur) = v.cur.decomp
        /\ x = INT("method") => ArgValue(x, v.cur) = v.cur.method
    BY <2>1, Names
  <2> QED BY <1>1, <1>5, <2>2, IOIsArgs
<1>7. Gives(v.a[1]) \in {x, Status} \ NextIds
  <2>1. Gives(v.a[1]) \in {x, Status}
    BY <1>1 DEF Gives
  <2>2. Gives(v.a[1]) \notin NextIds
    BY <1>1, Names
  <2> QED BY <2>1, <2>2
<1>8. Knows(w)
  <2>1. w.cur = v.cur /\ w.tbl = v.tbl /\ w.all = v.all
    BY <1>1 DEF Keeps
  <2>2. Knows(v)
    BY DEF OK
  <2>3. /\ v.cur.file \in {0} \cup IdsIn(v.all, "file") /\ v.cur.decomp \in {0} \cup IdsIn(v.all, "decomp")
        /\ v.cur.file \in {0} \cup IdsIn(v.tbl, "file")
        /\ v.cur.decomp \in {0} \cup IdsIn(v.tbl, "decomp")
        /\ v.io.file \in {0, v.cur.file} /\ v.io.decomp \in {0, v.cur.decomp}
        /\ v.have \cap NextIds = {}
    BY <1>2, <2>2 DEF Knows
  <2>4. w.io.file \in {0, w.cur.file} /\ w.io.decomp \in {0, w.cur.decomp}
    BY <1>6, <2>1, <2>3
  <2>5. /\ INT("ncid") \in w.have => w.io.file = w.cur.file
        /\ INT("ioid") \in w.have => w.io.decomp = w.cur.decomp
        /\ INT("method") \in w.have => w.io.method = w.cur.method
    <3> HIDE DEF x
    <3>1. /\ INT("ncid") \in v.have => v.io.file = v.cur.file
          /\ INT("ioid") \in v.have => v.io.decomp = v.cur.decomp
          /\ INT("method") \in v.have => v.io.method = v.cur.method
      BY <2>2 DEF Knows
    <3>2. /\ INT("ncid") \in w.have => INT("ncid") \in v.have \/ x = INT("ncid")
          /\ INT("ioid") \in w.have => INT("ioid") \in v.have \/ x = INT("ioid")
          /\ INT("method") \in w.have => INT("method") \in v.have \/ x = INT("method")
      BY <1>1, <1>7, Names
    <3> QED BY <1>6, <2>1, <3>1, <3>2
  <2>6. w.have \cap NextIds = {}
    BY <1>1, <1>7, <2>3
  <2>7. w.ph # "in"
    BY <1>1 DEF Enters
  <2>8. ~Idle(w)
    BY <2>7 DEF Idle
  <2> QED BY <2>1, <2>3, <2>4, <2>5, <2>6, <2>7, <2>8 DEF Knows
<1>9. w.got \in Nat
  BY <1>1, <1>2 DEF OK, Phase
<1>10. w.ierr = "ok" /\ IsArgs(w.io)
  BY <1>1, <1>2, <1>6
<1>11. Understood(w.a, w.msg, w.f, w.got)
  <2>1. v.got \in Nat
    BY <1>2 DEF OK, Phase
  <2>2. Understood(Tail(v.a), v.msg, IF v.a[1].v THEN v.f \cup {v.a[1].x[2]} ELSE v.f, v.got + 1)
    BY <1>1, <1>2, <1>3, <2>1, Arrives
  <2> QED BY <1>1, <2>2
<1>12. v.a # <<>> /\ v.a[1].do \in {"message", "arg"} /\ Counts(v, w, "arg") /\ w.a = Tail(v.a) /\ Enters(w) /\ Keeps(v, w)
  BY <1>1
<1> QED BY <1>4, <1>8, <1>9, <1>10, <1>11, <1>12, ToldOK

\* All calls made are understood: what a call is made of.
LEMMA CallIs ==
    ASSUME NEW call, Agrees(call)
    PROVE  LET a == CompSteps(call) IN
           /\ Sq(a) /\ a # <<>> /\ a[1].do = "message" /\ Texty(a, {})
           /\ ~Inner(call) => \A i \in DOMAIN a : a[i].do = "outcome" => Mild(a[i])
<1> DEFINE a == CompSteps(call)
<1>1. /\ a \in Seq(Range(a)) /\ a # <<>> /\ a[1].do = "message"
      /\ \A i \in DOMAIN a :
               /\ a[i].do \notin Local \cup {"status"}
               /\ a[i].do = "message" => Understood(SubSeq(a, i + 1, Len(a)), a[i].x, {}, 0)
               /\ a[i].do = "verdict" => \A j \in i..Len(a) : a[j].do # "message"
               /\ a[i].do = "next_id" => a[i].x \in {"file", "decomp"}
               /\ a[i].do = "effect" =>
                      /\ i = Len(a) \/ (a[i + 1].do = "message" /\ a[i].x \in {"file", "decomp"})
                      /\ a[i].x # "exit" => Supplied(a, i)
               /\ a[i].do = "outcome" =>
                      /\ a[i].fail \in Seq(Range(a[i].fail))
                      /\ a[i].on => i = Len(a)
                      /\ \A j \in DOMAIN a[i].fail : a[i].fail[j].do \in Local
                      /\ \A j, k \in DOMAIN a[i].fail :
                             ~Inner(call) /\ a[i].fail[j].do = "check" /\ a[i].fail[k].do = "check" => j = k
  BY DEF Agrees
<1> HIDE DEF a
<1>2. Sq(a)
  BY <1>1 DEF Sq
<1>3. ASSUME NEW i \in DOMAIN a PROVE Fits(a, i, {})
  <2>1. FitsEffect(a, i, {})
    BY <1>1, <1>3 DEF FitsEffect, SuppliedIn
  <2>2. FitsOutcome(a, i)
    <3> SUFFICES ASSUME a[i].do = "outcome"
                 PROVE  /\ Sq(a[i].fail) /\ (a[i].on => i = Len(a))
                        /\ \A j \in DOMAIN a[i].fail : a[i].fail[j].do \in Local
      BY DEF FitsOutcome
    <3>1. a[i].fail \in Seq(Range(a[i].fail))
      BY <1>1, <1>3
    <3>2. Sq(a[i].fail)
      BY <3>1 DEF Sq
    <3> QED BY <1>1, <1>3, <3>2
  <2> QED BY <1>1, <1>3, <2>1, <2>2 DEF Fits
<1>4. ASSUME ~Inner(call), NEW i \in DOMAIN a, a[i].do = "outcome" PROVE Mild(a[i])
  BY <1>1, <1>4 DEF Mild
<1>5. Texty(a, {})
  BY <1>3 DEF Texty
<1> QED BY <1>1, <1>2, <1>4, <1>5 DEF a

LEMMA BeginOK ==
    ASSUME CallsAgree, NEW c, NEW v, NEW w, OK(c, v), BeginStep(v, w)
    PROVE  OK(c, w) /\ Idle(v)
<1>1. /\ v.a = <<>> /\ v.open
      /\ Counts(v, w, "begin") /\ w.ierr = "ok"
      /\ w.b = v.b /\ w.ph = v.ph /\ w.have = v.have /\ w.io = v.io /\ w.nid = v.nid
      /\ w.tbl = v.tbl /\ w.all = v.all /\ w.made = v.made /\ w.open = v.open /\ w.eh = v.eh
  BY DEF BeginStep
<1>2. PICK call \in Calls :
        /\ w.item = <<call, w.cur>> /\ w.a = CompSteps(call) /\ IsArgs(w.cur)
        /\ v.eh = "BCAST" => ~Inner(call)
        /\ w.cur.file \in {0} \cup IdsIn(v.tbl, "file") /\ w.cur.decomp \in {0} \cup IdsIn(v.tbl, "decomp")
  BY DEF BeginStep
<1>3. Agrees(call)
  BY DEF CallsAgree
<1>4. /\ Sq(w.a) /\ w.a # <<>> /\ w.a[1].do = "message" /\ Texty(w.a, {})
      /\ ~Inner(call) => \A i \in DOMAIN w.a : w.a[i].do = "outcome" => Mild(w.a[i])
  BY <1>2, <1>3, CallIs
<1>5. v.ph \in {"args", "start", "in"} /\ v.open \in BOOLEAN /\ Sq(v.b) /\ IsArgs(v.io)
  BY DEF OK, Shape
<1>6. v.ph = "in" /\ v.b = <<>>
  <2>1. v.ph = "in"
    BY <1>1, <1>5 DEF OK, Phase
  <2>2. Covers(<<>>, v.b)
    BY <1>1, <2>1 DEF OK, Phase
  <2> QED BY <1>5, <2>1, <2>2, CoversEmpty
<1>7. Shape(w)
  <2>1. \A x \in Kinds : w.n[x] \in Nat
    BY <1>1, CountsNat DEF OK, Shape
  <2> QED BY <1>1, <1>2, <1>4, <1>5, <2>1 DEF Shape
<1>8. Phase(w)
  <2>1. Len(<<>>) = 0 /\ Sq(<<>>) /\ 0 \in Nat
    BY SqEmpty
  <2>2. w.b = <<>> /\ w.ph = "in" /\ w.kind = "begin"
    BY <1>1, <1>6 DEF Counts
  <2>3. Covers(w.a, <<>>)
    <3>1. Len(w.a) \in Nat /\ Len(w.a) > 0
      BY <1>4, SqDomain
    <3>2. w.a[0 + 1].do = "message"
      BY <1>4
    <3> QED BY <1>4, <2>1, <3>1, <3>2, CoversBy
  <2> QED BY <2>2, <2>3 DEF Phase
<1>9. w.have = {}
  BY <1>1, <1>6 DEF OK, Knows, Idle
<1>10. Text(w)
  BY <1>4, <1>9 DEF Text
<1>11. Calm(w)
  <2>1. \A i \in DOMAIN w.a : w.a[i].do # "check"
    BY <1>4, TextyCalm
  <2> QED BY <1>1, <1>2, <1>4, <2>1 DEF Calm
<1>12. NoError(w)
  BY <1>1 DEF NoError
<1>13. Listed(c, w)
  BY <1>1 DEF OK, Listed
<1>14. Knows(w)
  <2>1. w.cur.file \in {0} \cup IdsIn(w.all, "file") /\ w.cur.decomp \in {0} \cup IdsIn(w.all, "decomp")
    BY <1>1, <1>2 DEF IdsIn, OK, Listed
  <2> QED BY <1>1, <1>2, <1>6, <1>9, <2>1 DEF Knows
<1> QED BY <1>6, <1>7, <1>8, <1>10, <1>11, <1>12, <1>13, <1>14 DEF OK, Idle

LEMMA SqNil == \A s : Sq(s) /\ Len(s) = 0 => s = <<>>
<1> SUFFICES ASSUME NEW s, Sq(s), Len(s) = 0 PROVE s = <<>>
  OBVIOUS
<1> QED BY SqDomain

LEMMA EffectPlace ==
    ASSUME NEW c, NEW v, OK(c, v), v.a # <<>>, v.a[1].do = "effect"
    PROVE  /\ Sq(v.a) /\ Sq(Tail(v.a)) /\ v.b # <<>> /\ Tail(v.b) = <<>> /\ Covers(Tail(v.a), <<>>) /\ v.ph = "in"
           /\ v.open = TRUE /\ Len(v.b) = 1 /\ Texty(v.a, v.have)
           /\ v.b[1].do = "effect" /\ v.b[1].x = v.a[1].x
           /\ Tail(v.a) = <<>> \/ (v.a[1].x \in {"file", "decomp"} /\ Tail(v.a)[1].do = "message")
           /\ v.a[1].x # "exit" => Needs(v.a[1].x) \in v.have
<1>1. /\ Sq(v.a) /\ Sq(v.b) /\ v.b # <<>> /\ v.open = TRUE
      /\ Same(v.a[1], v.b[1]) /\ Covers(v.a, v.b) /\ Covers(Tail(v.a), Tail(v.b))
      /\ Sq(Tail(v.a)) /\ Sq(Tail(v.b)) /\ Len(Tail(v.a)) = Len(v.a) - 1 /\ Len(Tail(v.b)) = Len(v.b) - 1
      /\ Len(v.b) <= Len(v.a) /\ Len(v.b) > 0 /\ Len(v.a) \in Nat /\ Len(v.b) \in Nat
  BY Parallel DEF Extra
<1>2. v.ph = "in"
  BY Place
<1>3. 1 \in DOMAIN v.a
  BY <1>1, SqDomain
<1>4. Texty(v.a, v.have)
  <2>1. ~Failing(v.a)
    BY <1>3 DEF Failing, Local
  <2> QED BY <2>1 DEF OK, Text
<1>5. /\ 1 = Len(v.a) \/ (v.a[1 + 1].do = "message" /\ v.a[1].x \in {"file", "decomp"})
      /\ v.a[1].x # "exit" => SuppliedIn(v.a, 1, v.have)
  BY <1>3, <1>4 DEF Texty, Fits, FitsEffect
<1>6. Len(v.b) = 1
  <2> SUFFICES ASSUME Len(v.b) # 1 PROVE FALSE
    OBVIOUS
  <2>0. Len(v.b) \in Nat /\ Len(v.b) > 0
    BY <1>1
  <2>1. Len(v.b) >= 2
    <3>1. \A n \in Nat : n > 0 /\ n # 1 => n >= 2
      OBVIOUS
    <3> QED BY <2>0, <3>1, Zenon
  <2>2. v.a[2].do = "message"
    BY <1>1, <1>5, <2>1
  <2>3. 2 \in 1..Len(v.b)
    BY <1>1, <2>1
  <2>4. \A i \in 1..Len(v.b) : Same(v.a[i], v.b[i])
    BY <1>1, CoversTail
  <2>5. Same(v.a[2], v.b[2])
    BY <2>3, <2>4
  <2> QED BY <2>2, <2>5 DEF Same
<1>7. Tail(v.b) = <<>>
  <2>1. Len(Tail(v.b)) = 0 /\ Sq(Tail(v.b))
    BY <1>1, <1>6
  <2> QED BY <2>1, SqNil
<1>8. Tail(v.a) = <<>> \/ (v.a[1].x \in {"file", "decomp"} /\ Tail(v.a)[1].do = "message")
  <2>1. CASE Len(v.a) = 1
    <3>1. Len(Tail(v.a)) = 0 /\ Sq(Tail(v.a))
      BY <1>1, <2>1
    <3> QED BY <3>1, SqNil
  <2>2. CASE Len(v.a) # 1
    <3>1. \A i \in 1..(Len(v.a) - 1) : Tail(v.a)[i] = v.a[i + 1]
      BY <1>1, <1>3, SqTail, SqDomain
    <3>0. Len(v.a) \in Nat /\ Len(v.a) > 0
      BY <1>1
    <3>2. 1 \in 1..(Len(v.a) - 1)
      <4>1. \A n \in Nat : n > 0 /\ n # 1 => 1 \in 1..(n - 1)
        OBVIOUS
      <4> QED BY <2>2, <3>0, <4>1, Zenon
    <3>3. Tail(v.a)[1] = v.a[1 + 1]
      BY <3>1, <3>2
    <3> QED BY <1>5, <2>2, <3>3
  <2> QED BY <2>1, <2>2
<1>9. v.a[1].x # "exit" => Needs(v.a[1].x) \in v.have
  <2>1. ~Supplied(v.a, 1)
    BY DEF Supplied
  <2> QED BY <1>5, <2>1 DEF SuppliedIn
<1>10. v.b[1].do = "effect" /\ v.b[1].x = v.a[1].x
  BY <1>1 DEF Same
<1> QED BY <1>1, <1>2, <1>4, <1>6, <1>7, <1>8, <1>9, <1>10

LEMMA EffectOK ==
    ASSUME NEW c, NEW v, NEW w, OK(c, v), EffectStep(c, v, w)
    PROVE  OK(c, w)
<1> DEFINE e == v.a[1].x
<1>1. /\ v.a # <<>> /\ v.a[1].do = "effect"
      /\ w.a = Tail(v.a) /\ w.b = Tail(v.b) /\ w.ierr = v.ierr
      /\ e \in {"file", "decomp"} => Made(c, v, w, e)
      /\ e = "close" => Dropped(v, w, "file")
      /\ e = "freedecomp" => Dropped(v, w, "decomp")
      /\ e \notin {"file", "decomp", "close", "freedecomp"} =>
               w.tbl = v.tbl /\ w.all = v.all /\ w.made = v.made /\ w.cur = v.cur /\ w.io = v.io
      /\ w.eh = (IF e = "error_handler" THEN v.cur.method ELSE v.eh)
      /\ w.open = (IF e = "exit" THEN FALSE ELSE v.open)
      /\ Counts(v, w, "none") /\ InCall(v, w, {})
  BY DEF EffectStep, At1
<1>2. /\ Sq(v.a) /\ Sq(w.a) /\ w.b = <<>> /\ Covers(w.a, <<>>) /\ v.open = TRUE /\ Len(v.b) = 1
      /\ Texty(v.a, v.have)
      /\ w.a = <<>> \/ (e \in {"file", "decomp"} /\ w.a[1].do = "message")
  <2>1. w.a = Tail(v.a) /\ w.b = Tail(v.b)
    BY <1>1
  <2>2. /\ Sq(v.a) /\ Sq(Tail(v.a)) /\ Tail(v.b) = <<>> /\ Covers(Tail(v.a), <<>>)
        /\ v.open = TRUE /\ Len(v.b) = 1 /\ Texty(v.a, v.have)
        /\ Tail(v.a) = <<>> \/ (v.a[1].x \in {"file", "decomp"} /\ Tail(v.a)[1].do = "message")
    <3>1. v.a # <<>> /\ v.a[1].do = "effect"
      BY <1>1
    <3> HIDE <1>1
    <3> QED BY <3>1, EffectPlace
  <2> QED BY <2>1, <2>2, Zenon
<1>3. w.ph = "in" /\ w.have = {} /\ w.kind = "none"
  BY <1>1 DEF InCall, Counts
<1>4. IsArgs(v.cur) /\ IsArgs(v.io)
  BY DEF OK, Shape
<1>5. /\ IsArgs(w.cur) /\ IsArgs(w.io)
      /\ w.cur.file = v.cur.file \/ (e = "file" /\ w.cur.file = v.nid["file"])
      /\ w.cur.decomp = v.cur.decomp \/ (e = "decomp" /\ w.cur.decomp = v.nid["decomp"])
  <2> HIDE DEF e
  <2>1. CASE e = "file"
    <3>1. w.cur = [v.cur EXCEPT ![e] = v.nid[e]] /\ w.io = [v.io EXCEPT ![e] = v.nid[e]]
      BY <1>1, <2>1 DEF Made
    <3>2. w.cur = [file |-> v.nid[e], decomp |-> v.cur.decomp, method |-> v.cur.method]
      BY <1>4, <2>1, <3>1 DEF IsArgs
    <3>3. w.io = [file |-> v.nid[e], decomp |-> v.io.decomp, method |-> v.io.method]
      BY <1>4, <2>1, <3>1 DEF IsArgs
    <3> QED BY <2>1, <3>2, <3>3 DEF IsArgs
  <2>2. CASE e = "decomp"
    <3>1. w.cur = [v.cur EXCEPT ![e] = v.nid[e]] /\ w.io = [v.io EXCEPT ![e] = v.nid[e]]
      BY <1>1, <2>2 DEF Made
    <3>2. w.cur = [file |-> v.cur.file, decomp |-> v.nid[e], method |-> v.cur.method]
      BY <1>4, <2>2, <3>1 DEF IsArgs
    <3>3. w.io = [file |-> v.io.file, decomp |-> v.nid[e], method |-> v.io.method]
      BY <1>4, <2>2, <3>1 DEF IsArgs
    <3> QED BY <2>2, <3>2, <3>3 DEF IsArgs
  <2>3. CASE e \notin {"file", "decomp"}
    BY <1>1, <1>4, <2>3 DEF Dropped
  <2> QED BY <2>1, <2>2, <2>3
<1>6. /\ \A x \in v.all : x \in w.all
      /\ \A x \in w.all : x \in v.all \/ (e \in {"file", "decomp"} /\ x = Entry(c, v, e))
      /\ \A x \in w.tbl : x \in v.tbl \/ (e \in {"file", "decomp"} /\ x = Entry(c, v, e) /\ x \in w.all)
      /\ e \in {"file", "decomp"} => (\A x \in v.tbl : x \in w.tbl) /\ Entry(c, v, e) \in w.all
  <2> HIDE DEF e
  <2>1. CASE e \in {"file", "decomp"}
    BY <1>1, <2>1 DEF Made
  <2>2. CASE e \notin {"file", "decomp"}
    BY <1>1, <2>2 DEF Dropped
  <2> QED BY <2>1, <2>2
<1>7. Shape(w)
  <2>1. \A x \in Kinds : w.n[x] \in Nat
    BY <1>1, CountsNat DEF OK, Shape
  <2>2. w.open \in BOOLEAN
    BY <1>1, <1>2
  <2>3. w.open = FALSE => w.a = <<>>
    BY <1>1, <1>2
  <2> QED BY <1>2, <1>3, <1>5, <2>1, <2>2, <2>3, SqEmpty DEF Shape
<1>8. Phase(w)
  BY <1>2, <1>3 DEF Phase
<1>9. Text(w)
  <2>1. Gives(v.a[1]) = Status
    BY <1>1, Names
  <2>2. Texty(w.a, {})
    BY <1>1, <1>2, <2>1, TextyTail
  <2> QED BY <1>3, <2>2 DEF Text
<1>10. Calm(w)
  <2> SUFFICES ASSUME w.eh = "BCAST" PROVE Quietly(w.a, w.b)
    BY CalmIs
  <2>1. CASE w.a = <<>>
    <3>1. DOMAIN w.a = 1..0
      BY <2>1, SqEmpty, SqDomain
    <3> QED BY <3>1 DEF Quietly
  <2>2. CASE w.a # <<>>
    <3>1. v.eh = "BCAST"
      BY <1>1, <1>2, <2>2
    <3>2. Quietly(v.a, v.b)
      BY <3>1, CalmIs DEF OK
    <3>3. Len(w.b) = 0
      BY <1>2, SqEmpty
    <3>4. Len(v.b) \in Nat /\ Len(w.b) \in Nat /\ Len(w.b) >= Len(v.b) - 1
      BY <1>2, <3>3
    <3>5. Sq(v.a) /\ v.a # <<>> /\ w.a = Tail(v.a)
      BY <1>1, <1>2, Zenon
    <3>6. Quietly(Tail(v.a), w.b)
      BY <3>2, <3>4, <3>5, QuietlyTail
    <3> QED BY <3>5, <3>6, Zenon
  <2> QED BY <2>1, <2>2
<1>11. NoError(w)
  <2>1. HasMessage(w.a) => HasMessage(v.a)
    BY <1>1, <1>2, MessageTail
  <2> QED BY <1>1, <1>3, <2>1 DEF OK, NoError
<1>12. Listed(c, w)
  <2>1. e \in {"file", "decomp"} => Entry(c, v, e).c = c /\ Entry(c, v, e).kind = e
    BY DEF Entry
  <2>2. Listed(c, v)
    BY DEF OK
  <2> HIDE DEF e
  <2> QED BY <1>6, <2>1, <2>2 DEF Listed
<1>13. Knows(w)
  <2>1. Knows(v)
    BY DEF OK
  <2>2. /\ \A kind : IdsIn(v.all, kind) \subseteq IdsIn(w.all, kind)
        /\ e \in {"file", "decomp"} => v.nid[e] \in IdsIn(w.all, e)
    <3>1. e \in {"file", "decomp"} => Entry(c, v, e).kind = e /\ Entry(c, v, e).id = v.nid[e]
      BY DEF Entry
    <3> HIDE DEF e
    <3> QED BY <1>6, <3>1 DEF IdsIn
  <2>3. w.cur.file \in {0} \cup IdsIn(w.all, "file") /\ w.cur.decomp \in {0} \cup IdsIn(w.all, "decomp")
    <3>1. v.cur.file \in {0} \cup IdsIn(v.all, "file") /\ v.cur.decomp \in {0} \cup IdsIn(v.all, "decomp")
      BY <2>1 DEF Knows
    <3> HIDE DEF e
    <3> QED BY <3>1, <1>5, <2>2
  <2>4. HasMessage(w.a) => /\ w.cur.file \in {0} \cup IdsIn(w.tbl, "file")
                           /\ w.cur.decomp \in {0} \cup IdsIn(w.tbl, "decomp")
    <3> SUFFICES ASSUME HasMessage(w.a)
                 PROVE  /\ w.cur.file \in {0} \cup IdsIn(w.tbl, "file")
                        /\ w.cur.decomp \in {0} \cup IdsIn(w.tbl, "decomp")
      OBVIOUS
    <3>1. HasMessage(v.a)
      BY <1>1, <1>2, MessageTail
    <3>2. v.cur.file \in {0} \cup IdsIn(v.tbl, "file") /\ v.cur.decomp \in {0} \cup IdsIn(v.tbl, "decomp")
      BY <2>1, <3>1 DEF Knows
    <3>3. e \in {"file", "decomp"}
      <4>1. w.a # <<>>
        <5> SUFFICES ASSUME w.a = <<>> PROVE FALSE
          OBVIOUS
        <5>1. DOMAIN w.a = 1..0
          BY SqEmpty, SqDomain
        <5> QED BY <5>1 DEF HasMessage
      <4> QED BY <1>2, <4>1
    <3>4. Entry(c, v, e).kind = e /\ Entry(c, v, e).id = v.nid[e] /\ Entry(c, v, e) \in w.tbl
      BY <1>1, <3>3 DEF Entry, Made
    <3> HIDE DEF e
    <3>5. v.nid[e] \in IdsIn(w.tbl, e)
      BY <3>4 DEF IdsIn
    <3>6. \A kind : IdsIn(v.tbl, kind) \subseteq IdsIn(w.tbl, kind)
      BY <1>6, <3>3 DEF IdsIn
    <3> QED BY <1>5, <3>2, <3>5, <3>6
  <2> QED BY <1>3, <2>3, <2>4 DEF Knows
<1> QED BY <1>7, <1>8, <1>9, <1>10, <1>11, <1>12, <1>13 DEF OK

LEMMA StepOK ==
    ASSUME CallsAgree, NEW c, NEW v, NEW w, OK(c, v), VStep(c, v, w)
    PROVE  OK(c, w)
BY BeginOK, MsgOK, ArgOK, ShareOK, AnswerOK, OutcomeOK, OwnOK, HandleOK, EndOK, EffectOK DEF VStep

-----------------------------------------------------------------------------
(***************************************************************************)
(* How the states of a log are related.                                    *)
(***************************************************************************)
LEMMA StepAdds ==
    ASSUME NEW c, NEW v, NEW w, OK(c, v), VStep(c, v, w)
    PROVE  \E kd : Counts(v, w, kd)
BY DEF VStep, BeginStep, MsgStep, ArgStep, ShareStep, AnswerStep, OutcomeStep, OwnStep, HandleStep, EndStep, EffectStep

LEMMA StepCounts ==
    ASSUME NEW c, NEW v, NEW w, OK(c, v), VStep(c, v, w)
    PROVE  /\ \A x \in Kinds : v.n[x] \in Nat /\ w.n[x] \in Nat
           /\ \A x \in Kinds : IF w.kind = x THEN w.n[x] = v.n[x] + 1 ELSE w.n[x] = v.n[x]
<1>1. PICK kd : Counts(v, w, kd)
  BY StepAdds
<1>2. \A x \in Kinds : v.n[x] \in Nat
  BY DEF OK, Shape
<1>3. ASSUME NEW x \in Kinds PROVE IF w.kind = x THEN w.n[x] = v.n[x] + 1 ELSE w.n[x] = v.n[x]
  <2>1. v.n[x] \in Nat /\ w.kind = kd /\ w.n[x] = v.n[x] + (IF x = kd THEN 1 ELSE 0)
    BY <1>1, <1>2 DEF Counts
  <2> QED BY <2>1
<1>4. \A x \in Kinds : w.n[x] \in Nat
  BY <1>1, <1>2, CountsNat
<1> QED BY <1>2, <1>3, <1>4

\* Which steps add which broadcasts.
LEMMA StepKinds ==
    ASSUME NEW c, NEW v, NEW w, OK(c, v), VStep(c, v, w)
    PROVE  /\ w.kind = "begin" <=> BeginStep(v, w)
           /\ w.kind = "msg" <=> MsgStep(v, w)
           /\ w.kind = "arg" <=> ArgStep(v, w)
           /\ w.kind = "comp" <=> ShareStep(v, w)
           /\ w.kind = "io" <=> AnswerStep(v, w) \/ OutcomeStep(v, w)
           /\ w.kind = "none" <=> OwnStep(v, w) \/ HandleStep(v, w) \/ EndStep(v, w) \/ EffectStep(c, v, w)
<1>1. /\ BeginStep(v, w) => w.kind = "begin"
      /\ MsgStep(v, w) => w.kind = "msg"
      /\ ArgStep(v, w) => w.kind = "arg"
      /\ ShareStep(v, w) => w.kind = "comp"
      /\ AnswerStep(v, w) \/ OutcomeStep(v, w) => w.kind = "io"
      /\ OwnStep(v, w) \/ HandleStep(v, w) \/ EndStep(v, w) \/ EffectStep(c, v, w) => w.kind = "none"
  BY DEF Counts, BeginStep, MsgStep, ArgStep, ShareStep, AnswerStep, OutcomeStep, OwnStep, HandleStep, EndStep, EffectStep
<1> QED BY <1>1 DEF VStep

LEMMA StepAll ==
    ASSUME NEW c, NEW v, NEW w, OK(c, v), VStep(c, v, w)
    PROVE  /\ \A e \in v.all : e \in w.all
           /\ \A e \in w.all : e \in v.all \/ (EffectStep(c, v, w) /\ v.a[1].x \in {"file", "decomp"} /\ e = Entry(c, v, v.a[1].x))
           /\ ~EffectStep(c, v, w) => w.all = v.all
<1>1. ~EffectStep(c, v, w) => w.all = v.all
  BY DEF VStep, BeginStep, MsgStep, ArgStep, ShareStep, AnswerStep, OutcomeStep, OwnStep, HandleStep, EndStep, Keeps
<1>2. CASE EffectStep(c, v, w)
  BY <1>1, <1>2 DEF EffectStep, Made, Dropped
<1> QED BY <1>1, <1>2

LEMMA LaterStep ==
    ASSUME NEW c, NEW u, NEW v, NEW w, OK(c, u), OK(c, v), VStep(c, v, w), Later(u, v)
    PROVE  Later(u, w)
<1>1. ASSUME NEW x \in Kinds PROVE u.n[x] <= w.n[x]
  <2>1. u.n[x] \in Nat /\ v.n[x] \in Nat /\ u.n[x] <= v.n[x] /\ (w.n[x] = v.n[x] + 1 \/ w.n[x] = v.n[x])
    <3>1. IF w.kind = x THEN w.n[x] = v.n[x] + 1 ELSE w.n[x] = v.n[x]
      BY StepCounts
    <3> QED BY <3>1 DEF OK, Shape, Later
  <2> QED BY <2>1
<1>2. \A e \in u.all : e \in w.all
  BY StepAll DEF Later
<1> QED BY <1>1, <1>2 DEF Later

\* A count that has not changed over several steps has not changed in the last.
LEMMA NoneBetween ==
    ASSUME NEW c, NEW u, NEW v, NEW w, OK(c, u), OK(c, v), VStep(c, v, w), Later(u, v), NEW x \in Kinds,
           u.n[x] = w.n[x]
    PROVE  u.n[x] = v.n[x] /\ w.kind # x
<1>1. u.n[x] \in Nat /\ v.n[x] \in Nat /\ u.n[x] <= v.n[x]
  BY DEF OK, Shape, Later
<1>2. IF w.kind = x THEN w.n[x] = v.n[x] + 1 ELSE w.n[x] = v.n[x]
  BY StepCounts
<1> QED BY <1>1, <1>2

\* From an idle state the callers begin a call or end the last.
LEMMA IdleStep ==
    ASSUME CallsAgree, NEW c, NEW v, NEW w, OK(c, v), VStep(c, v, w), Idle(v), w.kind # "msg"
    PROVE  /\ Idle(w) /\ (w.kind = "begin" \/ w.kind = "none")
           /\ w.tbl = v.tbl /\ w.eh = v.eh /\ w.made = v.made /\ w.open = v.open
           /\ w.kind = "begin" => w.a # <<>> /\ w.a[1].do = "message"
           /\ w.kind # "begin" => w.ierr = v.ierr /\ v.a # <<>> /\ v.a[1].do # "message"
<1>1. v.ph = "in" /\ v.b = <<>>
  BY DEF Idle
<1>2. CASE BeginStep(v, w)
  <2>1. PICK call \in Calls : w.a = CompSteps(call)
    BY <1>2 DEF BeginStep
  <2>2. w.a # <<>> /\ w.a[1].do = "message"
    BY <2>1, CallIs DEF CallsAgree
  <2>3. w.kind = "begin"
    BY <1>2 DEF BeginStep, Counts
  <2> QED BY <1>1, <1>2, <2>2, <2>3 DEF BeginStep, Idle
<1>3. CASE HandleStep(v, w)
  <2>1. w.kind = "none" /\ w.b = <<>> /\ w.ph = "in" /\ Keeps(v, w) /\ w.ierr = v.ierr
        /\ v.a # <<>> /\ v.a[1].do # "message"
    BY <1>1, <1>3 DEF HandleStep, Counts, InCall, At1
  <2> QED BY <2>1 DEF Keeps, Idle
<1>4. CASE ~BeginStep(v, w) /\ ~HandleStep(v, w)
  <2>1. v.a # <<>> /\ v.a[1].do \notin Extra \cup {"message"}
    <3>1. ~MsgStep(v, w)
      BY DEF MsgStep, Counts
    <3> QED BY <1>4, <3>1 DEF VStep, ArgStep, ShareStep, AnswerStep, OutcomeStep, OwnStep, EndStep, EffectStep, At1,
                  FromComp, Extra
  <2>2. CASE v.a[1].do = "arg"
    BY <1>1, <2>1, <2>2, Place
  <2>3. CASE v.a[1].do # "arg"
    BY <1>1, <2>1, <2>3, Parallel
  <2> QED BY <2>2, <2>3
<1> QED BY <1>2, <1>3, <1>4

LEMMA MissedStep ==
    ASSUME CallsAgree, NEW c, NEW u, NEW v, NEW w, OK(c, u), OK(c, v), VStep(c, v, w), Later(u, v), Missed(u, v)
    PROVE  Missed(u, w)
<1> SUFFICES ASSUME Idle(u), u.n["msg"] = w.n["msg"]
    PROVE  /\ Idle(w) /\ w.tbl = u.tbl /\ w.eh = u.eh /\ w.made = u.made /\ w.open = u.open
           /\ w.n["arg"] = u.n["arg"] /\ w.n["comp"] = u.n["comp"] /\ w.n["io"] = u.n["io"]
           /\ u.n["begin"] = w.n["begin"] => w.ierr = u.ierr
           /\ u.n["begin"] # w.n["begin"] => w.a # <<>> /\ w.a[1].do = "message"
  BY DEF Missed
<1>1. u.n["msg"] = v.n["msg"] /\ w.kind # "msg"
  BY NoneBetween DEF Kinds
<1>2. /\ Idle(v) /\ v.tbl = u.tbl /\ v.eh = u.eh /\ v.made = u.made /\ v.open = u.open
      /\ v.n["arg"] = u.n["arg"] /\ v.n["comp"] = u.n["comp"] /\ v.n["io"] = u.n["io"]
      /\ u.n["begin"] = v.n["begin"] => v.ierr = u.ierr
      /\ u.n["begin"] # v.n["begin"] => v.a # <<>> /\ v.a[1].do = "message"
  BY <1>1 DEF Missed
<1>3. /\ Idle(w) /\ (w.kind = "begin" \/ w.kind = "none")
      /\ w.tbl = v.tbl /\ w.eh = v.eh /\ w.made = v.made /\ w.open = v.open
      /\ w.kind = "begin" => w.a # <<>> /\ w.a[1].do = "message"
      /\ w.kind # "begin" => w.ierr = v.ierr /\ v.a # <<>> /\ v.a[1].do # "message"
  BY <1>1, <1>2, IdleStep
<1>4. w.n["arg"] = v.n["arg"] /\ w.n["comp"] = v.n["comp"] /\ w.n["io"] = v.n["io"]
      /\ (IF w.kind = "begin" THEN w.n["begin"] = v.n["begin"] + 1 ELSE w.n["begin"] = v.n["begin"])
  BY <1>3, StepCounts DEF Kinds
<1>5. u.n["begin"] \in Nat /\ v.n["begin"] \in Nat /\ u.n["begin"] <= v.n["begin"]
  BY DEF OK, Shape, Kinds, Later
<1>6. CASE w.kind = "begin"
  <2>1. u.n["begin"] # w.n["begin"]
    BY <1>4, <1>5, <1>6
  <2> QED BY <1>2, <1>3, <1>4, <1>6, <2>1
<1>7. CASE w.kind # "begin"
  BY <1>2, <1>3, <1>4, <1>7
<1> QED BY <1>6, <1>7

LEMMA PassedStep ==
    ASSUME CallsAgree, NEW c, NEW u, NEW v, NEW w, OK(c, u), OK(c, v), OK(c, w), VStep(c, v, w), Later(u, v), Passed(u, v)
    PROVE  Passed(u, w)
<1> SUFFICES ASSUME At1(u, {"message"}), u.n["comp"] = w.n["comp"]
    PROVE  /\ \E d \in 0..(Len(u.a) - 1) :
                  /\ w.a = SubSeq(u.a, d + 1, Len(u.a))
                  /\ \A x \in 1..d : u.a[x].do \in {"message", "arg"}
                  /\ d = 0 \/ w.ph # "in"
           /\ w.ierr = u.ierr /\ w.nid = u.nid /\ Keeps(u, w)
           /\ w.n["io"] = u.n["io"] /\ w.n["begin"] = u.n["begin"]
           /\ w.have \cap NextIds = {}
  BY DEF Passed
<1>1. u.n["comp"] = v.n["comp"] /\ w.kind # "comp"
  BY NoneBetween DEF Kinds
<1>2. /\ \E d \in 0..(Len(u.a) - 1) :
                  /\ v.a = SubSeq(u.a, d + 1, Len(u.a))
                  /\ \A x \in 1..d : u.a[x].do \in {"message", "arg"}
                  /\ d = 0 \/ v.ph # "in"
      /\ v.ierr = u.ierr /\ v.nid = u.nid /\ Keeps(u, v)
      /\ v.n["io"] = u.n["io"] /\ v.n["begin"] = u.n["begin"]
      /\ v.have \cap NextIds = {}
  BY <1>1 DEF Passed
<1>3. PICK d \in 0..(Len(u.a) - 1) :
                  /\ v.a = SubSeq(u.a, d + 1, Len(u.a))
                  /\ \A x \in 1..d : u.a[x].do \in {"message", "arg"}
                  /\ d = 0 \/ v.ph # "in"
  BY <1>2
<1>4. Sq(u.a) /\ u.a # <<>> /\ Len(u.a) \in Nat /\ u.a[1].do = "message"
  BY SqDomain DEF OK, Shape, At1
<1>5. d \in Nat /\ d + 1 <= Len(u.a) /\ d \in 0..Len(u.a) /\ 1 \in 1..(Len(u.a) - d) /\ Len(u.a) - d > 0
  BY <1>4
<1>6. /\ Sq(v.a) /\ Len(v.a) = Len(u.a) - d
      /\ \A i \in 1..(Len(u.a) - d) : v.a[i] = u.a[d + i]
  BY <1>3, <1>4, <1>5, SqDrop
<1>7. v.a # <<>> /\ v.a[1] = u.a[d + 1]
  BY <1>5, <1>6, SqDomain
<1>8. v.a[1].do \in {"message", "arg"}
  <2>1. CASE d = 0
    BY <1>4, <1>7, <2>1
  <2>2. CASE d # 0
    <3>1. v.ph # "in"
      BY <1>3, <2>2
    <3>2. v.a[1].do \in {"arg", "share"}
      BY <3>1 DEF OK, Shape, Phase
    <3>3. v.a[1].do # "share"
      <4> SUFFICES ASSUME v.a[1].do = "share" PROVE FALSE
        OBVIOUS
      <4>1. ShareStep(v, w)
        BY <1>7 DEF VStep, BeginStep, MsgStep, ArgStep, AnswerStep, OutcomeStep, OwnStep, HandleStep, EndStep,
                    EffectStep, At1
      <4> QED BY <1>1, <4>1 DEF ShareStep, Counts
    <3> QED BY <3>2, <3>3
  <2> QED BY <2>1, <2>2
<1>9. MsgStep(v, w) \/ ArgStep(v, w)
  BY <1>7, <1>8 DEF VStep, BeginStep, ShareStep, AnswerStep, OutcomeStep, OwnStep, HandleStep, EndStep,
                    EffectStep, At1, FromComp
<1>10. w.a = Tail(v.a) /\ w.ierr = v.ierr /\ w.nid = v.nid /\ Keeps(v, w) /\ w.ph # "in" /\ w.kind \in {"msg", "arg"}
  BY <1>9 DEF MsgStep, ArgStep, Enters, Counts
<1>11. w.a # <<>> /\ w.have \cap NextIds = {}
  BY <1>10 DEF OK, Shape, Phase, Knows
<1>12. w.n["io"] = v.n["io"] /\ w.n["begin"] = v.n["begin"]
  BY <1>10, StepCounts DEF Kinds
<1>13. Len(v.a) > 1
  <2>1. Len(w.a) = Len(v.a) - 1 /\ Sq(w.a)
    BY <1>6, <1>7, <1>10, SqTail
  <2>2. Len(w.a) > 0 /\ Len(w.a) \in Nat /\ Len(v.a) \in Nat
    BY <2>1, <1>6, <1>11, SqDomain
  <2> DEFINE m == Len(w.a)
             n == Len(v.a)
  <2>3. m = n - 1 /\ m > 0 /\ m \in Nat /\ n \in Nat
    BY <2>1, <2>2
  <2> HIDE DEF m, n
  <2>4. n > 1
    BY <2>3
  <2> QED BY <2>4 DEF n
<1>14. d + 1 \in 0..(Len(u.a) - 1)
  <2> DEFINE m == Len(u.a)
             n == Len(v.a)
  <2>1. n = m - d /\ m \in Nat /\ d \in Nat /\ n > 1
    BY <1>4, <1>5, <1>6, <1>13
  <2> HIDE DEF m, n
  <2>2. d + 1 \in 0..(m - 1)
    BY <2>1
  <2> QED BY <2>2 DEF m
<1>15. w.a = SubSeq(u.a, (d + 1) + 1, Len(u.a))
  <2> DEFINE x == SubSeq(u.a, (d + 1) + 1, Len(u.a))
             y == Tail(v.a)
             N == Len(u.a)
  <2>1. d + 1 \in 0..N
    BY <1>14, <1>4
  <2>2. Sq(x) /\ Len(x) = N - (d + 1) /\ \A i \in 1..(N - (d + 1)) : x[i] = u.a[(d + 1) + i]
    BY <1>4, <2>1, SqDrop
  <2>3. Sq(y) /\ Len(y) = Len(v.a) - 1 /\ \A i \in 1..(Len(v.a) - 1) : y[i] = v.a[i + 1]
    BY <1>6, <1>7, SqTail
  <2>4. Len(v.a) = N - d /\ N \in Nat
    BY <1>4, <1>6
  <2> HIDE DEF x, y, N
  <2>5. Len(x) = Len(y)
    BY <1>5, <2>2, <2>3, <2>4
  <2>6. ASSUME NEW i \in 1..Len(x) PROVE x[i] = y[i]
    <3>1. i \in 1..(N - (d + 1)) /\ i \in 1..(Len(v.a) - 1) /\ i + 1 \in 1..(N - d) /\ d + (i + 1) = (d + 1) + i
      BY <1>5, <2>2, <2>4
    <3>2. v.a[i + 1] = u.a[d + (i + 1)]
      BY <1>6, <3>1 DEF N
    <3> QED BY <2>2, <2>3, <3>1, <3>2
  <2>7. x = y
    BY <2>2, <2>3, <2>5, <2>6, SqEq
  <2> QED BY <1>10, <2>7 DEF x, y
<1>16. \A x \in 1..(d + 1) : u.a[x].do \in {"message", "arg"}
  <2>1. \A x \in 1..(d + 1) : x \in 1..d \/ x = d + 1
    BY <1>5
  <2> QED BY <1>3, <1>7, <1>8, <2>1
<1> QED BY <1>2, <1>10, <1>11, <1>12, <1>14, <1>15, <1>16 DEF Keeps

LEMMA NumberedStep ==
    ASSUME CallsAgree, NEW c, NEW u, NEW v, NEW w, OK(c, u), OK(c, v), VStep(c, v, w), Later(u, v), Numbered(u, v)
    PROVE  Numbered(u, w)
<1> SUFFICES ASSUME u.n["io"] = w.n["io"]
    PROVE  /\ \A e \in w.all : e \in u.all \/ (/\ NextId(e.kind) \in u.have /\ e.id = u.nid[e.kind]
                                               /\ NextId(e.kind) \notin w.have)
           /\ \A k \in {"file", "decomp"} :
                  NextId(k) \in w.have => NextId(k) \in u.have /\ u.nid[k] = w.nid[k]
  BY DEF Numbered
<1>1. u.n["io"] = v.n["io"] /\ w.kind # "io"
  BY NoneBetween DEF Kinds
<1>2. /\ \A e \in v.all : e \in u.all \/ (/\ NextId(e.kind) \in u.have /\ e.id = u.nid[e.kind]
                                          /\ NextId(e.kind) \notin v.have)
      /\ \A k \in {"file", "decomp"} :
              NextId(k) \in v.have => NextId(k) \in u.have /\ u.nid[k] = v.nid[k]
  BY <1>1 DEF Numbered
<1>3. w.nid = v.nid /\ \A k : NextId(k) \in w.have => NextId(k) \in v.have
  <2>1. CASE ArgStep(v, w)
    <3>1. Gives(v.a[1]) \notin NextIds
      BY <2>1, Names DEF ArgStep, At1
    <3> QED BY <2>1, <3>1, Names DEF ArgStep
  <2>2. CASE ~ArgStep(v, w)
    <3>1. ~AnswerStep(v, w) /\ ~OutcomeStep(v, w)
      BY <1>1, StepKinds
    <3> QED BY <2>2, <3>1 DEF VStep, BeginStep, MsgStep, ShareStep, OwnStep, HandleStep, EndStep, EffectStep, InCall
  <2> QED BY <2>1, <2>2
<1>4. ASSUME NEW e \in w.all, e \notin u.all
      PROVE  NextId(e.kind) \in u.have /\ e.id = u.nid[e.kind] /\ NextId(e.kind) \notin w.have
  <2>1. CASE e \in v.all
    BY <1>2, <1>3, <1>4, <2>1
  <2>2. CASE e \notin v.all
    <3> DEFINE k == v.a[1].x
    <3>1. EffectStep(c, v, w) /\ k \in {"file", "decomp"} /\ e = Entry(c, v, k)
      BY <2>2, StepAll
    <3>2. e.kind = k /\ e.id = v.nid[k]
      BY <3>1 DEF Entry
    <3>3. v.a # <<>> /\ v.a[1].do = "effect"
      BY <3>1 DEF EffectStep, At1
    <3>4. Needs(k) \in v.have
      BY <3>1, <3>3, EffectPlace
    <3>5. Needs(k) = NextId(k)
      BY <3>1 DEF Needs
    <3>6. w.have = {}
      BY <3>1 DEF EffectStep, InCall
    <3> HIDE DEF k
    <3> QED BY <1>2, <3>1, <3>2, <3>4, <3>5, <3>6
  <2> QED BY <2>1, <2>2
<1> QED BY <1>2, <1>3, <1>4

LEMMA RSame ==
    ASSUME NEW c, NEW v, OK(c, v)
    PROVE  R(v, v)
<1>1. Later(v, v)
  BY DEF Later, OK, Shape
<1>2. Missed(v, v)
  BY DEF Missed
<1>3. Numbered(v, v)
  BY DEF Numbered
<1>4. Passed(v, v)
  <2> SUFFICES ASSUME At1(v, {"message"})
               PROVE  /\ \E d \in 0..(Len(v.a) - 1) :
                          /\ v.a = SubSeq(v.a, d + 1, Len(v.a))
                          /\ \A x \in 1..d : v.a[x].do \in {"message", "arg"}
                          /\ d = 0 \/ v.ph # "in"
                      /\ v.have \cap NextIds = {}
    BY DEF Passed, Keeps
  <2>1. v.a # <<>> /\ v.a[1].do = "message"
    BY DEF At1
  <2>2. Sq(v.a) /\ Len(v.a) \in Nat /\ Len(v.a) > 0
    BY <2>1, SqDomain DEF OK, Shape
  <2>3. 0 \in 0..(Len(v.a) - 1)
    <3>1. \A n \in Nat : n > 0 => 0 \in 0..(n - 1)
      OBVIOUS
    <3> QED BY <2>2, <3>1
  <2>4. v.a = SubSeq(v.a, 0 + 1, Len(v.a))
    BY <2>2, FromFirst
  <2>5. v.have = {}
    BY <2>1, Place DEF Idle, OK, Knows
  <2> QED BY <2>3, <2>4, <2>5
<1> QED BY <1>1, <1>2, <1>3, <1>4 DEF R

LEMMA RStep ==
    ASSUME CallsAgree, NEW c, NEW u, NEW v, NEW w, OK(c, u), OK(c, v), VStep(c, v, w), R(u, v)
    PROVE  R(u, w)
<1>1. OK(c, w)
  BY StepOK
<1> QED BY <1>1, LaterStep, MissedStep, PassedStep, NumberedStep DEF R

-----------------------------------------------------------------------------
(***************************************************************************)
(* Logs.                                                                   *)
(***************************************************************************)
LEMMA LogAt ==
    ASSUME NEW c, NEW V, NEW N, LogOK(c, V, N)
    PROVE  /\ N \in Nat \ {0} /\ N \in 1..N
           /\ \A i \in 1..N : OK(c, V[i]) /\ \A x \in Kinds : V[i].n[x] \in Nat
           /\ \A i \in 1..N, j \in 1..N : i <= j => R(V[i], V[j]) /\ \A x \in Kinds : V[i].n[x] <= V[j].n[x]
           /\ \A i \in 1..N : R(V[i], V[N]) /\ \A x \in Kinds : V[i].n[x] <= V[N].n[x]
           /\ \A i \in 1..N : i # N => i + 1 \in 1..N /\ VStep(c, V[i], V[i + 1])
<1>1. N \in Nat \ {0} /\ N \in 1..N
  BY DEF LogOK
<1>2. \A i \in 1..N : OK(c, V[i]) /\ \A x \in Kinds : V[i].n[x] \in Nat
  BY DEF LogOK, OK, Shape
<1>3. \A i \in 1..N, j \in 1..N : i <= j => R(V[i], V[j]) /\ \A x \in Kinds : V[i].n[x] <= V[j].n[x]
  BY DEF LogOK, R, Later
<1>4. \A i \in 1..N : i <= N
  BY <1>1
<1>5. \A i \in 1..N : i # N => i + 1 \in 1..N /\ i \in 1..(N - 1)
  BY <1>1
<1> QED BY <1>1, <1>2, <1>3, <1>4, <1>5 DEF LogOK

Ext(V, N, w) == [i \in 1..(N + 1) |-> IF i = N + 1 THEN w ELSE V[i]]

LEMMA ExtAt ==
    ASSUME NEW V, NEW N \in Nat, NEW w
    PROVE  /\ Ext(V, N, w)[N + 1] = w /\ \A i \in 1..N : Ext(V, N, w)[i] = V[i]
           /\ \A i \in 1..(N + 1) : i \in 1..N \/ i = N + 1
<1>1. N + 1 \in 1..(N + 1)
  OBVIOUS
<1>2. \A i \in 1..N : i \in 1..(N + 1) /\ i # N + 1
  OBVIOUS
<1>3. \A i \in 1..(N + 1) : i \in 1..N \/ i = N + 1
  OBVIOUS
<1> QED BY <1>1, <1>2, <1>3 DEF Ext

LEMMA FoundGrows ==
    ASSUME NEW c, NEW V, NEW N, LogOK(c, V, N), NEW w, VStep(c, V[N], w), NEW k \in Kinds, Found(V, N, k)
    PROVE  Found(Ext(V, N, w), N + 1, k)
<1> DEFINE W == Ext(V, N, w)
<1>1. N \in Nat /\ N \in 1..N /\ OK(c, V[N])
  BY LogAt
<1>2. W[N + 1] = w /\ \A i \in 1..N : W[i] = V[i]
  BY <1>1, ExtAt
<1>3. V[N].n[k] \in Nat /\ (IF w.kind = k THEN w.n[k] = V[N].n[k] + 1 ELSE w.n[k] = V[N].n[k])
  BY <1>1, StepCounts
<1> HIDE DEF W
<1>4. ASSUME NEW m \in 1..w.n[k] PROVE \E j \in 1..(N + 1) : W[j].kind = k /\ W[j].n[k] = m
  <2>1. CASE m \in 1..V[N].n[k]
    <3>1. PICK j \in 1..N : V[j].kind = k /\ V[j].n[k] = m
      BY <2>1 DEF Found
    <3>2. j \in 1..(N + 1)
      BY <1>1
    <3> QED BY <3>1, <3>2, <1>2
  <2>2. CASE m \notin 1..V[N].n[k]
    <3>1. w.kind = k /\ m = w.n[k]
      BY <1>3, <1>4, <2>2
    <3>2. N + 1 \in 1..(N + 1)
      BY <1>1
    <3> QED BY <3>1, <3>2, <1>2
  <2> QED BY <2>1, <2>2
<1>5. Found(W, N + 1, k)
  BY <1>2, <1>4 DEF Found
<1> QED BY <1>5 DEF W

LEMMA LogGrows ==
    ASSUME CallsAgree, NEW c, NEW V, NEW N, LogOK(c, V, N), NEW w, VStep(c, V[N], w)
    PROVE  LogOK(c, Ext(V, N, w), N + 1)
<1> DEFINE W == Ext(V, N, w)
<1>1. N \in Nat \ {0} /\ N \in 1..N /\ \A i \in 1..N : OK(c, V[i]) /\ R(V[i], V[N])
  BY LogAt
<1>2. W[N + 1] = w /\ (\A i \in 1..N : W[i] = V[i]) /\ \A i \in 1..(N + 1) : i \in 1..N \/ i = N + 1
  BY <1>1, ExtAt
<1>3. OK(c, w)
  BY <1>1, StepOK
<1>4. Found(W, N + 1, "msg") /\ Found(W, N + 1, "comp")
  BY FoundGrows DEF LogOK, Kinds
<1> HIDE DEF W
<1>5. \A i \in 1..(N + 1) : OK(c, W[i])
  BY <1>1, <1>2, <1>3
<1>6. ASSUME NEW i \in 1..((N + 1) - 1) PROVE VStep(c, W[i], W[i + 1])
  <2>1. i \in 1..N /\ i + 1 \in 1..(N + 1)
    BY <1>1
  <2>2. CASE i = N
    BY <1>1, <1>2, <2>2
  <2>3. CASE i # N
    <3>1. i \in 1..(N - 1) /\ i + 1 \in 1..N
      BY <1>1, <2>1, <2>3
    <3> QED BY <3>1, <2>1, <1>2 DEF LogOK
  <2> QED BY <2>2, <2>3
<1>7. ASSUME NEW i \in 1..(N + 1), NEW j \in 1..(N + 1), i <= j PROVE R(W[i], W[j])
  <2>1. CASE i = N + 1
    <3>1. j = N + 1
      BY <1>1, <1>7, <2>1
    <3> QED BY <2>1, <3>1, <1>2, <1>3, RSame
  <2>2. CASE i # N + 1 /\ j = N + 1
    <3>1. i \in 1..N /\ W[i] = V[i] /\ W[j] = w
      BY <1>2, <2>2
    <3>2. OK(c, V[i]) /\ OK(c, V[N]) /\ R(V[i], V[N])
      BY <3>1, <1>1
    <3> QED BY <3>1, <3>2, RStep
  <2>3. CASE i # N + 1 /\ j # N + 1
    BY <1>2, <1>7, <2>3 DEF LogOK
  <2> QED BY <2>1, <2>2, <2>3
<1>8. N + 1 \in Nat \ {0} /\ W[1].kind = "none"
  <2>1. 1 \in 1..N
    BY <1>1
  <2> QED BY <1>1, <1>2, <2>1 DEF LogOK
<1>9. LogOK(c, W, N + 1)
  BY <1>4, <1>5, <1>6, <1>7, <1>8 DEF LogOK
<1> QED BY <1>9 DEF W

\* What is on its way when the log goes on.
LEMMA HoldsGrows ==
    ASSUME NEW c, NEW V, NEW N, LogOK(c, V, N), NEW w, VStep(c, V[N], w), NEW k \in Kinds,
           NEW s, NEW m \in Nat, m <= V[N].n[k], Holds(s, V, N, m, k)
    PROVE  /\ w.kind # k => Holds(s, Ext(V, N, w), N + 1, m, k)
           /\ w.kind = k => Holds(Append(s, w.item), Ext(V, N, w), N + 1, m, k)
<1> DEFINE W == Ext(V, N, w)
           W1 == Append(s, w.item)
           n == V[N].n[k]
<1>1. N \in Nat /\ N \in 1..N /\ OK(c, V[N])
  BY LogAt
<1>2. W[N + 1] = w /\ (\A i \in 1..N : W[i] = V[i]) /\ \A i \in 1..(N + 1) : i \in 1..N \/ i = N + 1
  BY <1>1, ExtAt
<1>3. n \in Nat /\ (IF w.kind = k THEN w.n[k] = n + 1 ELSE w.n[k] = n)
  BY <1>1, StepCounts
<1>4. Sq(s) /\ Len(s) = n - m /\ \A j \in 1..N : V[j].kind = k /\ V[j].n[k] > m => s[V[j].n[k] - m] = V[j].item
  BY DEF Holds
<1>5. \A j \in 1..N : V[j].n[k] \in Nat /\ V[j].n[k] <= n
  BY LogAt
<1> HIDE DEF W, n
<1>6. CASE w.kind # k
  <2>1. Len(s) = W[N + 1].n[k] - m
    BY <1>2, <1>3, <1>4, <1>6
  <2>2. ASSUME NEW j \in 1..(N + 1), W[j].kind = k, W[j].n[k] > m PROVE s[W[j].n[k] - m] = W[j].item
    BY <1>2, <1>4, <1>6, <2>2
  <2>3. Holds(s, W, N + 1, m, k)
    BY <1>4, <2>1, <2>2 DEF Holds
  <2> QED BY <1>6, <2>3 DEF W
<1>7. CASE w.kind = k
  <2>1. /\ Sq(W1) /\ Len(W1) = Len(s) + 1
        /\ \A i \in 1..Len(s) : W1[i] = s[i]
        /\ W1[Len(s) + 1] = w.item
    BY <1>4, SqAppend
  <2> HIDE DEF W1
  <2>2. Len(W1) = W[N + 1].n[k] - m
    BY <1>2, <1>3, <1>4, <1>7, <2>1
  <2>3. ASSUME NEW j \in 1..(N + 1), W[j].kind = k, W[j].n[k] > m PROVE W1[W[j].n[k] - m] = W[j].item
    <3>1. CASE j = N + 1
      <4>1. w.n[k] - m = Len(s) + 1
        BY <1>3, <1>4, <1>7
      <4> QED BY <1>2, <2>1, <3>1, <4>1
    <3>2. CASE j # N + 1
      <4>1. j \in 1..N /\ W[j] = V[j]
        BY <1>2, <3>2
      <4>2. V[j].n[k] - m \in 1..(n - m)
        BY <1>3, <1>5, <2>3, <4>1
      <4>3. s[V[j].n[k] - m] = V[j].item
        BY <1>4, <2>3, <4>1
      <4> QED BY <1>4, <2>1, <4>1, <4>2, <4>3
    <3> QED BY <3>1, <3>2
  <2>4. Holds(W1, W, N + 1, m, k)
    BY <2>1, <2>2, <2>3 DEF Holds
  <2> QED BY <1>7, <2>4 DEF W, W1
<1> QED BY <1>6, <1>7

\* Nothing is on its way to who has seen everything.
LEMMA HoldsNothing ==
    ASSUME NEW c, NEW V, NEW N, LogOK(c, V, N), NEW k \in Kinds
    PROVE  Holds(<<>>, V, N, V[N].n[k], k)
<1>1. V[N].n[k] \in Nat /\ \A i \in 1..N : V[i].n[k] \in Nat /\ V[i].n[k] <= V[N].n[k]
  BY LogAt
<1>2. Sq(<<>>) /\ Len(<<>>) = V[N].n[k] - V[N].n[k]
  BY <1>1, SqEmpty
<1>3. \A i \in 1..N : ~(V[i].n[k] > V[N].n[k])
  BY <1>1
<1> QED BY <1>2, <1>3 DEF Holds

LEMMA HoldsTaken ==
    ASSUME NEW c, NEW V, NEW N, LogOK(c, V, N), NEW k \in Kinds,
           NEW s, NEW m \in Nat, Holds(s, V, N, m, k),
           NEW j \in 1..N, V[j].kind = k, V[j].n[k] = m + 1
    PROVE  /\ s # <<>> /\ Head(s) = V[j].item
           /\ Holds(Tail(s), V, N, m + 1, k)
<1> DEFINE n == V[N].n[k]
           T == Tail(s)
<1>1. n \in Nat /\ V[j].n[k] <= n
  BY LogAt
<1>2. Sq(s) /\ Len(s) = n - m /\ \A i \in 1..N : V[i].kind = k /\ V[i].n[k] > m => s[V[i].n[k] - m] = V[i].item
  BY DEF Holds
<1>3. \A i \in 1..N : V[i].n[k] \in Nat /\ V[i].n[k] <= n
  BY LogAt
<1> HIDE DEF n
<1>4. Len(s) > 0 /\ n - m > 0
  BY <1>1, <1>2
<1>5. s # <<>>
  BY <1>2, <1>4, SqDomain
<1>6. /\ Sq(T) /\ Len(T) = Len(s) - 1
      /\ \A i \in 1..(Len(s) - 1) : T[i] = s[i + 1]
      /\ Head(s) = s[1]
  BY <1>2, <1>5, SqTail
<1> HIDE DEF T
<1>7. s[1] = V[j].item
  <2>1. V[j].n[k] > m /\ V[j].n[k] - m = 1
    OBVIOUS
  <2> QED BY <1>2, <2>1
<1>8. Len(T) = n - (m + 1)
  BY <1>1, <1>2, <1>6
<1>9. ASSUME NEW i \in 1..N, V[i].kind = k, V[i].n[k] > m + 1 PROVE T[V[i].n[k] - (m + 1)] = V[i].item
  <2>1. V[i].n[k] \in Nat /\ V[i].n[k] <= n
    BY <1>3
  <2>2. V[i].n[k] > m /\ V[i].n[k] - (m + 1) \in 1..((n - m) - 1) /\ (V[i].n[k] - (m + 1)) + 1 = V[i].n[k] - m
    BY <2>1, <1>1, <1>9
  <2>3. T[V[i].n[k] - (m + 1)] = s[V[i].n[k] - m]
    BY <1>2, <1>6, <2>2
  <2> QED BY <1>2, <1>9, <2>2, <2>3
<1>10. Holds(T, V, N, m + 1, k)
  BY <1>6, <1>8, <1>9 DEF Holds, n
<1> QED BY <1>5, <1>6, <1>7, <1>10 DEF T

LEMMA HoldsLen ==
    ASSUME NEW c, NEW V, NEW N, LogOK(c, V, N), NEW k \in Kinds, NEW s, NEW m \in Nat, Holds(s, V, N, m, k)
    PROVE  /\ s = <<>> <=> m = V[N].n[k]
           /\ m <= V[N].n[k]
<1> DEFINE n == V[N].n[k]
<1>1. n \in Nat
  BY LogAt
<1>2. Sq(s) /\ Len(s) = n - m
  BY DEF Holds
<1> HIDE DEF n
<1>3. Len(s) \in Nat /\ (s # <<>> <=> Len(s) > 0)
  BY <1>2, SqDomain
<1>4. (s = <<>> <=> m = n) /\ m <= n
  BY <1>1, <1>2, <1>3
<1> QED BY <1>4 DEF n

-----------------------------------------------------------------------------
(***************************************************************************)
(* One task goes on.                                                       *)
(***************************************************************************)
Longer(c, V, N, W, K) == LogOK(c, W, K) /\ N <= K /\ \A i \in 1..N : W[i] = V[i]

\* No call has begun.
Grown(c, V, N, W, K) == Longer(c, V, N, W, K) /\ W[K].n["begin"] = V[N].n["begin"]

Put(p, c, f) == [d \in Component |-> IF d = c THEN f ELSE p[d]]

To(c, p, t, j) == [o \in Members(c) |-> IF o = t THEN j ELSE p[o]]

\* Nothing changes on the other tasks.
Others(t) ==
    \A o \in Task \ {t} :
        /\ todo'[o] = todo[o] /\ cur'[o] = cur[o] /\ ierr'[o] = ierr[o] /\ tables'[o] = tables[o]
        /\ next_id'[o] = next_id[o] /\ eh'[o] = eh[o] /\ open'[o] = open[o] /\ made'[o] = made[o]
        /\ o \in IOTask => loop'[o] = loop[o]

\* Nothing changes on the paths of the other components.
Elsewhere(c) ==
    /\ \A d \in Component \ {c} :
           /\ \A k \in Kinds : \A o \in Readers(d, k) : Box(o, d, k)' = Box(o, d, k)
           /\ chan'[MsgLink(d)] = chan[MsgLink(d)]
    /\ \A l \in LoopLinks : chan'[l] = chan[l]

LEMMA TaskKinds ==
    /\ \A c \in Component : Members(c) \subseteq Task /\ CompTask(c) \subseteq Members(c) /\ IOTask \subseteq Members(c)
                            /\ CompTask(c) \cap IOTask = {} /\ comproot(c) \in CompTask(c)
                            /\ \A t \in CompTask(c) : t[1] = c /\ CompOf(t) = c /\ t \in CompTasks
    /\ ioroot \in IOTask /\ \A t \in IOTask : CompOf(t) = loop[t].c
    /\ \A t \in IOTask : t[1] = "io"
    /\ \A t \in Task : t \notin IOTask => t \in CompTask(t[1]) /\ t[1] \in Component
    /\ \A t \in CompTasks : t \in CompTask(t[1]) /\ t[1] \in Component /\ t \in Task
<1>1. \A t \in IOTask : t[1] = "io"
  BY DEF IOTask
<1>2. \A c : \A t \in CompTask(c) : t[1] = c
  BY DEF CompTask
<1>3. "io" \notin Component
  BY AsyncAssumption
<1>4. 1 \in 1..CompRanks /\ 1 \in 1..IORanks
  BY AsyncAssumption
<1>5. \A c \in Component : CompTask(c) \cap IOTask = {}
  BY <1>1, <1>2, <1>3
<1>6. \A c \in Component : comproot(c) \in CompTask(c)
  BY <1>4 DEF comproot, CompTask
<1>7. ioroot \in IOTask
  BY <1>4 DEF ioroot, IOTask
<1>8. \A t \in CompTasks : t \in CompTask(t[1]) /\ t[1] \in Component /\ t \in Task
  BY <1>2 DEF CompTasks, Task
<1>9. \A c \in Component : Members(c) \subseteq Task /\ CompTask(c) \subseteq Members(c) /\ IOTask \subseteq Members(c)
                            /\ \A t \in CompTask(c) : t \in CompTasks
  BY DEF Members, Task, CompTasks
<1>10. \A c \in Component : \A t \in CompTask(c) : CompOf(t) = c
  BY <1>2, <1>5 DEF CompOf
<1> QED BY <1>1, <1>2, <1>5, <1>6, <1>7, <1>8, <1>9, <1>10 DEF CompOf, Task

LEMMA OthersStay ==
    ASSUME NEW t, Others(t), NEW o \in Task, o # t
    PROVE  /\ \A d, v : CompAt(o, d, v) /\ pending'[o] = pending[o] => CompAt(o, d, v)'
           /\ o \in IOTask => /\ \A d, v, b : IOAt(o, d, v, b) => IOAt(o, d, v, b)'
                              /\ \A r : LoopAt(o, loop[o], r) => LoopAt(o, loop[o], r)'
<1>1. /\ todo'[o] = todo[o] /\ cur'[o] = cur[o] /\ ierr'[o] = ierr[o] /\ tables'[o] = tables[o]
      /\ next_id'[o] = next_id[o] /\ eh'[o] = eh[o] /\ open'[o] = open[o] /\ made'[o] = made[o]
      /\ o \in IOTask => loop'[o] = loop[o]
  BY DEF Others
<1>2. \A v : Tokens(o, v)' <=> Tokens(o, v)
  BY <1>1 DEF Tokens
<1>3. ASSUME NEW d, NEW v, CompAt(o, d, v), pending'[o] = pending[o] PROVE CompAt(o, d, v)'
  BY <1>1, <1>2, <1>3 DEF CompAt, PastArgs
<1>4. ASSUME o \in IOTask, NEW d, NEW v, NEW b, IOAt(o, d, v, b) PROVE IOAt(o, d, v, b)'
  <2>1. Serves(o, d)' <=> Serves(o, d)
    BY <1>1, <1>4 DEF Serves
  <2> QED BY <1>1, <1>2, <1>4, <2>1 DEF IOAt
<1>5. ASSUME o \in IOTask, NEW r, LoopAt(o, loop[o], r) PROVE LoopAt(o, loop[o], r)'
  BY <1>1, <1>5 DEF LoopAt
<1> QED BY <1>3, <1>4, <1>5

LEMMA PutAt ==
    ASSUME NEW c \in Component, NEW p, NEW f
    PROVE  Put(p, c, f)[c] = f /\ \A d \in Component \ {c} : Put(p, c, f)[d] = p[d]
BY DEF Put

LEMMA ToAt ==
    ASSUME NEW c, NEW p, NEW t \in Members(c), NEW j
    PROVE  To(c, p, t, j)[t] = j /\ \A o \in Members(c) \ {t} : To(c, p, t, j)[o] = p[o]
BY DEF To

LEMMA ReadersIn == \A c : \A k \in Kinds : Readers(c, k) \subseteq Members(c)
<1>1. \A c : comproot(c) \in Members(c)
  BY AsyncAssumption DEF Members, comproot, CompTask
<1> QED BY <1>1 DEF Readers, Members, Kinds

LEMMA LongerAt ==
    ASSUME NEW c, NEW V, NEW N, NEW W, NEW K, LogOK(c, V, N), Longer(c, V, N, W, K)
    PROVE  /\ N \in Nat /\ K \in Nat /\ N \in 1..N /\ K \in 1..K /\ N \in 1..K /\ W[N] = V[N]
           /\ \A i \in 1..N : i \in 1..K /\ W[i] = V[i]
           /\ \A k \in Kinds : V[N].n[k] \in Nat /\ W[K].n[k] \in Nat /\ V[N].n[k] <= W[K].n[k]
           /\ \A j \in 1..K : j \notin 1..N =>
                 \A k \in Kinds : W[j].kind = k => W[j].n[k] > V[N].n[k]
<1>1. N \in Nat /\ K \in Nat /\ N \in 1..N /\ K \in 1..K /\ N <= K
  BY LogAt DEF Longer
<1>2. N \in 1..K /\ \A i \in 1..N : i \in 1..K
  BY <1>1
<1>3. \A i \in 1..N : W[i] = V[i]
  BY DEF Longer
<1>4. \A k \in Kinds : V[N].n[k] \in Nat /\ W[K].n[k] \in Nat /\ V[N].n[k] <= W[K].n[k]
  <2>1. LogOK(c, W, K)
    BY DEF Longer
  <2>2. \A k \in Kinds : W[N].n[k] \in Nat /\ W[K].n[k] \in Nat /\ W[N].n[k] <= W[K].n[k]
    BY <1>1, <1>2, <2>1, LogAt
  <2> QED BY <1>1, <1>3, <2>2
<1>5. ASSUME NEW j \in 1..K, j \notin 1..N, NEW k \in Kinds, W[j].kind = k PROVE W[j].n[k] > V[N].n[k]
  <2>1. LogOK(c, W, K)
    BY DEF Longer
  <2>2. j - 1 \in 1..(K - 1) /\ (j - 1) + 1 = j /\ N <= j - 1 /\ j - 1 \in 1..K
    BY <1>1, <1>5
  <2>3. VStep(c, W[j - 1], W[j]) /\ OK(c, W[j - 1])
    <3>1. VStep(c, W[j - 1], W[(j - 1) + 1])
      BY <2>1, <2>2 DEF LogOK
    <3> QED BY <2>1, <2>2, <3>1, LogAt
  <2>4. W[j].n[k] = W[j - 1].n[k] + 1
    BY <1>5, <2>3, StepCounts
  <2>5. W[N].n[k] <= W[j - 1].n[k] /\ W[N].n[k] \in Nat /\ W[j - 1].n[k] \in Nat
    BY <1>2, <2>1, <2>2, LogAt
  <2>6. W[N] = V[N]
    BY <1>1, <1>3
  <2> QED BY <2>4, <2>5, <2>6
<1> QED BY <1>1, <1>2, <1>3, <1>4, <1>5

LEMMA LoopLogStays ==
    ASSUME NEW V, NEW N, NEW G, NEW M, NEW c \in Component, NEW W, NEW K,
           \A d \in Component : LogOK(d, V[d], N[d]), Longer(c, V[c], N[c], W, K),
           LoopLog(V, N, G, M), Elsewhere(c), Holds(chan'[MsgLink(c)], W, K, G[M].served[c], "msg")
    PROVE  LoopLog(Put(V, c, W), Put(N, c, K), G, M)'
<1> DEFINE V2 == Put(V, c, W)
           N2 == Put(N, c, K)
<1>1. V2[c] = W /\ N2[c] = K /\ \A d \in Component \ {c} : V2[d] = V[d] /\ N2[d] = N[d]
  BY PutAt
<1>2. /\ M \in Nat \ {0}
      /\ \A i \in 1..M : G[i].rem \in Nat /\ \A d \in Component : G[i].served[d] \in Nat
      /\ \A i \in 1..(M - 1) : Counted(G, i) \/ Requested(G, i, V, N)
      /\ \A d \in Component : Holds(chan[MsgLink(d)], V[d], N[d], G[M].served[d], "msg")
  BY DEF LoopLog
<1>3. /\ N[c] \in Nat /\ K \in Nat
      /\ \A i \in 1..N[c] : W[i] = V[c][i]
      /\ V[c][N[c]].n["msg"] \in Nat /\ W[K].n["msg"] \in Nat /\ V[c][N[c]].n["msg"] <= W[K].n["msg"]
      /\ \A j \in 1..K : j \notin 1..N[c] => (W[j].kind = "msg" => W[j].n["msg"] > V[c][N[c]].n["msg"])
  BY LongerAt DEF Kinds
<1> HIDE DEF V2, N2
<1>4. ASSUME NEW i \in 1..(M - 1), Requested(G, i, V, N) PROVE Requested(G, i, V2, N2)
  <2>1. PICK e \in Component :
        /\ G[i].rem = G[i + 1].rem + 1 /\ G[i + 1].val[1] = e /\ G[i + 1].val = <<e, G[i + 1].val[2]>>
        /\ \A d \in Component : G[i + 1].served[d] = G[i].served[d] + (IF d = e THEN 1 ELSE 0)
        /\ G[i + 1].served[e] <= V[e][N[e]].n["msg"]
        /\ \A j \in 1..N[e] : V[e][j].kind = "msg" /\ V[e][j].n["msg"] = G[i + 1].served[e] =>
                               V[e][j].item.x = G[i + 1].val[2]
    BY <1>4 DEF Requested
  <2>2. G[i + 1].served[e] \in Nat
    <3>1. i + 1 \in 1..M
      BY <1>2
    <3> QED BY <1>2, <3>1
  <2>3. CASE e # c
    <3>1. V2[e] = V[e] /\ N2[e] = N[e]
      BY <1>1, <2>3
    <3> QED BY <2>1, <3>1 DEF Requested
  <2>4. CASE e = c
    <3>1. G[i + 1].served[e] <= W[K].n["msg"]
      BY <1>3, <2>1, <2>2, <2>4
    <3>2. ASSUME NEW j \in 1..K, W[j].kind = "msg", W[j].n["msg"] = G[i + 1].served[e]
          PROVE  W[j].item.x = G[i + 1].val[2]
      <4>1. CASE j \in 1..N[c]
        BY <1>3, <2>1, <2>4, <3>2, <4>1
      <4>2. CASE j \notin 1..N[c]
        <5>1. W[j].n["msg"] > V[c][N[c]].n["msg"]
          BY <1>3, <3>2, <4>2
        <5>2. G[i + 1].served[e] <= V[c][N[c]].n["msg"]
          BY <2>1, <2>4
        <5>3. V[c][N[c]].n["msg"] \in Nat
          BY <1>3
        <5> QED BY <2>2, <3>2, <5>1, <5>2, <5>3
      <4> QED BY <4>1, <4>2
    <3> QED BY <1>1, <2>1, <2>4, <3>1, <3>2 DEF Requested
  <2> QED BY <2>3, <2>4
<1>5. \A d \in Component : Holds(chan'[MsgLink(d)], V2[d], N2[d], G[M].served[d], "msg")
  BY <1>1, <1>2 DEF Elsewhere
<1>6. LoopLog(V2, N2, G, M)'
  BY <1>2, <1>4, <1>5 DEF LoopLog
<1> QED BY <1>6 DEF V2, N2

\* Everything on its way in the log W of c, when t has come to its state j.
Boxed(c, W, K, p, t, j) ==
    \A k \in Kinds : \A o \in Readers(c, k) :
        Holds(Box(o, c, k), W, K, W[IF o = t THEN j ELSE p[o]].n[k], k)

\* What t does is a step of component c: nothing else is seen of it.
Apart(c, t, V, N, p) ==
    t \in IOTask => \A d \in Component \ {c} : IOAt(t, d, V[d][p[d][t]], V[d][N[d]].n["begin"])

LEMMA FollowsOther ==
    ASSUME NEW V, NEW N, NEW p, NEW c \in Component, NEW d \in Component, d # c,
           Follows(d, V[d], N[d], p[d]), NEW t \in Members(c), Others(t), Elsewhere(c),
           Apart(c, t, V, N, p)', pending' = [o \in CompTasks |-> pending'[o]]
    PROVE  Follows(d, V[d], N[d], p[d])'
<1>1. LogOK(d, V[d], N[d]) /\ Boxes(d, V[d], N[d], p[d]) /\ TasksAt(d, V[d], N[d], p[d])
  BY DEF Follows
<1>2. Boxes(d, V[d], N[d], p[d])'
  BY <1>1 DEF Boxes, Elsewhere
<1>3. TasksAt(d, V[d], N[d], p[d])'
  <2>1. ASSUME NEW o \in CompTask(d) PROVE CompAt(o, d, V[d][p[d][o]])'
    <3>1. o \in Task /\ o # t
      <4>1. o \in Task /\ o[1] = d /\ o \notin IOTask
        BY TaskKinds
      <4>2. t \in IOTask \/ t[1] = c
        BY TaskKinds DEF Members
      <4> QED BY <4>1, <4>2
    <3>2. pending'[o] = pending[o]
      <4>1. o \in Readers(d, "begin") /\ "begin" \in Kinds
        BY DEF Readers, Kinds
      <4>2. Box(o, d, "begin")' = Box(o, d, "begin")
        BY <4>1 DEF Elsewhere
      <4> QED BY <4>2 DEF Box
    <3>3. CompAt(o, d, V[d][p[d][o]])
      BY <1>1 DEF TasksAt
    <3> QED BY <3>1, <3>2, <3>3, OthersStay
  <2>2. ASSUME NEW o \in IOTask PROVE IOAt(o, d, V[d][p[d][o]], V[d][N[d]].n["begin"])'
    <3>1. CASE o = t
      BY <2>2, <3>1 DEF Apart
    <3>2. CASE o # t
      <4>1. o \in Task /\ IOAt(o, d, V[d][p[d][o]], V[d][N[d]].n["begin"])
        BY <1>1, <2>2, TaskKinds DEF TasksAt
      <4> QED BY <2>2, <3>2, <4>1, OthersStay
    <3> QED BY <3>1, <3>2
  <2>3. \A o \in Members(d) : p[d][o] \in 1..N[d]
    BY <1>1 DEF TasksAt
  <2> QED BY <2>1, <2>2, <2>3 DEF TasksAt
<1> QED BY <1>1, <1>2, <1>3 DEF Follows

LEMMA FollowsSelf ==
    ASSUME NEW V, NEW N, NEW p, NEW c \in Component, Follows(c, V, N, p),
           NEW t \in Members(c), Others(t), NEW W, NEW K, Grown(c, V, N, W, K), NEW j \in 1..K,
           Boxed(c, W, K, p, t, j)', \A o \in CompTask(c) \ {t} : pending'[o] = pending[o],
           t \in CompTask(c) => CompAt(t, c, W[j])',
           t \in IOTask => IOAt(t, c, W[j], W[K].n["begin"])'
    PROVE  Follows(c, W, K, To(c, p, t, j))'
<1> DEFINE q == To(c, p, t, j)
<1>1. LogOK(c, V, N) /\ TasksAt(c, V, N, p)
  BY DEF Follows
<1>2. q[t] = j /\ \A o \in Members(c) \ {t} : q[o] = p[o]
  BY ToAt
<1>3. /\ K \in Nat /\ \A i \in 1..N : i \in 1..K /\ W[i] = V[i]
      /\ W[K].n["begin"] = V[N].n["begin"]
  BY <1>1, LongerAt DEF Grown
<1> HIDE DEF q
<1>4. \A o \in Members(c) : p[o] \in 1..N
  BY <1>1 DEF TasksAt
<1>5. Boxes(c, W, K, q)'
  <2>1. ASSUME NEW k \in Kinds, NEW o \in Readers(c, k) PROVE Holds(Box(o, c, k)', W, K, W[q[o]].n[k], k)
    <3>1. o \in Members(c)
      BY ReadersIn
    <3>2. q[o] = IF o = t THEN j ELSE p[o]
      BY <1>2, <3>1
    <3> QED BY <2>1, <3>2 DEF Boxed
  <2> QED BY <2>1 DEF Boxes
<1>6. TasksAt(c, W, K, q)'
  <2>1. \A o \in Members(c) : q[o] \in 1..K
    BY <1>2, <1>3, <1>4
  <2>2. ASSUME NEW o \in CompTask(c) PROVE CompAt(o, c, W[q[o]])'
    <3>1. CASE o = t
      BY <1>2, <2>2, <3>1
    <3>2. CASE o # t
      <4>1. o \in Members(c) /\ o \in Task
        BY TaskKinds
      <4>2. CompAt(o, c, V[p[o]]) /\ pending'[o] = pending[o]
        BY <1>1, <3>2 DEF TasksAt
      <4>3. CompAt(o, c, V[p[o]])'
        BY <3>2, <4>1, <4>2, OthersStay
      <4>4. W[q[o]] = V[p[o]]
        BY <1>2, <1>3, <1>4, <3>2, <4>1
      <4> QED BY <4>3, <4>4
    <3> QED BY <3>1, <3>2
  <2>3. ASSUME NEW o \in IOTask PROVE IOAt(o, c, W[q[o]], W[K].n["begin"])'
    <3>1. CASE o = t
      BY <1>2, <2>3, <3>1
    <3>2. CASE o # t
      <4>1. o \in Members(c) /\ o \in Task
        BY TaskKinds
      <4>2. IOAt(o, c, V[p[o]], V[N].n["begin"])
        BY <1>1 DEF TasksAt
      <4>3. IOAt(o, c, V[p[o]], V[N].n["begin"])'
        BY <3>2, <4>1, <4>2, OthersStay
      <4>4. W[q[o]] = V[p[o]]
        BY <1>2, <1>3, <1>4, <3>2, <4>1
      <4> QED BY <1>3, <4>3, <4>4
    <3> QED BY <3>1, <3>2
  <2> QED BY <2>1, <2>2, <2>3 DEF TasksAt
<1>7. LogOK(c, W, K)
  BY DEF Grown, Longer
<1> QED BY <1>5, <1>6, <1>7 DEF Follows, q

LEMMA LoopsStay ==
    ASSUME NEW V, NEW p, NEW G, NEW M, NEW g, LoopsAt(V, p, G, M, g), NEW c \in Component,
           NEW t \in Members(c), Others(t), Elsewhere(c), NEW W, NEW j,
           \A o \in Members(c) \ {t} : W[p[c][o]] = V[c][p[c][o]],
           t \in IOTask => /\ W[j].n["msg"] = V[c][p[c][t]].n["msg"]
                           /\ LoopAt(t, loop[t], G[g[t]].rem)'
                           /\ loop'[t].queue = loop[t].queue
    PROVE  LoopsAt(Put(V, c, W), Put(p, c, To(c, p[c], t, j)), G, M, g)'
<1> DEFINE V2 == Put(V, c, W)
           p2 == Put(p, c, To(c, p[c], t, j))
<1>1. V2[c] = W /\ \A d \in Component \ {c} : V2[d] = V[d]
  BY PutAt
<1>2. /\ p2[c][t] = j /\ \A o \in Members(c) \ {t} : p2[c][o] = p[c][o]
      /\ \A d \in Component \ {c} : p2[d] = p[d]
  BY PutAt, ToAt
<1> HIDE DEF V2, p2
<1>3. ASSUME NEW o \in IOTask PROVE LoopAt(o, loop[o], G[g[o]].rem)'
  <2>1. CASE o = t
    BY <1>3, <2>1
  <2>2. CASE o # t
    <3>1. LoopAt(o, loop[o], G[g[o]].rem) /\ o \in Task
      BY <1>3, TaskKinds DEF LoopsAt
    <3> QED BY <1>3, <2>2, <3>1, OthersStay
  <2> QED BY <2>1, <2>2
<1>4. ASSUME NEW o \in IOTask, NEW d \in Component PROVE V2[d][p2[d][o]].n["msg"] = G[g[o]].served[d]
  <2>1. V[d][p[d][o]].n["msg"] = G[g[o]].served[d]
    BY <1>4 DEF LoopsAt
  <2>2. CASE d # c
    BY <1>1, <1>2, <2>1, <2>2
  <2>3. CASE d = c /\ o # t
    <3>1. o \in Members(c)
      BY <1>4, TaskKinds
    <3> QED BY <1>1, <1>2, <2>1, <2>3, <3>1
  <2>4. CASE d = c /\ o = t
    BY <1>1, <1>2, <1>4, <2>1, <2>4
  <2> QED BY <2>2, <2>3, <2>4
<1>5. ASSUME NEW o \in IOTask, o # ioroot PROVE chan'[<<"loop", "io", o>>] = chan[<<"loop", "io", o>>]
  BY <1>5 DEF Elsewhere, LoopLinks
<1>6. loop'[ioroot].queue = loop[ioroot].queue
  <2>1. CASE t = ioroot
    BY <2>1, TaskKinds
  <2>2. CASE t # ioroot
    BY <2>2, TaskKinds DEF Others, Task
  <2> QED BY <2>1, <2>2
<1>7. \A o \in IOTask : g[o] \in 1..g[ioroot]
  BY DEF LoopsAt
<1>8. \A o \in IOTask : o # ioroot => LET s == chan'[<<"loop", "io", o>>]
                            IN  /\ Sq(s) /\ Len(s) = g[ioroot] - g[o]
                                /\ \A i \in 1..(g[ioroot] - g[o]) : s[i].val = G[g[o] + i].val
  <2> SUFFICES ASSUME NEW o \in IOTask, o # ioroot
               PROVE  LET s == chan'[<<"loop", "io", o>>]
                      IN  /\ Sq(s) /\ Len(s) = g[ioroot] - g[o]
                          /\ \A i \in 1..(g[ioroot] - g[o]) : s[i].val = G[g[o] + i].val
    OBVIOUS
  <2>1. chan'[<<"loop", "io", o>>] = chan[<<"loop", "io", o>>]
    BY <1>5
  <2> QED BY <2>1 DEF LoopsAt
<1>9. /\ M = g[ioroot] + G[g[ioroot]].rem
      /\ \A i \in 1..G[g[ioroot]].rem : loop'[ioroot].queue[i] = G[g[ioroot] + i].val
  BY <1>6 DEF LoopsAt
<1>10. LoopsAt(V2, p2, G, M, g)'
  BY <1>3, <1>4, <1>7, <1>8, <1>9 DEF LoopsAt
<1> QED BY <1>10 DEF V2, p2

LEMMA NumbersStay ==
    ASSUME NEW V, NEW N, NEW p, Numbers(V, N, p), NEW c \in Component, NEW t \in Members(c),
           NEW W, NEW K, NEW j, W[K].all = V[c][N[c]].all,
           \A o \in Members(c) \ {t} : W[p[c][o]] = V[c][p[c][o]],
           t = ioroot => W[j].all = V[c][p[c][t]].all, next_id'[ioroot] = next_id[ioroot]
    PROVE  Numbers(Put(V, c, W), Put(N, c, K), Put(p, c, To(c, p[c], t, j)))'
<1> DEFINE V2 == Put(V, c, W)
           N2 == Put(N, c, K)
           p2 == Put(p, c, To(c, p[c], t, j))
<1>1. V2[c] = W /\ N2[c] = K /\ \A d \in Component \ {c} : V2[d] = V[d] /\ N2[d] = N[d]
  BY PutAt
<1>2. /\ p2[c][t] = j /\ \A o \in Members(c) \ {t} : p2[c][o] = p[c][o]
      /\ \A d \in Component \ {c} : p2[d] = p[d]
  BY PutAt, ToAt
<1> HIDE DEF V2, N2, p2
<1>3. ASSUME NEW d \in Component PROVE V2[d][N2[d]].all = V[d][N[d]].all
  BY <1>1
<1>4. ASSUME NEW d \in Component PROVE V2[d][p2[d][ioroot]].all = V[d][p[d][ioroot]].all
  <2>1. CASE d # c
    BY <1>1, <1>2, <2>1
  <2>2. CASE d = c /\ t # ioroot
    <3>1. ioroot \in Members(c)
      BY TaskKinds
    <3> QED BY <1>1, <1>2, <2>2, <3>1
  <2>3. CASE d = c /\ t = ioroot
    BY <1>1, <1>2, <2>3
  <2> QED BY <2>1, <2>2, <2>3
<1>5. Numbers(V2, N2, p2)'
  BY <1>3, <1>4 DEF Numbers
<1> QED BY <1>5 DEF V2, N2, p2

\* Task t of component c goes on to state j of the log, which may have got longer.
LEMMA Progress ==
    ASSUME NEW V, NEW N, NEW p, NEW G, NEW M, NEW g, Explained(V, N, p, G, M, g), Shaped',
           NEW c \in Component, NEW t \in Members(c), Others(t), Elsewhere(c), Apart(c, t, V, N, p)',
           NEW W, NEW K, Grown(c, V[c], N[c], W, K), NEW j \in 1..K,
           Boxed(c, W, K, p[c], t, j)', \A o \in CompTask(c) \ {t} : pending'[o] = pending[o],
           Holds(chan'[MsgLink(c)], W, K, G[M].served[c], "msg"),
           t \in CompTask(c) => CompAt(t, c, W[j])',
           t \in IOTask => /\ IOAt(t, c, W[j], W[K].n["begin"])'
                           /\ W[j].n["msg"] = V[c][p[c][t]].n["msg"]
                           /\ LoopAt(t, loop[t], G[g[t]].rem)' /\ loop'[t].queue = loop[t].queue,
           Numbers(Put(V, c, W), Put(N, c, K), Put(p, c, To(c, p[c], t, j)))'
    PROVE  \E V2, N2, p2 : Explained(V2, N2, p2, G, M, g)'
<1> DEFINE V2 == Put(V, c, W)
           N2 == Put(N, c, K)
           p2 == Put(p, c, To(c, p[c], t, j))
<1>1. /\ \A d \in Component : Follows(d, V[d], N[d], p[d])
      /\ LoopLog(V, N, G, M) /\ LoopsAt(V, p, G, M, g)
  BY DEF Explained
<1>2. \A d \in Component : LogOK(d, V[d], N[d])
  BY <1>1 DEF Follows
<1>3. \A o \in Members(c) \ {t} : W[p[c][o]] = V[c][p[c][o]]
  <2>1. \A o \in Members(c) : p[c][o] \in 1..N[c]
    BY <1>1 DEF Follows, TasksAt
  <2> QED BY <2>1 DEF Grown, Longer
<1>4. LoopLog(V2, N2, G, M)'
  BY <1>1, <1>2, LoopLogStays DEF Grown
<1>5. LoopsAt(V2, p2, G, M, g)'
  BY <1>1, <1>3, LoopsStay
<1>6. ASSUME NEW d \in Component PROVE Follows(d, V2[d], N2[d], p2[d])'
  <2>1. CASE d = c
    <3>1. V2[c] = W /\ N2[c] = K /\ p2[c] = To(c, p[c], t, j)
      BY PutAt
    <3>2. Follows(c, W, K, To(c, p[c], t, j))'
      BY <1>1, FollowsSelf
    <3> HIDE DEF V2, N2, p2
    <3> QED BY <2>1, <3>1, <3>2
  <2>2. CASE d # c
    <3>1. V2[d] = V[d] /\ N2[d] = N[d] /\ p2[d] = p[d]
      BY <2>2, PutAt
    <3>2. pending' = [o \in CompTasks |-> pending'[o]]
      BY DEF Shaped
    <3>3. Follows(d, V[d], N[d], p[d])'
      BY <1>1, <2>2, <3>2, FollowsOther
    <3> HIDE DEF V2, N2, p2
    <3> QED BY <3>1, <3>3
  <2> QED BY <2>1, <2>2
<1>7. Numbers(V2, N2, p2)'
  OBVIOUS
<1> HIDE DEF V2, N2, p2
<1>8. Explained(V2, N2, p2, G, M, g)'
  BY <1>4, <1>5, <1>6, <1>7 DEF Explained
<1> QED BY <1>8

-----------------------------------------------------------------------------
(***************************************************************************)
(* What is on its way after a broadcast has been sent or received.         *)
(***************************************************************************)
Taken(c, t, kd) ==
    /\ \A k \in Kinds : \A o \in Readers(c, k) :
           Box(o, c, k)' = IF o = t /\ k = kd THEN Tail(Box(o, c, k)) ELSE Box(o, c, k)
    /\ chan'[MsgLink(c)] = chan[MsgLink(c)]
    /\ Elsewhere(c)

Sent(c, t, kd, item) ==
    /\ \A k \in Kinds : \A o \in Readers(c, k) :
           Box(o, c, k)' = IF o # t /\ k = kd THEN Append(Box(o, c, k), item) ELSE Box(o, c, k)
    /\ chan'[MsgLink(c)] = IF kd = "msg" THEN Append(chan[MsgLink(c)], item) ELSE chan[MsgLink(c)]
    /\ Elsewhere(c)

LEMMA BoxedOld ==
    ASSUME NEW c \in Component, NEW V, NEW N, NEW p, Follows(c, V, N, p), NEW t \in Members(c), NEW j \in 1..N,
           NEW kd, Taken(c, t, kd),
           \A k \in Kinds : t \in Readers(c, k) => V[j].n[k] = V[p[t]].n[k] + (IF k = kd THEN 1 ELSE 0),
           kd \in Kinds /\ t \in Readers(c, kd) => V[j].kind = kd
    PROVE  Boxed(c, V, N, p, t, j)'
<1>1. LogOK(c, V, N) /\ Boxes(c, V, N, p) /\ p[t] \in 1..N
  BY DEF Follows, TasksAt
<1>2. ASSUME NEW k \in Kinds, NEW o \in Readers(c, k)
      PROVE  Holds(Box(o, c, k)', V, N, V[IF o = t THEN j ELSE p[o]].n[k], k)
  <2>1. Holds(Box(o, c, k), V, N, V[p[o]].n[k], k)
    BY <1>1 DEF Boxes
  <2>2. CASE o # t
    <3>1. Box(o, c, k)' = Box(o, c, k)
      BY <2>2 DEF Taken
    <3> QED BY <2>1, <2>2, <3>1
  <2>3. CASE o = t
    <3>0. V[p[t]].n[k] \in Nat
      BY <1>1, LogAt
    <3>1. CASE k # kd
      <4>1. V[j].n[k] = V[p[t]].n[k]
        BY <2>3, <3>0, <3>1
      <4>2. Box(o, c, k)' = Box(o, c, k)
        BY <3>1 DEF Taken
      <4> QED BY <2>1, <2>3, <4>1, <4>2
    <3>2. CASE k = kd
      <4>1. V[j].n[k] = V[p[t]].n[k] + 1 /\ V[j].kind = k
        BY <2>3, <3>2
      <4>2. Box(o, c, k)' = Tail(Box(o, c, k))
        BY <2>3, <3>2 DEF Taken
      <4>3. Holds(Tail(Box(o, c, k)), V, N, V[p[t]].n[k] + 1, k)
        BY <1>1, <2>1, <2>3, <3>0, <4>1, HoldsTaken
      <4> QED BY <2>3, <4>1, <4>2, <4>3
    <3> QED BY <3>1, <3>2
  <2> QED BY <2>2, <2>3
<1> QED BY <1>2 DEF Boxed

LEMMA BoxedNew ==
    ASSUME CallsAgree, NEW c \in Component, NEW V, NEW N, NEW p, Follows(c, V, N, p), NEW t \in Members(c), p[t] = N,
           NEW w, VStep(c, V[N], w), Sent(c, t, w.kind, w.item)
    PROVE  Boxed(c, Ext(V, N, w), N + 1, p, t, N + 1)'
<1> DEFINE W == Ext(V, N, w)
<1>1. LogOK(c, V, N) /\ Boxes(c, V, N, p) /\ \A o \in Members(c) : p[o] \in 1..N
  BY DEF Follows, TasksAt
<1>2. N \in Nat /\ W[N + 1] = w /\ (\A i \in 1..N : W[i] = V[i])
  BY <1>1, ExtAt, LogAt
<1>3. LogOK(c, W, N + 1)
  BY <1>1, LogGrows
<1>4. ASSUME NEW k \in Kinds, NEW o \in Readers(c, k)
      PROVE  Holds(Box(o, c, k)', W, N + 1, W[IF o = t THEN N + 1 ELSE p[o]].n[k], k)
  <2>1. Holds(Box(o, c, k), V, N, V[p[o]].n[k], k) /\ o \in Members(c)
    BY <1>1, ReadersIn DEF Boxes
  <2>2. V[p[o]].n[k] \in Nat /\ V[p[o]].n[k] <= V[N].n[k]
    BY <1>1, <2>1, LogAt
  <2>3. CASE o = t
    <3>1. Box(o, c, k)' = Box(o, c, k)
      BY <2>3 DEF Sent
    <3>2. Box(o, c, k) = <<>>
      BY <1>1, <2>1, <2>2, <2>3, HoldsLen
    <3>3. Holds(<<>>, W, N + 1, W[N + 1].n[k], k)
      BY <1>3, HoldsNothing
    <3> HIDE DEF W
    <3> QED BY <2>3, <3>1, <3>2, <3>3
  <2>4. CASE o # t
    <3>1. W[p[o]] = V[p[o]]
      BY <1>1, <1>2, <2>1
    <3>2. CASE k = w.kind
      <4>1. Box(o, c, k)' = Append(Box(o, c, k), w.item)
        BY <2>4, <3>2 DEF Sent
      <4>2. Holds(Append(Box(o, c, k), w.item), W, N + 1, V[p[o]].n[k], k)
        BY <1>1, <2>1, <2>2, <3>2, HoldsGrows
      <4> HIDE DEF W
      <4> QED BY <2>4, <3>1, <4>1, <4>2
    <3>3. CASE k # w.kind
      <4>1. Box(o, c, k)' = Box(o, c, k)
        BY <2>4, <3>3 DEF Sent
      <4>2. Holds(Box(o, c, k), W, N + 1, V[p[o]].n[k], k)
        BY <1>1, <2>1, <2>2, <3>3, HoldsGrows
      <4> HIDE DEF W
      <4> QED BY <2>4, <3>1, <4>1, <4>2
    <3> QED BY <3>2, <3>3
  <2> QED BY <2>3, <2>4
<1> HIDE DEF W
<1>5. Boxed(c, W, N + 1, p, t, N + 1)'
  BY <1>4 DEF Boxed
<1> QED BY <1>5 DEF W

LEMMA MessagesKept ==
    ASSUME NEW c, NEW V, NEW N, LogOK(c, V, N), NEW w, VStep(c, V[N], w), NEW m \in Nat, NEW t,
           Holds(chan[MsgLink(c)], V, N, m, "msg"), Sent(c, t, w.kind, w.item)
    PROVE  Holds(chan'[MsgLink(c)], Ext(V, N, w), N + 1, m, "msg")
<1>1. m <= V[N].n["msg"]
  BY HoldsLen DEF Kinds
<1>2. /\ w.kind # "msg" => Holds(chan[MsgLink(c)], Ext(V, N, w), N + 1, m, "msg")
      /\ w.kind = "msg" => Holds(Append(chan[MsgLink(c)], w.item), Ext(V, N, w), N + 1, m, "msg")
  BY <1>1, HoldsGrows DEF Kinds
<1> QED BY <1>2 DEF Sent

\* The task's new state: the same for a step that is in the log and one that is new.
Arrived(t, c, v, w, b) ==
    /\ t \in CompTask(c) => CompAt(t, c, w)'
    /\ t \in IOTask => IOAt(t, c, w, b)' /\ w.n["msg"] = v.n["msg"]

Stays(t, r) == t \in IOTask => LoopAt(t, loop[t], r)' /\ loop'[t].queue = loop[t].queue

LEMMA GoOld ==
    ASSUME NEW V, NEW N, NEW p, NEW G, NEW M, NEW g, Explained(V, N, p, G, M, g), Shaped',
           NEW c \in Component, NEW t \in Members(c), Others(t), Apart(c, t, V, N, p)',
           \A o \in CompTask(c) \ {t} : pending'[o] = pending[o],
           NEW j \in 1..N[c], NEW kd, Taken(c, t, kd),
           \A k \in Kinds : t \in Readers(c, k) =>
                V[c][j].n[k] = V[c][p[c][t]].n[k] + (IF k = kd THEN 1 ELSE 0),
           kd \in Kinds /\ t \in Readers(c, kd) => V[c][j].kind = kd,
           Arrived(t, c, V[c][p[c][t]], V[c][j], V[c][N[c]].n["begin"]), Stays(t, G[g[t]].rem),
           Numbers(Put(V, c, V[c]), Put(N, c, N[c]), Put(p, c, To(c, p[c], t, j)))'
    PROVE  \E V2, N2, p2 : Explained(V2, N2, p2, G, M, g)'
<1>1. Follows(c, V[c], N[c], p[c]) /\ LogOK(c, V[c], N[c]) /\ LoopLog(V, N, G, M)
  BY DEF Explained, Follows
<1>2. Boxed(c, V[c], N[c], p[c], t, j)'
  BY <1>1, BoxedOld
<1>3. Grown(c, V[c], N[c], V[c], N[c])
  BY <1>1, LogAt DEF Grown, Longer
<1>4. Holds(chan'[MsgLink(c)], V[c], N[c], G[M].served[c], "msg")
  BY <1>1 DEF LoopLog, Taken
<1>5. Elsewhere(c)
  BY DEF Taken
<1>6. /\ t \in CompTask(c) => CompAt(t, c, V[c][j])'
      /\ t \in IOTask => /\ IOAt(t, c, V[c][j], V[c][N[c]].n["begin"])'
                         /\ V[c][j].n["msg"] = V[c][p[c][t]].n["msg"]
                         /\ LoopAt(t, loop[t], G[g[t]].rem)' /\ loop'[t].queue = loop[t].queue
  BY DEF Arrived, Stays
<1> QED BY <1>2, <1>3, <1>4, <1>5, <1>6, Progress

LEMMA GoNew ==
    ASSUME CallsAgree, NEW V, NEW N, NEW p, NEW G, NEW M, NEW g, Explained(V, N, p, G, M, g), Shaped',
           NEW c \in Component, NEW t \in Members(c), Others(t), Apart(c, t, V, N, p)',
           \A o \in CompTask(c) \ {t} : pending'[o] = pending[o],
           p[c][t] = N[c], NEW w, VStep(c, V[c][N[c]], w), w.kind # "begin", Sent(c, t, w.kind, w.item),
           Arrived(t, c, V[c][p[c][t]], w, w.n["begin"]), Stays(t, G[g[t]].rem),
           LET K == N[c] + 1
               W == Ext(V[c], N[c], w)
           IN  Numbers(Put(V, c, W), Put(N, c, K), Put(p, c, To(c, p[c], t, K)))'
    PROVE  \E V2, N2, p2 : Explained(V2, N2, p2, G, M, g)'
<1> DEFINE K == N[c] + 1
           W == Ext(V[c], N[c], w)
<1>1. Follows(c, V[c], N[c], p[c]) /\ LogOK(c, V[c], N[c]) /\ LoopLog(V, N, G, M)
  BY DEF Explained, Follows
<1>2. N[c] \in Nat /\ N[c] \in 1..N[c] /\ OK(c, V[c][N[c]])
  BY <1>1, LogAt
<1>3. W[K] = w /\ \A i \in 1..N[c] : W[i] = V[c][i]
  BY <1>2, ExtAt
<1>4. LogOK(c, W, K)
  BY <1>1, LogGrows
<1>5. Boxed(c, W, K, p[c], t, K)'
  BY <1>1, BoxedNew
<1>6. Holds(chan'[MsgLink(c)], W, K, G[M].served[c], "msg")
  <2>1. G[M].served[c] \in Nat /\ Holds(chan[MsgLink(c)], V[c], N[c], G[M].served[c], "msg")
    BY <1>1 DEF LoopLog
  <2> QED BY <1>1, <2>1, MessagesKept
<1>7. Numbers(Put(V, c, W), Put(N, c, K), Put(p, c, To(c, p[c], t, K)))'
  OBVIOUS
<1>8. w.n["begin"] = V[c][N[c]].n["begin"]
  BY <1>2, StepCounts DEF Kinds
<1>9. K \in 1..K /\ N[c] <= K
  BY <1>2
<1> HIDE DEF W, K
<1>10. Grown(c, V[c], N[c], W, K)
  BY <1>3, <1>4, <1>8, <1>9 DEF Grown, Longer
<1>11. Elsewhere(c)
  BY DEF Sent
<1>12. /\ t \in CompTask(c) => CompAt(t, c, W[K])'
       /\ t \in IOTask => /\ IOAt(t, c, W[K], W[K].n["begin"])'
                          /\ W[K].n["msg"] = V[c][p[c][t]].n["msg"]
                          /\ LoopAt(t, loop[t], G[g[t]].rem)' /\ loop'[t].queue = loop[t].queue
  BY <1>3 DEF Arrived, Stays
<1> QED BY <1>5, <1>6, <1>7, <1>9, <1>10, <1>11, <1>12, Progress

LEMMA LinksAre ==
    ASSUME NEW c \in Component
    PROVE  /\ MsgLink(c) \in Links
           /\ \A o \in IOTask : <<"inter", c, o>> \in Links
           /\ \A o \in Members(c) : o # comproot(c) => <<"comp", c, o>> \in Links
           /\ \A o \in Members(c) : o # ioroot => <<"io", c, o>> \in Links
           /\ LoopLinks \subseteq Links
           /\ CompLinks(c) \subseteq Links /\ IOLinks(c) \subseteq Links /\ InterLinks(c) \subseteq Links
BY DEF Links, LinksOf, MsgLink, InterLinks, CompLinks, IOLinks

LEMMA BoxIs ==
    /\ \A o, c : Box(o, c, "begin") = pending[o]
    /\ \A o, c : Box(o, c, "msg") = <<>>
    /\ \A o, c : Box(o, c, "arg") = IF o \in IOTask THEN chan[<<"inter", c, o>>] ELSE <<>>
    /\ \A o, c : Box(o, c, "comp") = IF o # comproot(c) THEN chan[<<"comp", c, o>>] ELSE <<>>
    /\ \A o, c : Box(o, c, "io") = IF o # ioroot THEN chan[<<"io", c, o>>] ELSE <<>>
BY DEF Box

LEMMA BoxWillBe ==
    /\ \A o, c : Box(o, c, "begin")' = pending'[o]
    /\ \A o, c : Box(o, c, "msg")' = <<>>
    /\ \A o, c : Box(o, c, "arg")' = IF o \in IOTask THEN chan'[<<"inter", c, o>>] ELSE <<>>
    /\ \A o, c : Box(o, c, "comp")' = IF o # comproot(c) THEN chan'[<<"comp", c, o>>] ELSE <<>>
    /\ \A o, c : Box(o, c, "io")' = IF o # ioroot THEN chan'[<<"io", c, o>>] ELSE <<>>
BY DEF Box

LEMMA NoneMoved ==
    ASSUME chan' = chan, pending' = pending
    PROVE  \A c, t : Taken(c, t, "none") /\ \A item : Sent(c, t, "none", item)
<1>1. \A o, c : \A k \in Kinds : Box(o, c, k)' = Box(o, c, k)
  BY DEF Box
<1>2. "none" \notin Kinds
  BY DEF Kinds
<1> QED BY <1>1, <1>2 DEF Taken, Sent, Elsewhere

LEMMA OneTaken ==
    ASSUME Shaped, NEW c \in Component, NEW t \in Members(c), NEW k, pending' = pending,
           \/ k = "comp" /\ t # comproot(c) /\ chan' = [chan EXCEPT ![<<"comp", c, t>>] = Tail(@)]
           \/ k = "io" /\ t # ioroot /\ chan' = [chan EXCEPT ![<<"io", c, t>>] = Tail(@)]
           \/ k = "arg" /\ t \in IOTask /\ chan' = [chan EXCEPT ![<<"inter", c, t>>] = Tail(@)]
    PROVE  Taken(c, t, k)
<1> DEFINE l == <<IF k = "arg" THEN "inter" ELSE k, c, t>>
<1>1. l \in Links /\ chan' = [chan EXCEPT ![l] = Tail(chan[l])] /\ chan = [x \in Links |-> chan[x]]
  BY LinksAre DEF Shaped
<1>2. chan'[l] = Tail(chan[l]) /\ \A x \in Links : x # l => chan'[x] = chan[x]
  BY <1>1
<1>3. ASSUME NEW d \in Component, NEW y \in Kinds, NEW o \in Readers(d, y)
      PROVE  Box(o, d, y)' = IF o = t /\ y = k /\ d = c THEN Tail(Box(o, d, y)) ELSE Box(o, d, y)
  <2>0. o \in Members(d) /\ k \in {"comp", "io", "arg"}
    BY ReadersIn
  <2>1. CASE y = "begin" \/ y = "msg"
    BY <2>0, <2>1, BoxIs, BoxWillBe
  <2>2. CASE y = "arg" /\ o \in IOTask
    <3>1. <<"inter", d, o>> \in Links /\ (<<"inter", d, o>> = l <=> o = t /\ y = k /\ d = c)
      BY <2>0, <2>2, LinksAre
    <3>2. Box(o, d, y) = chan[<<"inter", d, o>>] /\ Box(o, d, y)' = chan'[<<"inter", d, o>>]
      BY <2>2, BoxIs, BoxWillBe
    <3>3. chan'[<<"inter", d, o>>] = IF o = t /\ y = k /\ d = c THEN Tail(chan[<<"inter", d, o>>]) ELSE chan[<<"inter", d, o>>]
      BY <3>1, <1>2
    <3> QED BY <3>2, <3>3
  <2>3. CASE y = "arg" /\ o \notin IOTask
    <3>1. Box(o, d, y)' = <<>> /\ Box(o, d, y) = <<>> /\ ~(o = t /\ y = k /\ d = c)
      BY <2>3, BoxIs, BoxWillBe
    <3> QED BY <3>1
  <2>4. CASE y = "comp" /\ o # comproot(d)
    <3>1. <<"comp", d, o>> \in Links /\ (<<"comp", d, o>> = l <=> o = t /\ y = k /\ d = c)
      BY <2>0, <2>4, LinksAre
    <3>2. Box(o, d, y) = chan[<<"comp", d, o>>] /\ Box(o, d, y)' = chan'[<<"comp", d, o>>]
      BY <2>4, BoxIs, BoxWillBe
    <3>3. chan'[<<"comp", d, o>>] = IF o = t /\ y = k /\ d = c THEN Tail(chan[<<"comp", d, o>>]) ELSE chan[<<"comp", d, o>>]
      BY <3>1, <1>2
    <3> QED BY <3>2, <3>3
  <2>5. CASE y = "comp" /\ o = comproot(d)
    <3>1. Box(o, d, y)' = <<>> /\ Box(o, d, y) = <<>> /\ ~(o = t /\ y = k /\ d = c)
      BY <2>5, BoxIs, BoxWillBe
    <3> QED BY <3>1
  <2>6. CASE y = "io" /\ o # ioroot
    <3>1. <<"io", d, o>> \in Links /\ (<<"io", d, o>> = l <=> o = t /\ y = k /\ d = c)
      BY <2>0, <2>6, LinksAre
    <3>2. Box(o, d, y) = chan[<<"io", d, o>>] /\ Box(o, d, y)' = chan'[<<"io", d, o>>]
      BY <2>6, BoxIs, BoxWillBe
    <3>3. chan'[<<"io", d, o>>] = IF o = t /\ y = k /\ d = c THEN Tail(chan[<<"io", d, o>>]) ELSE chan[<<"io", d, o>>]
      BY <3>1, <1>2
    <3> QED BY <3>2, <3>3
  <2>7. CASE y = "io" /\ o = ioroot
    <3>1. Box(o, d, y)' = <<>> /\ Box(o, d, y) = <<>> /\ ~(o = t /\ y = k /\ d = c)
      BY <2>7, BoxIs, BoxWillBe
    <3> QED BY <3>1
  <2> QED BY <2>1, <2>2, <2>3, <2>4, <2>5, <2>6, <2>7 DEF Kinds
<1>4. \A d \in Component : chan'[MsgLink(d)] = chan[MsgLink(d)]
  <2>1. \A d \in Component : MsgLink(d) \in Links /\ MsgLink(d) # l
    <3>1. \A d \in Component : MsgLink(d) # l
      BY DEF MsgLink
    <3> QED BY <3>1, LinksAre
  <2> QED BY <1>2, <2>1
<1>5. \A x \in LoopLinks : chan'[x] = chan[x]
  <2>1. \A x \in LoopLinks : x \in Links /\ x # l
    <3>1. \A x \in LoopLinks : x # l
      BY DEF LoopLinks
    <3> QED BY <3>1, LinksAre
  <2> QED BY <1>2, <2>1
<1> HIDE DEF l
<1>6. Elsewhere(c)
  BY <1>3, <1>4, <1>5 DEF Elsewhere
<1> QED BY <1>3, <1>4, <1>6 DEF Taken

\* The paths of the broadcasts of kind k, and from whom.
LinksFor(c, k) ==
    CASE k = "msg" -> {MsgLink(c)} [] k = "arg" -> InterLinks(c) [] k = "comp" -> CompLinks(c) [] OTHER -> IOLinks(c)

Sender(c, k) == IF k = "io" THEN ioroot ELSE comproot(c)

LEMMA AllSent ==
    ASSUME Shaped, NEW c \in Component, NEW k \in Kinds \ {"begin"}, NEW item, pending' = pending,
           chan' = [l \in Links |-> IF l \in LinksFor(c, k) THEN Append(chan[l], item) ELSE chan[l]]
    PROVE  Sent(c, Sender(c, k), k, item)
<1> DEFINE t == Sender(c, k)
           L == LinksFor(c, k)
<1>0. k \in {"msg", "arg", "comp", "io"}
  BY DEF Kinds
<1>1. \A x \in Links : chan'[x] = IF x \in L THEN Append(chan[x], item) ELSE chan[x]
  OBVIOUS
<1>2. /\ \A d, o : <<"inter", d, o>> \in L <=> k = "arg" /\ d = c /\ o \in IOTask
      /\ \A d, o : <<"comp", d, o>> \in L <=> k = "comp" /\ d = c /\ o \in Members(c) \ {comproot(c)}
      /\ \A d, o : <<"io", d, o>> \in L <=> k = "io" /\ d = c /\ o \in Members(c) \ {ioroot}
      /\ \A d : MsgLink(d) \in L <=> k = "msg" /\ d = c
      /\ \A x \in LoopLinks : x \notin L
  <2>1. CASE k = "msg"
    <3>1. L = {<<"msg", c, ioroot>>}
      BY <2>1 DEF LinksFor, MsgLink
    <3> HIDE DEF L
    <3> QED BY <2>1, <3>1 DEF MsgLink, LoopLinks
  <2>2. CASE k = "arg"
    <3>1. L = {<<"inter", c, o>> : o \in IOTask}
      BY <2>2 DEF LinksFor, InterLinks
    <3> HIDE DEF L
    <3> QED BY <2>2, <3>1 DEF MsgLink, LoopLinks
  <2>3. CASE k = "comp"
    <3>1. L = {<<"comp", c, o>> : o \in Members(c) \ {comproot(c)}}
      BY <2>3 DEF LinksFor, CompLinks
    <3> HIDE DEF L
    <3> QED BY <2>3, <3>1 DEF MsgLink, LoopLinks
  <2>4. CASE k = "io"
    <3>1. L = {<<"io", c, o>> : o \in Members(c) \ {ioroot}}
      BY <2>4 DEF LinksFor, IOLinks
    <3> HIDE DEF L
    <3> QED BY <2>4, <3>1 DEF MsgLink, LoopLinks
  <2> QED BY <1>0, <2>1, <2>2, <2>3, <2>4
<1> HIDE DEF L
<1>3. ASSUME NEW d \in Component, NEW y \in Kinds, NEW o \in Readers(d, y)
      PROVE  Box(o, d, y)' = IF o # t /\ y = k /\ d = c THEN Append(Box(o, d, y), item) ELSE Box(o, d, y)
  <2>0. o \in Members(d)
    BY ReadersIn
  <2>1. CASE y = "begin"
    BY <1>0, <2>0, <2>1, BoxIs, BoxWillBe
  <2>2. CASE y = "msg"
    <3>1. o = comproot(d)
      BY <2>2 DEF Readers
    <3>2. k = "msg" => t = comproot(c)
      BY DEF Sender
    <3> HIDE DEF t
    <3> QED BY <2>2, <3>1, <3>2, BoxIs, BoxWillBe
  <2>3. CASE y = "arg" /\ o \in IOTask
    <3>1. <<"inter", d, o>> \in Links /\ (<<"inter", d, o>> \in L <=> y = k /\ d = c)
      BY <2>3, <1>2, LinksAre
    <3>2. y = k /\ d = c => o # t
      BY <2>3, TaskKinds DEF Sender
    <3> HIDE DEF t
    <3> QED BY <2>3, <3>1, <3>2, <1>1, BoxIs, BoxWillBe
  <2>4. CASE y = "arg" /\ o \notin IOTask
    <3>1. o = comproot(d)
      BY <2>4 DEF Readers
    <3>2. y = k /\ d = c => o = t
      BY <2>4, <3>1 DEF Sender
    <3>3. Box(o, d, y)' = <<>> /\ Box(o, d, y) = <<>>
      BY <2>4, BoxIs, BoxWillBe
    <3> HIDE DEF t
    <3> QED BY <3>2, <3>3
  <2>5. CASE y = "comp" /\ o # comproot(d)
    <3>1. <<"comp", d, o>> \in Links /\ (<<"comp", d, o>> \in L <=> y = k /\ d = c)
      BY <2>0, <2>5, <1>2, LinksAre
    <3>2. y = k /\ d = c => o # t
      BY <2>5 DEF Sender
    <3>3. Box(o, d, y) = chan[<<"comp", d, o>>] /\ Box(o, d, y)' = chan'[<<"comp", d, o>>]
      BY <2>5, BoxIs, BoxWillBe
    <3>4. chan'[<<"comp", d, o>>] = IF y = k /\ d = c THEN Append(chan[<<"comp", d, o>>], item) ELSE chan[<<"comp", d, o>>]
      BY <3>1, <1>1
    <3> HIDE DEF t
    <3> QED BY <3>2, <3>3, <3>4
  <2>6. CASE y = "comp" /\ o = comproot(d)
    <3>2. y = k /\ d = c => o = t
      BY <2>6 DEF Sender
    <3>3. Box(o, d, y)' = <<>> /\ Box(o, d, y) = <<>>
      BY <2>6, BoxIs, BoxWillBe
    <3> HIDE DEF t
    <3> QED BY <3>2, <3>3
  <2>7. CASE y = "io" /\ o # ioroot
    <3>1. <<"io", d, o>> \in Links /\ (<<"io", d, o>> \in L <=> y = k /\ d = c)
      BY <2>0, <2>7, <1>2, LinksAre
    <3>2. y = k /\ d = c => o # t
      BY <2>7 DEF Sender
    <3> HIDE DEF t
    <3> QED BY <2>7, <3>1, <3>2, <1>1, BoxIs, BoxWillBe
  <2>8. CASE y = "io" /\ o = ioroot
    <3>2. y = k /\ d = c => o = t
      BY <2>8 DEF Sender
    <3>3. Box(o, d, y)' = <<>> /\ Box(o, d, y) = <<>>
      BY <2>8, BoxIs, BoxWillBe
    <3> HIDE DEF t
    <3> QED BY <3>2, <3>3
  <2> QED BY <2>1, <2>2, <2>3, <2>4, <2>5, <2>6, <2>7, <2>8 DEF Kinds
<1> HIDE DEF t
<1>4. \A d \in Component : chan'[MsgLink(d)] = IF k = "msg" /\ d = c THEN Append(chan[MsgLink(d)], item) ELSE chan[MsgLink(d)]
  <2>1. \A d \in Component : MsgLink(d) \in Links
    BY LinksAre
  <2> QED BY <1>1, <1>2, <2>1
<1>5. \A x \in LoopLinks : chan'[x] = chan[x]
  <2>1. \A x \in LoopLinks : x \in Links
    BY LinksAre
  <2> QED BY <1>1, <1>2, <2>1
<1>6. Elsewhere(c)
  BY <1>3, <1>4, <1>5 DEF Elsewhere
<1>7. Sent(c, t, k, item)
  BY <1>3, <1>4, <1>6 DEF Sent
<1> QED BY <1>7 DEF t

-----------------------------------------------------------------------------
(***************************************************************************)
(* A task in a call, and the state of the log it has come to.              *)
(***************************************************************************)
Left(t, v)  == IF t \in IOTask THEN v.b ELSE v.a
ArgsAt(t, v) == IF t \in IOTask THEN v.io ELSE v.cur

View(t, c, v) ==
    /\ todo[t] = Left(t, v) /\ ierr[t] = v.ierr /\ cur[t] = ArgsAt(t, v)
    /\ {e \in tables[t] : e.c = c} = v.tbl /\ (t \notin IOTask => tables[t] = v.tbl)
    /\ made[t][c] = v.made /\ eh[t][c] = v.eh /\ (c \in open[t] <=> v.open) /\ Tokens(t, v)
    /\ t \in IOTask => v.ph # "args"
    /\ t \notin IOTask /\ t # comproot(c) => v.ph = "in"

\* It has gone on to what follows a message it does not send.
Ahead1(t, c, v) == t \notin IOTask /\ t # comproot(c) /\ At1(v, {"message"}) /\ PastArgs(todo[t], v.a)

LEMMA Acting ==
    ASSUME NEW V, NEW N, NEW p, NEW G, NEW M, NEW g, Explained(V, N, p, G, M, g), NEW t \in Task, todo[t] # <<>>
    PROVE  LET c == CompOf(t)
               v == V[c][p[c][t]]
           IN  /\ c \in Component /\ t \in Members(c) /\ p[c][t] \in 1..N[c] /\ OK(c, v)
               /\ LogOK(c, V[c], N[c]) /\ Follows(c, V[c], N[c], p[c])
               /\ t \in IOTask => /\ loop[t].c = c /\ loop[t].at = "call" /\ LoopAt(t, loop[t], G[g[t]].rem)
                                  /\ \A d \in Component : IOAt(t, d, V[d][p[d][t]], V[d][N[d]].n["begin"])
               /\ t \notin IOTask => t \in CompTask(c) /\ t \in CompTasks /\ CompAt(t, c, v) /\ t[1] = c
               /\ View(t, c, v) \/ Ahead1(t, c, v)
<1> DEFINE c == CompOf(t)
           v == V[c][p[c][t]]
<1>1. t \in IOTask => loop[t].c = c /\ loop[t].at = "call" /\ LoopAt(t, loop[t], G[g[t]].rem) /\ c \in Component
  <2> SUFFICES ASSUME t \in IOTask PROVE loop[t].c = c /\ loop[t].at = "call" /\ LoopAt(t, loop[t], G[g[t]].rem) /\ c \in Component
    OBVIOUS
  <2>1. LoopAt(t, loop[t], G[g[t]].rem)
    BY DEF Explained, LoopsAt
  <2>2. loop[t].at = "call" /\ loop[t].c \in Component
    BY <2>1 DEF LoopAt
  <2> QED BY <2>1, <2>2 DEF CompOf
<1>2. t \notin IOTask => t \in CompTask(c) /\ t \in CompTasks /\ t[1] = c /\ c \in Component
  <2> SUFFICES ASSUME t \notin IOTask PROVE t \in CompTask(c) /\ t \in CompTasks /\ t[1] = c /\ c \in Component
    OBVIOUS
  <2>1. t \in CompTask(t[1]) /\ t[1] \in Component /\ c = t[1]
    BY TaskKinds DEF CompOf
  <2> QED BY <2>1, TaskKinds
<1>3. c \in Component /\ t \in Members(c)
  BY <1>1, <1>2, TaskKinds DEF Members
<1> HIDE DEF c
<1>4. Follows(c, V[c], N[c], p[c]) /\ LogOK(c, V[c], N[c]) /\ TasksAt(c, V[c], N[c], p[c])
  BY <1>3 DEF Explained, Follows
<1>5. p[c][t] \in 1..N[c]
  BY <1>3, <1>4 DEF TasksAt
<1>6. OK(c, v)
  BY <1>4, <1>5, LogAt
<1>7. t \notin IOTask => CompAt(t, c, v)
  BY <1>2, <1>4 DEF TasksAt
<1>8. t \in IOTask => \A d \in Component : IOAt(t, d, V[d][p[d][t]], V[d][N[d]].n["begin"])
  BY DEF Explained, Follows, TasksAt
<1>9. View(t, c, v) \/ Ahead1(t, c, v)
  <2> HIDE DEF v
  <2>1. CASE t \in IOTask
    <3>1. IOAt(t, c, v, V[c][N[c]].n["begin"]) /\ Serves(t, c)
      BY <1>1, <1>3, <1>8, <2>1 DEF Serves, v
    <3> QED BY <1>1, <2>1, <3>1 DEF IOAt, View, Left, ArgsAt
  <2>2. CASE t \notin IOTask
    <3>1. CompAt(t, c, v)
      BY <1>7, <2>2
    <3>2. \A e \in v.tbl : e.c = c
      BY <1>6 DEF OK, Listed
    <3>3. {e \in tables[t] : e.c = c} = v.tbl
      BY <3>1, <3>2 DEF CompAt
    <3> QED BY <2>2, <3>1, <3>3 DEF CompAt, View, Ahead1, Left, ArgsAt
  <2> QED BY <2>1, <2>2
<1> QED BY <1>1, <1>2, <1>3, <1>4, <1>5, <1>6, <1>7, <1>8, <1>9 DEF c

LEMMA ViewOut ==
    ASSUME NEW t, NEW c, NEW w, View(t, c, w)',
           t \in IOTask => loop'[t] = loop[t] /\ loop[t].c = c /\ loop[t].at = "call"
    PROVE  /\ t \in CompTask(c) /\ t \notin IOTask => CompAt(t, c, w)'
           /\ t \in IOTask => \A b : IOAt(t, c, w, b)'
<1>1. t \in CompTask(c) /\ t \notin IOTask => CompAt(t, c, w)'
  BY DEF View, CompAt, Left, ArgsAt
<1>2. ASSUME t \in IOTask, NEW b PROVE IOAt(t, c, w, b)'
  <2>1. Serves(t, c)' /\ loop'[t].at # "handler"
    BY <1>2 DEF Serves
  <2>2. Left(t, w) = w.b /\ ArgsAt(t, w) = w.io
    BY <1>2 DEF Left, ArgsAt
  <2> QED BY <1>2, <2>1, <2>2 DEF View, IOAt
<1> QED BY <1>1, <1>2

LEMMA ViewStep ==
    ASSUME NEW t, NEW c, NEW v, OK(c, v), View(t, c, v), todo[t] # <<>>
    PROVE  /\ v.a # <<>> /\ Sq(v.a) /\ Sq(v.b) /\ v.a[1].do = Step(t).do
           /\ t \notin IOTask => Step(t) = v.a[1]
           /\ t \in IOTask => v.b # <<>> /\ Step(t) = v.b[1] /\ Same(v.a[1], v.b[1])
           /\ Step(t).do \in FromComp \cup {"answer", "next_id", "effect"} => Step(t).x = v.a[1].x
           /\ Sq(todo[t]) /\ Step(t) = todo[t][1] /\ Sq(Tail(todo[t]))
<1>1. Sq(v.a) /\ Sq(v.b)
  BY DEF OK, Shape
<1>2. todo[t] = Left(t, v) /\ Sq(todo[t])
  BY <1>1 DEF View, Left
<1>3. Step(t) = todo[t][1] /\ Sq(Tail(todo[t]))
  BY <1>2, SqTail DEF Step
<1>4. CASE t \in IOTask
  <2>1. todo[t] = v.b /\ v.b # <<>> /\ v.ph # "args"
    BY <1>2, <1>4 DEF View, Left
  <2>2. Covers(v.a, v.b)
    BY <2>1 DEF OK, Shape, Phase
  <2>3. v.a # <<>> /\ Same(v.a[1], v.b[1])
    BY <1>1, <2>1, <2>2, CoversTail
  <2> QED BY <1>1, <1>2, <1>3, <1>4, <2>1, <2>3 DEF Same
<1>5. CASE t \notin IOTask
  BY <1>1, <1>2, <1>3, <1>5 DEF Left
<1> QED BY <1>4, <1>5

\* What such a task comes to is a share.
LEMMA AheadAt ==
    ASSUME NEW t, NEW c, NEW v, OK(c, v), Ahead1(t, c, v)
    PROVE  /\ Sq(todo[t]) /\ todo[t] # <<>> /\ Step(t) = todo[t][1] /\ Step(t).do = "share"
           /\ v.a # <<>> /\ v.a[1].do = "message" /\ Sq(v.a)
<1>1. Sq(v.a) /\ v.a # <<>> /\ v.a[1].do = "message" /\ Len(v.a) \in Nat /\ Len(v.a) > 0
  BY SqDomain DEF OK, Shape, Ahead1, At1
<1>2. PICK d \in 1..(Len(v.a) - 1) : /\ todo[t] = SubSeq(v.a, d + 1, Len(v.a))
                                     /\ \A i \in 1..d : v.a[i].do \in {"message", "arg"}
                                     /\ v.a[d + 1].do \notin {"message", "arg"}
  BY DEF Ahead1, PastArgs
<1> DEFINE m == Len(v.a)
           s == SubSeq(v.a, d + 1, m)
           T == Tail(v.a)
<1>3. m \in Nat /\ m > 0 /\ d \in 0..m /\ d \in Nat /\ d >= 1 /\ d + 1 <= m
  BY <1>1
<1>4. Sq(s) /\ Len(s) = m - d /\ \A i \in 1..(m - d) : s[i] = v.a[d + i]
  BY <1>1, <1>3, SqDrop
<1>5. Texty(v.a, v.have) /\ 1 \in DOMAIN v.a
  BY <1>1, ToldText
<1>6. Understood(SubSeq(v.a, 1 + 1, Len(v.a)), v.a[1].x, {}, 0)
  BY <1>1, <1>5 DEF Texty, Fits
<1>7. Sq(T) /\ Len(T) = m - 1 /\ \A i \in 1..(m - 1) : T[i] = v.a[i + 1]
  BY <1>1, SqTail
<1>8. Understood(T, v.a[1].x, {}, 0)
  BY <1>1, <1>6, TailIs
<1> HIDE DEF m, s, T
<1>9. PICK n \in DOMAIN T : T[n].do = "share" /\ \A k \in 1..(n - 1) : T[k].do = "arg"
  BY <1>8 DEF Understood
<1>10. n \in 1..(m - 1)
  BY <1>7, <1>9, SqDomain
<1>11. v.a[n + 1].do = "share"
  BY <1>7, <1>9, <1>10
<1>12. n = d
  <2>1. CASE n < d
    <3>1. n + 1 \in 1..d
      BY <1>3, <1>10, <2>1
    <3> QED BY <1>2, <1>11, <3>1
  <2>2. CASE n > d
    <3>1. d \in 1..(n - 1) /\ d \in 1..(m - 1)
      BY <1>3, <1>10, <2>2
    <3>2. v.a[d + 1].do = "arg"
      BY <1>7, <1>9, <3>1
    <3> QED BY <1>2, <3>2
  <2> QED BY <1>3, <1>10, <2>1, <2>2
<1>13. s # <<>> /\ s[1] = v.a[d + 1]
  <2>1. Len(s) > 0 /\ 1 \in 1..(m - d)
    BY <1>3, <1>4
  <2> QED BY <1>4, <2>1, SqDomain
<1>14. todo[t] = s
  BY <1>2 DEF s, m
<1>15. Head(s) = s[1]
  BY <1>4, <1>13, SqTail
<1> QED BY <1>1, <1>4, <1>11, <1>12, <1>13, <1>14, <1>15 DEF Step

-----------------------------------------------------------------------------
(***************************************************************************)
(* Steps in which nothing is broadcast.                                    *)
(***************************************************************************)
\* What task t has of the other components stays.
Alien(t, c) ==
    \A d \in Component \ {c} :
        /\ {e \in tables'[t] : e.c = d} = {e \in tables[t] : e.c = d}
        /\ made'[t][d] = made[t][d] /\ eh'[t][d] = eh[t][d] /\ (d \in open'[t] <=> d \in open[t])

LEMMA ApartStays ==
    ASSUME NEW t, NEW c, t \in IOTask => loop'[t] = loop[t] /\ loop[t].c = c, t \in IOTask => Alien(t, c), NEW V, NEW N, NEW p,
           t \in IOTask => \A d \in Component : IOAt(t, d, V[d][p[d][t]], V[d][N[d]].n["begin"])
    PROVE  Apart(c, t, V, N, p)'
<1> SUFFICES ASSUME t \in IOTask, NEW d \in Component \ {c}
             PROVE  IOAt(t, d, V[d][p[d][t]], V[d][N[d]].n["begin"])'
  BY DEF Apart
<1> DEFINE v == V[d][p[d][t]]
           b == V[d][N[d]].n["begin"]
<1>1. IOAt(t, d, v, b)
  OBVIOUS
<1> HIDE DEF v, b
<1>2. ~Serves(t, d) /\ ~Serves(t, d)' /\ loop'[t].c # d
  BY DEF Serves
<1>3. IOAt(t, d, v, b)'
  BY <1>1, <1>2 DEF IOAt, Alien
<1> QED BY <1>3 DEF v, b

\* The log V of c when the task at its state i has taken a step.
OnTo(c, V, N, i, W, K) ==
    /\ VStep(c, V[i], W[i + 1])
    /\ \/ i # N /\ W = V /\ K = N
       \/ i = N /\ K = N + 1 /\ \E w : W = Ext(V, N, w)

LEMMA NumbersOn ==
    ASSUME NEW V, NEW N, NEW p, Numbers(V, N, p), NEW c \in Component, NEW t \in Members(c),
           LogOK(c, V[c], N[c]), \A o \in Members(c) : p[c][o] \in 1..N[c],
           NEW W, NEW K, OnTo(c, V[c], N[c], p[c][t], W, K),
           W[p[c][t] + 1].all = V[c][p[c][t]].all, next_id'[ioroot] = next_id[ioroot]
    PROVE  Numbers(Put(V, c, W), Put(N, c, K), Put(p, c, To(c, p[c], t, p[c][t] + 1)))'
<1> DEFINE j == p[c][t] + 1
<1>1. N[c] \in Nat
  BY LogAt
<1>2. CASE W = V[c] /\ K = N[c]
  <2>1. W[K].all = V[c][N[c]].all /\ W[j].all = V[c][p[c][t]].all /\ \A o \in Members(c) : W[p[c][o]] = V[c][p[c][o]]
    BY <1>2
  <2> HIDE DEF j
  <2>2. Numbers(Put(V, c, W), Put(N, c, K), Put(p, c, To(c, p[c], t, j)))'
    BY <2>1, NumbersStay
  <2> QED BY <2>2 DEF j
<1>3. CASE ~(W = V[c] /\ K = N[c])
  <2>1. PICK w : p[c][t] = N[c] /\ K = N[c] + 1 /\ W = Ext(V[c], N[c], w)
    BY <1>3 DEF OnTo
  <2>2. \A i \in 1..N[c] : W[i] = V[c][i]
    BY <1>1, <2>1, ExtAt
  <2>3. W[K].all = V[c][N[c]].all /\ W[j].all = V[c][p[c][t]].all /\ \A o \in Members(c) : W[p[c][o]] = V[c][p[c][o]]
    BY <2>1, <2>2
  <2> HIDE DEF j
  <2>4. Numbers(Put(V, c, W), Put(N, c, K), Put(p, c, To(c, p[c], t, j)))'
    BY <2>3, NumbersStay
  <2> QED BY <2>4 DEF j
<1> QED BY <1>2, <1>3

LEMMA Silent ==
    ASSUME CallsAgree, NEW V, NEW N, NEW p, NEW G, NEW M, NEW g, Explained(V, N, p, G, M, g), Shaped',
           NEW t \in Task, todo[t] # <<>>, NEW c, CompOf(t) = c, NEW v, V[c][p[c][t]] = v, View(t, c, v),
           Step(t).do \notin {"message", "arg"} \cup FromComp \cup FromIO,
           Others(t), chan' = chan, pending' = pending, loop' = loop, t \in IOTask => Alien(t, c),
           \A w : VStep(c, v, w) => View(t, c, w)', \E w : VStep(c, v, w),
           \A W, K : OnTo(c, V[c], N[c], p[c][t], W, K) =>
               Numbers(Put(V, c, W), Put(N, c, K), Put(p, c, To(c, p[c], t, p[c][t] + 1)))'
    PROVE  \E V2, N2, p2 : Explained(V2, N2, p2, G, M, g)'
<1> DEFINE i == p[c][t]
<1>1. /\ c \in Component /\ t \in Members(c) /\ i \in 1..N[c] /\ OK(c, v)
      /\ LogOK(c, V[c], N[c]) /\ Follows(c, V[c], N[c], p[c])
      /\ t \in IOTask => /\ loop[t].c = c /\ loop[t].at = "call" /\ LoopAt(t, loop[t], G[g[t]].rem)
                         /\ \A d \in Component : IOAt(t, d, V[d][p[d][t]], V[d][N[d]].n["begin"])
      /\ t \notin IOTask => t \in CompTask(c) /\ t \in CompTasks /\ CompAt(t, c, v) /\ t[1] = c
  BY Acting
<1>2. v.a # <<>> /\ v.a[1].do = Step(t).do
  BY <1>1, ViewStep
<1>3. ASSUME NEW w, VStep(c, v, w) PROVE w.kind = "none" /\ \A k \in Kinds : w.n[k] = v.n[k] + (IF k = "none" THEN 1 ELSE 0)
  <2>1. OwnStep(v, w) \/ HandleStep(v, w) \/ EndStep(v, w) \/ EffectStep(c, v, w)
    BY <1>2, <1>3 DEF VStep, BeginStep, MsgStep, ArgStep, ShareStep, AnswerStep, OutcomeStep, At1, FromIO
  <2>2. Counts(v, w, "none")
    BY <2>1 DEF OwnStep, HandleStep, EndStep, EffectStep
  <2> QED BY <2>2 DEF Counts
<1>4. Apart(c, t, V, N, p)'
  BY <1>1, ApartStays
<1>5. \A item : Taken(c, t, "none") /\ Sent(c, t, "none", item)
  BY NoneMoved
<1>6. \A w, b : VStep(c, v, w) => Arrived(t, c, v, w, b)
  <2> SUFFICES ASSUME NEW w, NEW b, VStep(c, v, w) PROVE Arrived(t, c, v, w, b)
    OBVIOUS
  <2>1. View(t, c, w)'
    OBVIOUS
  <2>2. /\ t \in CompTask(c) /\ t \notin IOTask => CompAt(t, c, w)'
        /\ t \in IOTask => IOAt(t, c, w, b)'
    BY <1>1, <2>1, ViewOut
  <2>3. t \in CompTask(c) => t \notin IOTask
    BY <1>1, TaskKinds
  <2>4. "msg" \in Kinds /\ v.n["msg"] \in Nat
    BY <1>1 DEF OK, Shape, Kinds
  <2>5. w.n["msg"] = v.n["msg"]
    BY <1>3, <2>4
  <2> QED BY <2>2, <2>3, <2>5 DEF Arrived
<1>7. Stays(t, G[g[t]].rem)
  BY <1>1 DEF Stays, LoopAt
<1>8. \A o \in CompTask(c) \ {t} : pending'[o] = pending[o]
  OBVIOUS
<1>9. CASE i # N[c]
  <2>1. i + 1 \in 1..N[c] /\ VStep(c, v, V[c][i + 1])
    BY <1>1, <1>9, LogAt
  <2>2. OnTo(c, V[c], N[c], i, V[c], N[c])
    BY <1>9, <2>1 DEF OnTo
  <2> DEFINE j == i + 1
  <2>3. Numbers(Put(V, c, V[c]), Put(N, c, N[c]), Put(p, c, To(c, p[c], t, j)))'
    BY <2>2
  <2> HIDE DEF j
  <2>4. j \in 1..N[c] /\ VStep(c, v, V[c][j])
    BY <2>1 DEF j
  <2>5. \A k \in Kinds : t \in Readers(c, k) => V[c][j].n[k] = V[c][p[c][t]].n[k] + (IF k = "none" THEN 1 ELSE 0)
    BY <1>3, <2>4
  <2>6. "none" \notin Kinds
    BY DEF Kinds
  <2>7. Arrived(t, c, V[c][p[c][t]], V[c][j], V[c][N[c]].n["begin"])
    BY <1>6, <2>4
  <2>8. c \in Component /\ t \in Members(c) /\ j \in 1..N[c]
    BY <1>1, <2>4
  <2>9. Taken(c, t, "none")
    BY <1>5
  <2> HIDE DEF i
  <2> QED BY <1>4, <1>7, <1>8, <2>3, <2>5, <2>6, <2>7, <2>8, <2>9, GoOld
<1>10. CASE i = N[c]
  <2>1. PICK w : VStep(c, v, w)
    OBVIOUS
  <2>2. N[c] \in Nat
    BY <1>1, LogAt
  <2> DEFINE K == N[c] + 1
             W == Ext(V[c], N[c], w)
  <2>3. W[K] = w
    BY <2>2, ExtAt
  <2>4. OnTo(c, V[c], N[c], i, W, K)
    BY <1>10, <2>1, <2>3 DEF OnTo
  <2> HIDE DEF W
  <2>5. Numbers(Put(V, c, W), Put(N, c, K), Put(p, c, To(c, p[c], t, K)))'
    BY <1>10, <2>4
  <2>6. w.kind = "none"
    BY <1>3, <2>1
  <2>7. Sent(c, t, w.kind, w.item)
    BY <1>5, <2>6
  <2>8. Arrived(t, c, V[c][p[c][t]], w, w.n["begin"])
    BY <1>6, <2>1
  <2>9. p[c][t] = N[c] /\ VStep(c, V[c][N[c]], w) /\ w.kind # "begin"
    BY <1>10, <2>1, <2>6
  <2> HIDE DEF i
  <2> QED BY <1>1, <1>4, <1>7, <1>8, <2>5, <2>7, <2>8, <2>9, GoNew DEF W, K
<1> QED BY <1>9, <1>10

-----------------------------------------------------------------------------
(***************************************************************************)
(* The first I/O task gives the numbers.                                   *)
(***************************************************************************)
LEMMA RootAt ==
    ASSUME NEW V, NEW N, NEW p, NEW G, NEW M, NEW g, Explained(V, N, p, G, M, g), NEW d \in Component
    PROVE  LET u == V[d][p[d][ioroot]]
           IN  /\ p[d][ioroot] \in 1..N[d] /\ OK(d, u) /\ Numbered(u, V[d][N[d]]) /\ u.n["io"] = V[d][N[d]].n["io"]
               /\ \A k \in {"file", "decomp"} :
                      NextId(k) \in u.have => /\ loop[ioroot].c = d
                                              /\ next_id[ioroot][k] = u.nid[k]
<1> DEFINE u == V[d][p[d][ioroot]]
<1>1. LogOK(d, V[d], N[d]) /\ Boxes(d, V[d], N[d], p[d]) /\ TasksAt(d, V[d], N[d], p[d])
  BY DEF Explained, Follows
<1>2. ioroot \in IOTask /\ ioroot \in Members(d)
  BY TaskKinds
<1>3. p[d][ioroot] \in 1..N[d] /\ IOAt(ioroot, d, u, V[d][N[d]].n["begin"])
  BY <1>1, <1>2 DEF TasksAt
<1>4. OK(d, u) /\ Numbered(u, V[d][N[d]])
  <2>1. OK(d, u) /\ R(u, V[d][N[d]])
    BY <1>1, <1>3, LogAt
  <2> QED BY <2>1 DEF R
<1>5. u.n["io"] = V[d][N[d]].n["io"]
  <2>1. "io" \in Kinds /\ ioroot \in Readers(d, "io")
    BY <1>2 DEF Kinds, Readers
  <2>2. Holds(Box(ioroot, d, "io"), V[d], N[d], u.n["io"], "io") /\ u.n["io"] \in Nat
    BY <1>1, <1>4, <2>1, Zenon DEF Boxes, OK, Shape
  <2>3. Box(ioroot, d, "io") = <<>>
    BY BoxIs
  <2> QED BY <1>1, <2>1, <2>2, <2>3, HoldsLen
<1> HIDE DEF u
<1>6. ASSUME NEW k \in {"file", "decomp"}, NextId(k) \in u.have PROVE loop[ioroot].c = d /\ next_id[ioroot][k] = u.nid[k]
  <2>1. NextId(k) \in NextIds
    BY Names
  <2>2. ~Idle(u) /\ u.ph = "in"
    BY <1>4, <1>6, <2>1 DEF OK, Knows
  <2>3. Serves(ioroot, d)
    BY <1>3, <2>2 DEF IOAt
  <2>4. loop[ioroot].at = "call"
    BY <1>3, <2>2, <2>3 DEF IOAt, Serves
  <2>5. Tokens(ioroot, u)
    BY <1>3, <2>3, <2>4 DEF IOAt
  <2> QED BY <1>6, <2>3, <2>5 DEF Tokens, Serves
<1> QED BY <1>3, <1>4, <1>5, <1>6 DEF u

\* All numbers that have been given.
LEMMA IdsKnown ==
    ASSUME NEW V, NEW N, NEW p, NEW G, NEW M, NEW g, Explained(V, N, p, G, M, g),
           NEW d \in Component, NEW e \in V[d][N[d]].all
    PROVE  /\ e.id \in Nat \ {0} /\ e.c = d /\ e.kind \in {"file", "decomp"} /\ e.id <= next_id[ioroot][e.kind]
           /\ loop[ioroot].c # d => e.id < next_id[ioroot][e.kind]
<1> DEFINE u == V[d][p[d][ioroot]]
<1>1. /\ OK(d, u) /\ Numbered(u, V[d][N[d]]) /\ u.n["io"] = V[d][N[d]].n["io"]
      /\ \A k \in {"file", "decomp"} : NextId(k) \in u.have => loop[ioroot].c = d /\ next_id[ioroot][k] = u.nid[k]
  BY RootAt
<1>2. \A k \in {"file", "decomp"} : next_id[ioroot][k] \in Nat \ {0}
  BY DEF Explained, Numbers
<1>3. \A f \in u.all : f.id \in Nat \ {0} /\ f.id < next_id[ioroot][f.kind]
  BY DEF Explained, Numbers
<1>4. e.c = d /\ e.kind \in {"file", "decomp"}
  <2>1. OK(d, V[d][N[d]])
    BY LogAt DEF Explained, Follows
  <2> QED BY <2>1 DEF OK, Listed
<1>5. e \in u.all \/ (NextId(e.kind) \in u.have /\ e.id = u.nid[e.kind])
  BY <1>1 DEF Numbered
<1> HIDE DEF u
<1>6. CASE e \in u.all
  BY <1>2, <1>3, <1>4, <1>6
<1>7. CASE NextId(e.kind) \in u.have /\ e.id = u.nid[e.kind]
  BY <1>1, <1>2, <1>4, <1>7
<1> QED BY <1>4, <1>5, <1>6, <1>7

\* A number is recorded first when nothing else goes by it.
LEMMA NumberIsNew ==
    ASSUME NEW V, NEW N, NEW p, NEW G, NEW M, NEW g, Explained(V, N, p, G, M, g), NEW c \in Component,
           NEW k \in {"file", "decomp"}, NextId(k) \in V[c][N[c]].have
    PROVE  /\ V[c][N[c]].nid[k] = next_id[ioroot][k] /\ next_id[ioroot][k] \in Nat \ {0}
           /\ \A d \in Component : \A f \in V[d][N[d]].all : f.kind = k => f.id \in Nat /\ f.id < next_id[ioroot][k]
<1> DEFINE u == V[c][p[c][ioroot]]
           v == V[c][N[c]]
<1>1. /\ OK(c, u) /\ Numbered(u, v) /\ u.n["io"] = v.n["io"]
      /\ NextId(k) \in u.have => loop[ioroot].c = c /\ next_id[ioroot][k] = u.nid[k]
  BY RootAt
<1>2. NextId(k) \in u.have /\ u.nid[k] = v.nid[k]
  BY <1>1 DEF Numbered
<1>3. next_id[ioroot][k] \in Nat \ {0}
  BY DEF Explained, Numbers
<1>4. ASSUME NEW d \in Component, NEW f \in V[d][N[d]].all, f.kind = k PROVE f.id \in Nat /\ f.id < next_id[ioroot][k]
  <2>1. CASE d = c
    <3>1. f \in u.all
      BY <1>1, <1>4, <2>1 DEF Numbered
    <3> QED BY <1>4, <3>1 DEF Explained, Numbers
  <2>2. CASE d # c
    <3>1. loop[ioroot].c # d
      BY <1>1, <1>2, <2>2
    <3>2. /\ f.id \in Nat \ {0}
          /\ loop[ioroot].c # d => f.id < next_id[ioroot][f.kind]
      BY <1>4, IdsKnown
    <3> QED BY <1>4, <3>1, <3>2
  <2> QED BY <2>1, <2>2
<1> QED BY <1>1, <1>2, <1>3, <1>4

-----------------------------------------------------------------------------
(***************************************************************************)
(* The steps that concern one task's own error code.                       *)
(***************************************************************************)
\* The state after v when a and b are left.
Moved(v, a, b, ierr1, kd, item, have, nid) ==
    [a |-> a, b |-> b, cur |-> v.cur, io |-> v.io, open |-> v.open, ph |-> "in",
     n |-> [x \in Kinds |-> v.n[x] + (IF x = kd THEN 1 ELSE 0)],
     msg |-> v.msg, f |-> v.f, got |-> v.got, kind |-> kd, item |-> item, ierr |-> ierr1,
     have |-> IF b = <<>> THEN {} ELSE have, nid |-> nid,
     tbl |-> v.tbl, all |-> v.all, made |-> v.made, eh |-> v.eh]

LEMMA MovedIs ==
    ASSUME NEW v, NEW a, NEW b, NEW ierr1, NEW kd, NEW item, NEW have, NEW nid
    PROVE  LET w == Moved(v, a, b, ierr1, kd, item, have, nid)
           IN  /\ w.a = a /\ w.b = b /\ w.ierr = ierr1 /\ w.item = item /\ w.io = v.io /\ w.nid = nid
               /\ Counts(v, w, kd) /\ InCall(v, w, have) /\ Keeps(v, w)
BY DEF Moved, Counts, InCall, Keeps

\* Which step it is is told by what comes first.
LEMMA StepIs ==
    ASSUME NEW c, NEW v, NEW w, VStep(c, v, w), v.a # <<>>
    PROVE  /\ v.a[1].do = "own" => OwnStep(v, w)
           /\ v.a[1].do \in {"check", "check_filter", "check_default", "pio_err"} => HandleStep(v, w)
           /\ v.a[1].do \in {"forget", "reject", "fail"} => EndStep(v, w)
           /\ v.a[1].do = "effect" => EffectStep(c, v, w)
           /\ v.a[1].do = "message" => MsgStep(v, w)
           /\ v.a[1].do = "arg" => ArgStep(v, w)
           /\ v.a[1].do \in FromComp => ShareStep(v, w)
           /\ v.a[1].do \in {"answer", "status", "next_id"} => AnswerStep(v, w)
           /\ v.a[1].do = "outcome" => OutcomeStep(v, w)
BY DEF VStep, BeginStep, MsgStep, ArgStep, ShareStep, AnswerStep, OutcomeStep, OwnStep, HandleStep, EndStep,
       EffectStep, At1, FromComp

LEMMA ViewKept ==
    ASSUME NEW t, NEW c, NEW v, NEW w, View(t, c, v), Keeps(v, w), w.io = v.io, w.ph = "in",
           \A k \in {"file", "decomp"} : NextId(k) \in w.have => next_id'[t][k] = w.nid[k],
           todo'[t] = Left(t, w), ierr'[t] = w.ierr, cur' = cur, tables' = tables, made' = made, eh' = eh, open' = open
    PROVE  View(t, c, w)'
<1>1. ArgsAt(t, w) = ArgsAt(t, v)
  BY DEF ArgsAt, Keeps
<1> QED BY <1>1 DEF View, Keeps, Tokens, Left, ArgsAt

LEMMA ViewQuiet ==
    ASSUME NEW t, NEW c, NEW v, NEW w, NEW have, View(t, c, v), Keeps(v, w), w.io = v.io, w.nid = v.nid, InCall(v, w, have),
           have \subseteq v.have, next_id' = next_id,
           todo'[t] = Left(t, w), ierr'[t] = w.ierr, cur' = cur, tables' = tables, made' = made, eh' = eh, open' = open
    PROVE  View(t, c, w)'
<1>1. \A k \in {"file", "decomp"} : NextId(k) \in w.have => next_id'[t][k] = w.nid[k]
  BY DEF View, Tokens, InCall
<1>2. w.ph = "in"
  BY DEF InCall
<1> QED BY <1>1, <1>2, ViewKept

LEMMA ShapedStays ==
    ASSUME Shaped, chan' = [l \in Links |-> chan'[l]], todo' = [x \in Task |-> todo'[x]],
           pending' = [x \in CompTasks |-> pending'[x]], cur' = [x \in Task |-> cur'[x]], ierr' = [x \in Task |-> ierr'[x]],
           next_id' = [x \in Task |-> [k \in {"file", "decomp"} |-> next_id'[x][k]]],
           loop' = [x \in IOTask |-> loop'[x]],
           tables' = tables, eh' = eh, open' = open, made' = made
    PROVE  Shaped'
BY DEF Shaped

\* A task goes on by itself, but for its error code, without any change of its tables.
LEMMA Quieter ==
    ASSUME CallsAgree, NEW V, NEW N, NEW p, NEW G, NEW M, NEW g, Explained(V, N, p, G, M, g), Shaped',
           NEW t \in Task, todo[t] # <<>>, Step(t).do \notin {"message", "arg", "effect"} \cup FromComp \cup FromIO,
           Others(t), chan' = chan, pending' = pending, loop' = loop, next_id' = next_id,
           cur' = cur, tables' = tables, made' = made, eh' = eh, open' = open,
           NEW c, CompOf(t) = c, NEW v, V[c][p[c][t]] = v,
           View(t, c, v) => /\ \E w : VStep(c, v, w)
                            /\ \A w : VStep(c, v, w) => todo'[t] = Left(t, w) /\ ierr'[t] = w.ierr
    PROVE  \E V2, N2, p2 : Explained(V2, N2, p2, G, M, g)'
<1>1. /\ c \in Component /\ t \in Members(c) /\ p[c][t] \in 1..N[c] /\ OK(c, v)
      /\ LogOK(c, V[c], N[c]) /\ Follows(c, V[c], N[c], p[c])
      /\ View(t, c, v) \/ Ahead1(t, c, v)
  BY Acting
<1>2. View(t, c, v)
  BY <1>1, AheadAt DEF FromComp
<1>3. v.a # <<>> /\ v.a[1].do = Step(t).do
  BY <1>1, <1>2, ViewStep
<1>4. ASSUME NEW w, VStep(c, v, w)
      PROVE  Keeps(v, w) /\ w.io = v.io /\ w.nid = v.nid /\ \E have : InCall(v, w, have) /\ have \subseteq v.have
  <2>1. OwnStep(v, w) \/ HandleStep(v, w) \/ EndStep(v, w)
    BY <1>3, <1>4, Zenon DEF VStep, BeginStep, MsgStep, ArgStep, ShareStep, AnswerStep, OutcomeStep, EffectStep, At1, FromIO
  <2> QED BY <2>1 DEF OwnStep, HandleStep, EndStep
<1>5. \A w : VStep(c, v, w) => View(t, c, w)'
  <2> SUFFICES ASSUME NEW w, VStep(c, v, w) PROVE View(t, c, w)'
    OBVIOUS
  <2>1. PICK have : InCall(v, w, have) /\ have \subseteq v.have
    BY <1>4
  <2>2. Keeps(v, w) /\ w.io = v.io /\ w.nid = v.nid
    BY <1>4
  <2>3. todo'[t] = Left(t, w) /\ ierr'[t] = w.ierr
    BY <1>2
  <2> QED BY <1>2, <2>1, <2>2, <2>3, ViewQuiet
<1>6. \A o \in Members(c) : p[c][o] \in 1..N[c]
  BY <1>1 DEF Follows, TasksAt
<1>7. Numbers(V, N, p)
  BY DEF Explained
<1>8. ASSUME NEW W, NEW K, OnTo(c, V[c], N[c], p[c][t], W, K)
      PROVE  Numbers(Put(V, c, W), Put(N, c, K), Put(p, c, To(c, p[c], t, p[c][t] + 1)))'
  <2>1. W[p[c][t] + 1].all = V[c][p[c][t]].all
    BY <1>4, <1>8 DEF OnTo, Keeps
  <2> QED BY <1>1, <1>6, <1>7, <1>8, <2>1, NumbersOn
<1>9. Alien(t, c)
  BY DEF Alien
<1>10. \E w : VStep(c, v, w)
  BY <1>2
<1>11. Step(t).do \notin {"message", "arg"} \cup FromComp \cup FromIO
  OBVIOUS
<1> QED BY <1>2, <1>5, <1>8, <1>9, <1>10, <1>11, Silent

\* A step of t that changes no more than what it has to do and its error code.
LEMMA OnlyCode ==
    ASSUME Shaped, NEW t \in Task, NEW s, NEW e, todo' = [todo EXCEPT ![t] = s], ierr' = [ierr EXCEPT ![t] = e],
           UNCHANGED <<chan, pending, cur, tables, next_id, eh, loop, open, made>>
    PROVE  Shaped' /\ Others(t) /\ todo'[t] = s /\ ierr'[t] = e
<1>1. todo = [x \in Task |-> todo[x]] /\ ierr = [x \in Task |-> ierr[x]]
  BY DEF Shaped
<1>2. todo'[t] = s /\ ierr'[t] = e
  BY <1>1
<1>3. \A o \in Task : o # t => todo'[o] = todo[o] /\ ierr'[o] = ierr[o]
  BY <1>1
<1>4. todo' = [x \in Task |-> todo'[x]] /\ ierr' = [x \in Task |-> ierr'[x]]
  BY <1>1
<1>5. Shaped'
  BY <1>4 DEF Shaped
<1>6. Others(t)
  BY <1>3 DEF Others
<1> QED BY <1>2, <1>5, <1>6

LEMMA OwnResultGoes ==
    ASSUME CallsAgree, SyncErrors = FALSE, NEW V, NEW N, NEW p, NEW G, NEW M, NEW g, Explained(V, N, p, G, M, g),
           NEW t \in Task, OwnResult(t)
    PROVE  \E V2, N2, p2 : Explained(V2, N2, p2, G, M, g)'
<1> DEFINE c == CompOf(t)
           v == V[c][p[c][t]]
<1>1. /\ todo[t] # <<>> /\ Step(t).do = "own" /\ Proceed(t, "ok")
      /\ UNCHANGED <<chan, pending, cur, tables, next_id, eh, loop, open, made>>
  BY DEF OwnResult, At, Busy
<1>2. ierr' = [ierr EXCEPT ![t] = "ok"] /\ todo' = [todo EXCEPT ![t] = Tail(todo[t])] /\ Shaped
  BY <1>1 DEF Proceed, Explained
<1>3. Shaped' /\ Others(t) /\ todo'[t] = Tail(todo[t]) /\ ierr'[t] = "ok"
  BY <1>1, <1>2, OnlyCode
<1>4. c \in Component /\ OK(c, v)
  BY <1>1, Acting
<1> HIDE DEF c, v
<1>5. ASSUME View(t, c, v)
      PROVE  /\ \E w : VStep(c, v, w)
             /\ \A w : VStep(c, v, w) => todo'[t] = Left(t, w) /\ ierr'[t] = w.ierr
  <2>1. v.a # <<>> /\ v.a[1].do = "own"
    BY <1>1, <1>4, <1>5, ViewStep
  <2> DEFINE x == Moved(v, Tail(v.a), Tail(v.b), "ok", "none", 0, v.have, v.nid)
  <2>2. OwnStep(v, x)
    BY <2>1, MovedIs DEF OwnStep, At1
  <2>3. ASSUME NEW w, VStep(c, v, w) PROVE todo'[t] = Left(t, w) /\ ierr'[t] = w.ierr
    <3>1. OwnStep(v, w)
      BY <2>1, <2>3, StepIs
    <3> QED BY <1>3, <1>5, <3>1 DEF OwnStep, View, Left
  <2> QED BY <2>2, <2>3 DEF VStep
<1>6. Step(t).do \notin {"message", "arg", "effect"} \cup FromComp \cup FromIO
  BY <1>1 DEF FromComp, FromIO
<1> QED BY <1>1, <1>3, <1>5, <1>6, Quieter DEF c, v

LEMMA HandleErrorGoes ==
    ASSUME CallsAgree, NEW V, NEW N, NEW p, NEW G, NEW M, NEW g, Explained(V, N, p, G, M, g),
           NEW t \in Task, HandleError(t)
    PROVE  \E V2, N2, p2 : Explained(V2, N2, p2, G, M, g)'
<1> DEFINE c == CompOf(t)
           v == V[c][p[c][t]]
           s == Handled(todo[t], ierr[t], eh[t][c])
<1>1. /\ todo[t] # <<>> /\ Step(t).do \in {"check", "check_filter", "check_default", "pio_err"}
      /\ UNCHANGED <<chan, pending, cur, ierr, tables, next_id, eh, loop, open, made>>
      /\ Shaped
  BY DEF HandleError, At, Busy, Explained
<1>2. todo' = [todo EXCEPT ![t] = s]
  <2>1. CASE Step(t).do = "check_filter" /\ ierr[t] = "nofilter"
    <3>1. s = Tail(todo[t])
      BY <2>1 DEF Handled, Step
    <3>2. todo' = [todo EXCEPT ![t] = Tail(todo[t])]
      BY <2>1 DEF HandleError, Goes
    <3> QED BY <3>1, <3>2
  <2>2. CASE ~(Step(t).do = "check_filter" /\ ierr[t] = "nofilter")
    BY <2>2 DEF HandleError, Handled, Step
  <2> QED BY <2>1, <2>2
<1>3. Shaped' /\ Others(t) /\ todo'[t] = s /\ ierr'[t] = ierr[t]
  <2> HIDE DEF s
  <2>1. ierr' = [ierr EXCEPT ![t] = ierr[t]]
    BY <1>1 DEF Shaped
  <2> QED BY <1>1, <1>2, <2>1, OnlyCode
<1>4. c \in Component /\ OK(c, v)
  BY <1>1, Acting
<1> HIDE DEF c, v
<1>5. ASSUME View(t, c, v)
      PROVE  /\ \E w : VStep(c, v, w)
             /\ \A w : VStep(c, v, w) => todo'[t] = Left(t, w) /\ ierr'[t] = w.ierr
  <2>1. v.a # <<>> /\ v.a[1].do = Step(t).do /\ (t \in IOTask => v.b # <<>>)
    BY <1>1, <1>4, <1>5, ViewStep
  <2> DEFINE x == Moved(v, Handled(v.a, v.ierr, v.eh), IF v.b = <<>> THEN <<>> ELSE Handled(v.b, v.ierr, v.eh),
                        v.ierr, "none", 0, v.have, v.nid)
  <2>2. HandleStep(v, x)
    <3> HIDE DEF x
    <3>1. /\ x.a = Handled(v.a, v.ierr, v.eh) /\ x.b = (IF v.b = <<>> THEN <<>> ELSE Handled(v.b, v.ierr, v.eh))
          /\ x.ierr = v.ierr /\ x.io = v.io /\ x.nid = v.nid
          /\ Counts(v, x, "none") /\ InCall(v, x, v.have) /\ Keeps(v, x)
      BY MovedIs DEF x
    <3> QED BY <1>1, <2>1, <3>1 DEF HandleStep, At1
  <2>3. ASSUME NEW w, VStep(c, v, w) PROVE todo'[t] = Left(t, w) /\ ierr'[t] = w.ierr
    <3>1. HandleStep(v, w)
      BY <1>1, <2>1, <2>3, StepIs
    <3>2. s = Handled(Left(t, v), v.ierr, v.eh) /\ ierr[t] = v.ierr
      BY <1>5 DEF View
    <3>3. Left(t, w) = Handled(Left(t, v), v.ierr, v.eh)
      BY <2>1, <3>1 DEF HandleStep, Left
    <3>4. w.ierr = v.ierr
      BY <3>1 DEF HandleStep
    <3> HIDE DEF s
    <3> QED BY <1>3, <3>2, <3>3, <3>4
  <2> QED BY <2>2, <2>3 DEF VStep
<1>6. Step(t).do \notin {"message", "arg", "effect"} \cup FromComp \cup FromIO
  BY <1>1 DEF FromComp, FromIO
<1>7. c = CompOf(t) /\ v = V[c][p[c][t]]
  BY DEF c, v
<1>8. ierr' = ierr /\ chan' = chan /\ pending' = pending /\ loop' = loop /\ next_id' = next_id
      /\ cur' = cur /\ tables' = tables /\ made' = made /\ eh' = eh /\ open' = open /\ todo[t] # <<>>
  BY <1>1
<1>9. Shaped' /\ Others(t)
  BY <1>3
<1> HIDE DEF s
<1> QED BY <1>5, <1>6, <1>7, <1>8, <1>9, Quieter

LEMMA EndOrForgetGoes ==
    ASSUME CallsAgree, NEW V, NEW N, NEW p, NEW G, NEW M, NEW g, Explained(V, N, p, G, M, g),
           NEW t \in Task, EndOrForget(t)
    PROVE  \E V2, N2, p2 : Explained(V2, N2, p2, G, M, g)'
<1> DEFINE c == CompOf(t)
           v == V[c][p[c][t]]
           s == Ended(todo[t], ierr[t])
           e == EndCode(Step(t).do, ierr[t])
<1>1. /\ todo[t] # <<>> /\ Step(t).do \in {"forget", "reject", "fail"}
      /\ UNCHANGED <<chan, pending, cur, tables, next_id, eh, loop, open, made>>
      /\ Shaped
  BY DEF EndOrForget, At, Busy, Explained
<1>2. todo' = [todo EXCEPT ![t] = s] /\ ierr' = [ierr EXCEPT ![t] = e]
  BY DEF EndOrForget, Ended, EndCode, Step
<1>3. Shaped' /\ Others(t) /\ todo'[t] = s /\ ierr'[t] = e
  <2> HIDE DEF s, e
  <2> QED BY <1>1, <1>2, OnlyCode
<1>4. c \in Component /\ OK(c, v)
  BY <1>1, Acting
<1> HIDE DEF c, v
<1>5. ASSUME View(t, c, v)
      PROVE  /\ \E w : VStep(c, v, w)
             /\ \A w : VStep(c, v, w) => todo'[t] = Left(t, w) /\ ierr'[t] = w.ierr
  <2>1. v.a # <<>> /\ v.a[1].do = Step(t).do
    BY <1>1, <1>4, <1>5, ViewStep
  <2> DEFINE x == Moved(v, Ended(v.a, v.ierr), Ended(v.b, v.ierr), EndCode(v.a[1].do, v.ierr), "none", 0, v.have, v.nid)
  <2>2. EndStep(v, x)
    <3> HIDE DEF x
    <3>1. /\ x.a = Ended(v.a, v.ierr) /\ x.b = Ended(v.b, v.ierr)
          /\ x.ierr = EndCode(v.a[1].do, v.ierr) /\ x.io = v.io /\ x.nid = v.nid
          /\ Counts(v, x, "none") /\ InCall(v, x, v.have) /\ Keeps(v, x)
      BY MovedIs DEF x
    <3> QED BY <1>1, <2>1, <3>1 DEF EndStep, At1
  <2>3. ASSUME NEW w, VStep(c, v, w) PROVE todo'[t] = Left(t, w) /\ ierr'[t] = w.ierr
    <3>1. EndStep(v, w)
      BY <1>1, <2>1, <2>3, StepIs
    <3>2. s = Ended(Left(t, v), v.ierr) /\ e = EndCode(v.a[1].do, v.ierr)
      BY <1>5, <2>1 DEF View
    <3>3. Left(t, w) = Ended(Left(t, v), v.ierr)
      BY <3>1 DEF EndStep, Left
    <3>4. w.ierr = EndCode(v.a[1].do, v.ierr)
      BY <3>1 DEF EndStep
    <3> HIDE DEF s, e
    <3> QED BY <1>3, <3>2, <3>3, <3>4
  <2> QED BY <2>2, <2>3 DEF VStep
<1>6. Step(t).do \notin {"message", "arg", "effect"} \cup FromComp \cup FromIO
  BY <1>1 DEF FromComp, FromIO
<1> QED BY <1>1, <1>3, <1>5, <1>6, Quieter DEF c, v

-----------------------------------------------------------------------------
(***************************************************************************)
(* Files and decompositions are made and dropped.                          *)
(***************************************************************************)
LEMMA HandlerGoes ==
    ASSUME Shaped, NEW t \in Task, TakeEffect(t), NEW c \in Component, c = CompOf(t)
    PROVE  /\ eh' = [x \in Task |-> [d \in Component |-> eh'[x][d]]]
           /\ \A o \in Task \ {t} : eh'[o] = eh[o]
           /\ \A d \in Component \ {c} : eh'[t][d] = eh[t][d]
           /\ eh'[t][c] = IF Step(t).x = "error_handler" THEN cur[t].method ELSE eh[t][c]
<1>1. eh = [x \in Task |-> [d \in Component |-> eh[x][d]]]
  BY DEF Shaped
<1>2. CASE Step(t).x = "error_handler"
  <2>1. eh' = [eh EXCEPT ![t][c] = cur[t].method]
    BY <1>2 DEF TakeEffect
  <2>2. eh'[t] = [eh[t] EXCEPT ![c] = cur[t].method] /\ \A o \in Task \ {t} : eh'[o] = eh[o]
    BY <1>1, <2>1
  <2>3. eh[t] = [d \in Component |-> eh[t][d]]
    BY <1>1
  <2>4. eh'[t] = [d \in Component |-> eh'[t][d]] /\ eh'[t][c] = cur[t].method
        /\ \A d \in Component \ {c} : eh'[t][d] = eh[t][d]
    BY <2>2, <2>3
  <2>5. \A x \in Task : eh'[x] = [d \in Component |-> eh'[x][d]]
    BY <1>1, <2>2, <2>4, Zenon
  <2>6. eh' = [x \in Task |-> eh'[x]]
    BY <1>1, <2>1
  <2> QED BY <1>2, <2>2, <2>4, <2>5, <2>6
<1>3. CASE Step(t).x # "error_handler"
  <2>1. eh' = eh
    BY <1>3 DEF TakeEffect
  <2> QED BY <1>1, <1>3, <2>1
<1> QED BY <1>2, <1>3

LEMMA OpenGoes ==
    ASSUME Shaped, NEW t \in Task, TakeEffect(t), NEW c \in Component, c = CompOf(t)
    PROVE  /\ open' = [x \in Task |-> open'[x]]
           /\ \A o \in Task \ {t} : open'[o] = open[o]
           /\ \A d \in Component \ {c} : d \in open'[t] <=> d \in open[t]
           /\ c \in open'[t] <=> c \in open[t] /\ Step(t).x # "exit"
<1>1. open = [x \in Task |-> open[x]]
  BY DEF Shaped
<1>2. CASE Step(t).x = "exit"
  <2>1. open' = [open EXCEPT ![t] = open[t] \ {c}]
    BY <1>2 DEF TakeEffect
  <2> QED BY <1>1, <1>2, <2>1
<1>3. CASE Step(t).x # "exit"
  <2>1. open' = open
    BY <1>3 DEF TakeEffect
  <2> QED BY <1>1, <1>3, <2>1
<1> QED BY <1>2, <1>3

LEMMA RecordGoes ==
    ASSUME Shaped, NEW t \in Task, NEW k \in {"file", "decomp"}, Record(t, k), NEW c \in Component, c = CompOf(t),
           NEW v, View(t, c, v), NextId(k) \in v.have
    PROVE  /\ tables' = [tables EXCEPT ![t] = tables[t] \cup {Entry(c, v, k)}]
           /\ cur' = [cur EXCEPT ![t] = [cur[t] EXCEPT ![k] = v.nid[k]]]
           /\ next_id' = [x \in Task |-> [l \in {"file", "decomp"} |-> next_id'[x][l]]]
           /\ \A o \in Task \ {t} : next_id'[o] = next_id[o] /\ made'[o] = made[o]
           /\ \A l \in {"file", "decomp"} : next_id'[t][l] = IF l = k THEN next_id[t][k] + 1 ELSE next_id[t][l]
           /\ made' = [x \in Task |-> [d \in Component |-> made'[x][d]]]
           /\ made'[t][c] = [v.made EXCEPT ![k] = @ + 1]
           /\ \A d \in Component \ {c} : made'[t][d] = made[t][d]
           /\ next_id[t][k] = v.nid[k]
<1>1. /\ tables = [x \in Task |-> tables[x]] /\ cur = [x \in Task |-> cur[x]]
      /\ next_id = [x \in Task |-> [l \in {"file", "decomp"} |-> next_id[x][l]]]
      /\ made = [x \in Task |-> [d \in Component |-> made[x][d]]]
  BY DEF Shaped
<1>2. next_id[t][k] = v.nid[k] /\ made[t][c] = v.made
  BY DEF View, Tokens
<1>3. tables' = [tables EXCEPT ![t] = tables[t] \cup {Entry(c, v, k)}]
  BY <1>2 DEF Record, Entry
<1>4. cur' = [cur EXCEPT ![t] = [cur[t] EXCEPT ![k] = v.nid[k]]]
  BY <1>1, <1>2 DEF Record
<1>5. next_id'[t] = [next_id[t] EXCEPT ![k] = next_id[t][k] + 1] /\ (\A o \in Task \ {t} : next_id'[o] = next_id[o])
      /\ next_id' = [x \in Task |-> next_id'[x]]
  BY <1>1 DEF Record
<1>6. next_id[t] = [l \in {"file", "decomp"} |-> next_id[t][l]]
  BY <1>1
<1>7. \A l \in {"file", "decomp"} : next_id'[t][l] = IF l = k THEN next_id[t][k] + 1 ELSE next_id[t][l]
  BY <1>5, <1>6
<1>8. \A x \in Task : next_id'[x] = [l \in {"file", "decomp"} |-> next_id'[x][l]]
  <2>1. next_id'[t] = [l \in {"file", "decomp"} |-> next_id'[t][l]]
    BY <1>5, <1>6
  <2> QED BY <1>1, <1>5, <2>1
<1>9. made'[t] = [made[t] EXCEPT ![c] = [made[t][c] EXCEPT ![k] = @ + 1]] /\ (\A o \in Task \ {t} : made'[o] = made[o])
      /\ made' = [x \in Task |-> made'[x]]
  BY <1>1 DEF Record
<1>10. made[t] = [d \in Component |-> made[t][d]]
  BY <1>1
<1>11. made'[t][c] = [v.made EXCEPT ![k] = @ + 1] /\ (\A d \in Component \ {c} : made'[t][d] = made[t][d])
       /\ made'[t] = [d \in Component |-> made'[t][d]]
  BY <1>2, <1>9, <1>10
<1>12. \A x \in Task : made'[x] = [d \in Component |-> made'[x][d]]
  BY <1>1, <1>9, <1>11
<1>13. next_id' = [x \in Task |-> [l \in {"file", "decomp"} |-> next_id'[x][l]]]
  BY <1>5, <1>8
<1>14. made' = [x \in Task |-> [d \in Component |-> made'[x][d]]]
  BY <1>9, <1>12
<1> QED BY <1>2, <1>3, <1>4, <1>5, <1>7, <1>9, <1>11, <1>13, <1>14

\* What is dropped is the component's own.
LEMMA DropsOwn ==
    ASSUME NEW V, NEW N, NEW p, NEW G, NEW M, NEW g, Explained(V, N, p, G, M, g),
           NEW t \in IOTask, NEW c \in Component, NEW kind \in {"file", "decomp"},
           NEW d \in Component, d # c, NEW e \in tables[t], e.c = d, e.kind = kind
    PROVE  e.id # V[c][p[c][t]].cur[kind]
<1> DEFINE v == V[c][p[c][t]]
           u == V[d][p[d][t]]
<1>1. \A b \in Component : /\ LogOK(b, V[b], N[b]) /\ p[b][t] \in 1..N[b]
                           /\ IOAt(t, b, V[b][p[b][t]], V[b][N[b]].n["begin"])
  BY TaskKinds DEF Explained, Follows, TasksAt
<1>2. e \in V[d][N[d]].all
  <2>1. e \in u.tbl
    BY <1>1 DEF IOAt
  <2>2. OK(d, u) /\ R(u, V[d][N[d]])
    BY <1>1, LogAt
  <2> QED BY <2>1, <2>2 DEF OK, Listed, R, Later
<1>3. e.id \in Nat \ {0}
  BY <1>2, IdsKnown
<1>4. OK(c, v) /\ R(v, V[c][N[c]])
  BY <1>1, LogAt
<1>5. v.cur[kind] \in {0} \cup IdsIn(v.all, kind)
  BY <1>4, Zenon DEF OK, Knows
<1> HIDE DEF v, u
<1>6. ASSUME e.id = v.cur[kind] PROVE FALSE
  <2>1. PICK f \in v.all : f.kind = kind /\ f.id = e.id
    BY <1>3, <1>5, <1>6 DEF IdsIn
  <2>2. f \in V[c][N[c]].all
    BY <1>4, <2>1 DEF R, Later
  <2>3. e = f
    BY <1>2, <2>1, <2>2 DEF Explained, Numbers
  <2>4. f.c = c
    BY <2>2, IdsKnown
  <2> QED BY <2>3, <2>4
<1> QED BY <1>6 DEF v

LEMMA RecordNumbers ==
    ASSUME NEW V, NEW N, NEW p, NEW G, NEW M, NEW g, Explained(V, N, p, G, M, g),
           NEW c \in Component, NEW t \in Members(c), NEW k \in {"file", "decomp"},
           NEW v, V[c][p[c][t]] = v, NextId(k) \in v.have, next_id[t][k] = v.nid[k],
           \A o \in Task \ {t} : next_id'[o] = next_id[o],
           \A l \in {"file", "decomp"} : next_id'[t][l] = IF l = k THEN next_id[t][k] + 1 ELSE next_id[t][l],
           NEW W, NEW K, OnTo(c, V[c], N[c], p[c][t], W, K), W[p[c][t] + 1].all = v.all \cup {Entry(c, v, k)}
    PROVE  Numbers(Put(V, c, W), Put(N, c, K), Put(p, c, To(c, p[c], t, p[c][t] + 1)))'
<1> DEFINE i == p[c][t]
           V2 == Put(V, c, W)
           N2 == Put(N, c, K)
           p2 == Put(p, c, To(c, p[c], t, i + 1))
           x == Entry(c, v, k)
<1>1. V2[c] = W /\ N2[c] = K /\ \A d \in Component \ {c} : V2[d] = V[d] /\ N2[d] = N[d]
  BY PutAt
<1>2. /\ p2[c][t] = i + 1 /\ \A o \in Members(c) \ {t} : p2[c][o] = p[c][o]
      /\ \A d \in Component \ {c} : p2[d] = p[d]
  BY PutAt, ToAt
<1>3. LogOK(c, V[c], N[c]) /\ (\A o \in Members(c) : p[c][o] \in 1..N[c]) /\ N[c] \in Nat
  <2>1. LogOK(c, V[c], N[c]) /\ (\A o \in Members(c) : p[c][o] \in 1..N[c])
    BY DEF Explained, Follows, TasksAt
  <2> QED BY <2>1, LogAt
<1>4. \A o \in Members(c) : W[p[c][o]] = V[c][p[c][o]]
  <2>1. CASE W = V[c]
    BY <2>1
  <2>2. CASE W # V[c]
    <3>1. PICK w : W = Ext(V[c], N[c], w)
      BY <2>2 DEF OnTo
    <3> QED BY <1>3, <3>1, ExtAt
  <2> QED BY <2>1, <2>2
<1>5. x.id = v.nid[k] /\ x.kind = k
  BY DEF Entry
<1>6. \A l \in {"file", "decomp"} : next_id[ioroot][l] \in Nat \ {0}
  BY DEF Explained, Numbers
<1>7. ioroot \in Task /\ ioroot \in Members(c) /\ \A l \in {"file", "decomp"} : next_id'[ioroot][l] \in Nat \ {0} /\ next_id'[ioroot][l] >= next_id[ioroot][l]
  <2>1. ioroot \in Task /\ ioroot \in Members(c)
    BY TaskKinds
  <2>2. CASE t = ioroot
    BY <1>6, <2>1, <2>2
  <2>3. CASE t # ioroot
    BY <1>6, <2>1, <2>3
  <2> QED BY <2>1, <2>2, <2>3
<1> HIDE DEF V2, N2, p2, x
<1>8. ASSUME NEW d \in Component, NEW e \in V2[d][p2[d][ioroot]].all
      PROVE  e.id \in Nat \ {0} /\ e.id < next_id'[ioroot][e.kind]
  <2>0. \A b \in Component : \A f \in V[b][p[b][ioroot]].all :
            f.id \in Nat \ {0} /\ f.id < next_id[ioroot][f.kind] /\ f.kind \in {"file", "decomp"}
    <3>1. \A b \in Component : \A f \in V[b][p[b][ioroot]].all : f.id \in Nat \ {0} /\ f.id < next_id[ioroot][f.kind]
      BY DEF Explained, Numbers
    <3>2. \A b \in Component : \A f \in V[b][p[b][ioroot]].all : f.kind \in {"file", "decomp"}
      BY RootAt DEF OK, Listed
    <3> QED BY <3>1, <3>2
  <2>1. CASE e \in V[d][p[d][ioroot]].all
    BY <1>6, <1>7, <2>0, <2>1
  <2>2. CASE e \notin V[d][p[d][ioroot]].all
    <3>1. d = c /\ t = ioroot
      BY <1>1, <1>2, <1>4, <1>7, <1>8, <2>2
    <3>2. e = x
      <4>1. V2[d][p2[d][ioroot]].all = v.all \cup {x}
        BY <1>1, <1>2, <3>1 DEF x
      <4> QED BY <1>8, <2>2, <3>1, <4>1
    <3> QED BY <1>5, <1>6, <3>1, <3>2
  <2> QED BY <2>1, <2>2
<1>9. ASSUME NEW d \in Component, NEW b \in Component, NEW e \in V2[d][N2[d]].all, NEW f \in V2[b][N2[b]].all,
             e.kind = f.kind, e.id = f.id
      PROVE  e = f
  <2>1. CASE W = V[c] /\ K = N[c]
    <3>1. e \in V[d][N[d]].all /\ f \in V[b][N[b]].all
      BY <1>1, <1>9, <2>1
    <3> QED BY <1>9, <3>1 DEF Explained, Numbers
  <2>2. CASE ~(W = V[c] /\ K = N[c])
    <3>1. i = N[c] /\ K = N[c] + 1
      BY <2>2 DEF OnTo
    <3>2. V2[c][N2[c]].all = v.all \cup {x} /\ v = V[c][N[c]]
      BY <1>1, <3>1 DEF x
    <3>3. /\ v.nid[k] = next_id[ioroot][k] /\ next_id[ioroot][k] \in Nat \ {0}
          /\ \A a \in Component : \A y \in V[a][N[a]].all : y.kind = k => y.id \in Nat /\ y.id < next_id[ioroot][k]
      BY <3>2, NumberIsNew
    <3>4. \A a \in Component : \A y \in V[a][N[a]].all : y.kind = k => y.id # x.id
      BY <1>5, <3>3
    <3>5. \A a \in Component : \A y \in V2[a][N2[a]].all : y \in V[a][N[a]].all \/ y = x
      BY <1>1, <3>2
    <3>6. e = x \/ e \in V[d][N[d]].all
      BY <3>5
    <3>7. f = x \/ f \in V[b][N[b]].all
      BY <3>5
    <3>8. CASE e = x \/ f = x
      BY <1>5, <1>9, <3>4, <3>6, <3>7, <3>8
    <3>9. CASE e # x /\ f # x
      BY <1>9, <3>6, <3>7, <3>9 DEF Explained, Numbers
    <3> QED BY <3>8, <3>9
  <2> QED BY <2>1, <2>2
<1>10. Numbers(V2, N2, p2)'
  <2>1. \A k1 \in {"file", "decomp"} : next_id'[ioroot][k1] \in Nat \ {0}
    BY <1>7
  <2>2. \A a \in Component : \A e \in V2[a][p2[a][ioroot]].all : e.id \in Nat \ {0} /\ e.id < next_id'[ioroot][e.kind]
    BY <1>8
  <2>3. \A a \in Component, d \in Component : \A e \in V2[a][N2[a]].all, f \in V2[d][N2[d]].all :
           e.kind = f.kind /\ e.id = f.id => e = f
    BY <1>9
  <2> QED BY <2>1, <2>2, <2>3 DEF Numbers
<1> QED BY <1>10 DEF V2, N2, p2

LEMMA EffectIs ==
    ASSUME NEW c, NEW v, v.a # <<>>, v.a[1].do = "effect"
    PROVE  \E w : EffectStep(c, v, w)
<1> DEFINE e == v.a[1].x
           k == e
           makes == e \in {"file", "decomp"}
           w == [a |-> Tail(v.a), b |-> Tail(v.b), ierr |-> v.ierr, nid |-> v.nid, ph |-> "in", have |-> {},
                 n |-> [x \in Kinds |-> v.n[x] + (IF x = "none" THEN 1 ELSE 0)], kind |-> "none",
                 tbl |-> IF makes THEN v.tbl \cup {Entry(c, v, e)}
                         ELSE IF e = "close" THEN {x \in v.tbl : ~(x.kind = "file" /\ x.id = v.cur["file"])}
                         ELSE IF e = "freedecomp" THEN {x \in v.tbl : ~(x.kind = "decomp" /\ x.id = v.cur["decomp"])}
                         ELSE v.tbl,
                 all |-> IF makes THEN v.all \cup {Entry(c, v, e)} ELSE v.all,
                 made |-> IF makes THEN [v.made EXCEPT ![e] = @ + 1] ELSE v.made,
                 cur |-> IF makes THEN [v.cur EXCEPT ![e] = v.nid[e]] ELSE v.cur,
                 io |-> IF makes THEN [v.io EXCEPT ![e] = v.nid[e]] ELSE v.io,
                 eh |-> IF e = "error_handler" THEN v.cur.method ELSE v.eh,
                 open |-> IF e = "exit" THEN FALSE ELSE v.open]
<1>1. /\ w.a = Tail(v.a) /\ w.b = Tail(v.b) /\ w.ierr = v.ierr /\ w.nid = v.nid
      /\ w.eh = (IF e = "error_handler" THEN v.cur.method ELSE v.eh)
      /\ w.open = (IF e = "exit" THEN FALSE ELSE v.open)
  OBVIOUS
<1>2. Counts(v, w, "none")
  BY DEF Counts
<1>3. InCall(v, w, {})
  BY DEF InCall
<1>4. makes => Made(c, v, w, e)
  BY DEF Made
<1>5. e = "close" => Dropped(v, w, "file")
  BY DEF Dropped
<1>6. e = "freedecomp" => Dropped(v, w, "decomp")
  BY DEF Dropped
<1>7. e \notin {"file", "decomp", "close", "freedecomp"} =>
               w.tbl = v.tbl /\ w.all = v.all /\ w.made = v.made /\ w.cur = v.cur /\ w.io = v.io
  OBVIOUS
<1> HIDE DEF w
<1>8. EffectStep(c, v, w)
  BY <1>1, <1>2, <1>3, <1>4, <1>5, <1>6, <1>7 DEF EffectStep, At1
<1> QED BY <1>8

LEMMA EffectView ==
    ASSUME NEW t, NEW c, NEW v, NEW w, View(t, c, v), EffectStep(c, v, w),
           todo'[t] = Tail(todo[t]), ierr'[t] = ierr[t], cur'[t] = ArgsAt(t, w),
           {e \in tables'[t] : e.c = c} = w.tbl, t \notin IOTask => tables'[t] = w.tbl,
           made'[t][c] = w.made, eh'[t][c] = w.eh, c \in open'[t] <=> w.open
    PROVE  View(t, c, w)'
<1>1. w.have = {} /\ w.ph = "in" /\ w.ierr = v.ierr /\ w.a = Tail(v.a) /\ w.b = Tail(v.b)
  BY DEF EffectStep, InCall
<1>2. todo'[t] = Left(t, w) /\ ierr'[t] = w.ierr
  BY <1>1 DEF View, Left
<1>3. Tokens(t, w)'
  BY <1>1 DEF Tokens
<1> QED BY <1>1, <1>2, <1>3 DEF View, Left, ArgsAt

\* What an effect is about is known on both sides.
LEMMA EffectKnown ==
    ASSUME NEW t, NEW c, NEW v, OK(c, v), View(t, c, v), v.a # <<>>, v.a[1].do = "effect"
    PROVE  /\ v.a[1].x = "close" => cur[t].file = v.cur.file
           /\ v.a[1].x = "freedecomp" => cur[t].decomp = v.cur.decomp
           /\ v.a[1].x = "error_handler" => cur[t].method = v.cur.method
           /\ v.a[1].x \in {"file", "decomp"} => NextId(v.a[1].x) \in v.have
<1>1. v.a[1].x # "exit" => Needs(v.a[1].x) \in v.have
  BY EffectPlace
<1>2. /\ INT("ncid") \in v.have => v.io.file = v.cur.file
      /\ INT("ioid") \in v.have => v.io.decomp = v.cur.decomp
      /\ INT("method") \in v.have => v.io.method = v.cur.method
  BY DEF OK, Knows
<1>3. cur[t] = v.io \/ cur[t] = v.cur
  BY DEF View, ArgsAt
<1> QED BY <1>1, <1>2, <1>3 DEF Needs

LEMMA TakeEffectGoes ==
    ASSUME CallsAgree, NEW V, NEW N, NEW p, NEW G, NEW M, NEW g, Explained(V, N, p, G, M, g),
           NEW t \in Task, TakeEffect(t)
    PROVE  \E V2, N2, p2 : Explained(V2, N2, p2, G, M, g)'
<1>0. SUFFICES ASSUME NEW c, CompOf(t) = c, NEW v, V[c][p[c][t]] = v, NEW e, Step(t).x = e
               PROVE  \E V2, N2, p2 : Explained(V2, N2, p2, G, M, g)'
  OBVIOUS
<1>1. /\ todo[t] # <<>> /\ Step(t).do = "effect" /\ todo' = [todo EXCEPT ![t] = Tail(todo[t])]
      /\ UNCHANGED <<chan, pending, ierr, loop>> /\ Shaped
  BY DEF TakeEffect, At, Busy, Goes, Explained
<1>2. /\ c \in Component /\ t \in Members(c) /\ p[c][t] \in 1..N[c] /\ OK(c, v)
      /\ LogOK(c, V[c], N[c]) /\ Follows(c, V[c], N[c], p[c])
      /\ View(t, c, v) \/ Ahead1(t, c, v)
  BY <1>0, <1>1, Acting
<1>3. View(t, c, v)
  BY <1>1, <1>2, AheadAt
<1>4. v.a # <<>> /\ v.a[1].do = "effect" /\ e = v.a[1].x
  BY <1>0, <1>1, <1>2, <1>3, ViewStep
<1>5. /\ e = "close" => cur[t].file = v.cur.file
      /\ e = "freedecomp" => cur[t].decomp = v.cur.decomp
      /\ e = "error_handler" => cur[t].method = v.cur.method
      /\ e \in {"file", "decomp"} => NextId(e) \in v.have
  BY <1>2, <1>3, <1>4, EffectKnown
<1>6. /\ eh' = [x \in Task |-> [d \in Component |-> eh'[x][d]]]
      /\ \A o \in Task \ {t} : eh'[o] = eh[o]
      /\ \A d \in Component \ {c} : eh'[t][d] = eh[t][d]
      /\ eh'[t][c] = IF e = "error_handler" THEN cur[t].method ELSE eh[t][c]
  BY <1>0, <1>1, <1>2, HandlerGoes
<1>7. /\ open' = [x \in Task |-> open'[x]]
      /\ \A o \in Task \ {t} : open'[o] = open[o]
      /\ \A d \in Component \ {c} : d \in open'[t] <=> d \in open[t]
      /\ c \in open'[t] <=> c \in open[t] /\ e # "exit"
  BY <1>0, <1>1, <1>2, OpenGoes
<1>8. /\ todo' = [x \in Task |-> todo'[x]] /\ todo'[t] = Tail(todo[t]) /\ \A o \in Task \ {t} : todo'[o] = todo[o]
      /\ tables = [x \in Task |-> tables[x]] /\ cur = [x \in Task |-> cur[x]]
      /\ \A o \in Task : \A x \in tables[o] : x.c \in Component
  BY <1>1 DEF Shaped
<1>9. \A d \in Component : t \in IOTask => (\A x \in tables[t] : d # c /\ x.c = d =>
            \A kind \in {"file", "decomp"} : x.kind = kind => x.id # v.cur[kind])
  BY <1>0, <1>2, DropsOwn
<1>10. /\ {x \in tables[t] : x.c = c} = v.tbl /\ (t \notin IOTask => tables[t] = v.tbl) /\ cur[t] = ArgsAt(t, v)
       /\ made[t][c] = v.made /\ eh[t][c] = v.eh /\ (c \in open[t] <=> v.open)
  BY <1>3 DEF View
<1>11. CASE e \in {"file", "decomp"}
  <2>1. Record(t, e) /\ NextId(e) \in v.have
    BY <1>0, <1>5, <1>11 DEF TakeEffect
  <2>2. /\ tables' = [tables EXCEPT ![t] = tables[t] \cup {Entry(c, v, e)}]
        /\ cur' = [cur EXCEPT ![t] = [cur[t] EXCEPT ![e] = v.nid[e]]]
        /\ next_id' = [x \in Task |-> [l \in {"file", "decomp"} |-> next_id'[x][l]]]
        /\ \A o \in Task \ {t} : next_id'[o] = next_id[o] /\ made'[o] = made[o]
        /\ \A l \in {"file", "decomp"} : next_id'[t][l] = IF l = e THEN next_id[t][e] + 1 ELSE next_id[t][l]
        /\ made' = [x \in Task |-> [d \in Component |-> made'[x][d]]]
        /\ made'[t][c] = [v.made EXCEPT ![e] = @ + 1]
        /\ \A d \in Component \ {c} : made'[t][d] = made[t][d]
        /\ next_id[t][e] = v.nid[e]
    <3>1. c \in Component /\ c = CompOf(t) /\ Shaped
      BY <1>0, <1>1, <1>2
    <3> QED BY <1>3, <1>11, <2>1, <3>1, RecordGoes
  <2>3. Entry(c, v, e).c = c
    BY DEF Entry
  <2> DEFINE E == Entry(c, v, e)
  <2> HIDE DEF E
  <2>4. /\ tables' = [x \in Task |-> tables'[x]] /\ tables'[t] = tables[t] \cup {E}
        /\ (\A o \in Task \ {t} : tables'[o] = tables[o])
    BY <1>8, <2>2 DEF E
  <2>5. /\ cur' = [x \in Task |-> cur'[x]] /\ cur'[t] = [cur[t] EXCEPT ![e] = v.nid[e]]
        /\ (\A o \in Task \ {t} : cur'[o] = cur[o])
    BY <1>8, <2>2
  <2>6. \A o \in Task : \A x \in tables'[o] : x.c \in Component
    BY <1>2, <1>8, <2>3, <2>4 DEF E
  <2>7. Shaped'
    BY <1>1, <1>6, <1>7, <1>8, <2>2, <2>4, <2>5, <2>6 DEF Shaped
  <2>8. Others(t)
    BY <1>1, <1>6, <1>7, <1>8, <2>2, <2>4, <2>5 DEF Others
  <2>9. Alien(t, c)
    BY <1>6, <1>7, <2>2, <2>3, <2>4 DEF Alien, E
  <2>10. ASSUME NEW w, VStep(c, v, w) PROVE View(t, c, w)' /\ w.all = v.all \cup {E}
    <3>1. EffectStep(c, v, w)
      BY <1>4, <2>10, StepIs
    <3>2. /\ w.tbl = v.tbl \cup {E} /\ w.all = v.all \cup {E} /\ w.made = [v.made EXCEPT ![e] = @ + 1]
          /\ ArgsAt(t, w) = [ArgsAt(t, v) EXCEPT ![e] = v.nid[e]]
      BY <1>4, <1>11, <3>1 DEF EffectStep, Made, ArgsAt, E
    <3>3. eh'[t][c] = w.eh /\ (c \in open'[t] <=> w.open)
      BY <1>4, <1>5, <1>6, <1>7, <1>10, <1>11, <3>1 DEF EffectStep
    <3>4. {x \in tables'[t] : x.c = c} = w.tbl /\ (t \notin IOTask => tables'[t] = w.tbl)
      BY <1>10, <2>3, <2>4, <3>2 DEF E
    <3>5. cur'[t] = ArgsAt(t, w) /\ made'[t][c] = w.made /\ ierr'[t] = ierr[t]
      BY <1>1, <1>10, <2>2, <2>5, <3>2
    <3>6. todo'[t] = Tail(todo[t]) /\ eh'[t][c] = w.eh
      BY <1>8, <3>3
    <3>7. View(t, c, w)'
      BY <1>3, <3>1, <3>3, <3>4, <3>5, <3>6, EffectView
    <3> QED BY <3>2, <3>7
  <2>11. ASSUME NEW W, NEW K, OnTo(c, V[c], N[c], p[c][t], W, K)
         PROVE Numbers(Put(V, c, W), Put(N, c, K), Put(p, c, To(c, p[c], t, p[c][t] + 1)))'
    <3>1. W[p[c][t] + 1].all = v.all \cup {Entry(c, v, e)} /\ v = V[c][p[c][t]]
      BY <1>0, <2>10, <2>11 DEF OnTo, E
    <3>2. (\A o \in Task \ {t} : next_id'[o] = next_id[o])
      BY <2>2
    <3>3. c \in Component /\ t \in Members(c) /\ e \in {"file", "decomp"} /\ NextId(e) \in v.have /\ next_id[t][e] = v.nid[e]
      BY <1>2, <1>11, <2>1, <2>2
    <3>4. \A l \in {"file", "decomp"} : next_id'[t][l] = IF l = e THEN next_id[t][e] + 1 ELSE next_id[t][l]
      BY <2>2
    <3> QED BY <2>11, <3>1, <3>2, <3>3, <3>4, RecordNumbers
  <2>12. \E w : VStep(c, v, w)
    BY <1>4, EffectIs DEF VStep
  <2>13. Step(t).do \notin {"message", "arg"} \cup FromComp \cup FromIO
    BY <1>1 DEF FromComp, FromIO
  <2>14. \A w : VStep(c, v, w) => View(t, c, w)'
    BY <2>10
  <2>15. c = CompOf(t) /\ v = V[c][p[c][t]] /\ chan' = chan /\ pending' = pending /\ loop' = loop /\ todo[t] # <<>>
    BY <1>0, <1>1
  <2> QED BY <1>3, <2>7, <2>8, <2>9, <2>11, <2>12, <2>13, <2>14, <2>15, Silent
<1>12. CASE e \notin {"file", "decomp"}
  <2> DEFINE kind == IF e = "close" THEN "file" ELSE IF e = "freedecomp" THEN "decomp" ELSE "none"
             T == {x \in tables[t] : ~(x.kind = kind /\ kind # "none" /\ x.id = v.cur[kind])}
  <2>1. UNCHANGED <<cur, next_id, made>>
    BY <1>0, <1>12 DEF TakeEffect, Drop
  <2>2. tables' = [tables EXCEPT ![t] = T]
    <3>1. CASE e = "close"
      <4>1. tables' = [tables EXCEPT ![t] = {x \in tables[t] : ~(x.kind = "file" /\ x.id = cur[t].file)}]
        BY <1>0, <3>1 DEF TakeEffect, Drop
      <4>2. T = {x \in tables[t] : ~(x.kind = "file" /\ x.id = cur[t].file)}
        BY <1>5, <3>1
      <4> QED BY <4>1, <4>2
    <3>2. CASE e = "freedecomp"
      <4>1. tables' = [tables EXCEPT ![t] = {x \in tables[t] : ~(x.kind = "decomp" /\ x.id = cur[t].decomp)}]
        BY <1>0, <3>2 DEF TakeEffect, Drop
      <4>2. T = {x \in tables[t] : ~(x.kind = "decomp" /\ x.id = cur[t].decomp)}
        BY <1>5, <3>2
      <4> QED BY <4>1, <4>2
    <3>3. CASE e \notin {"close", "freedecomp"}
      <4>1. tables' = tables
        BY <1>0, <1>12, <3>3 DEF TakeEffect
      <4>2. kind = "none"
        BY <3>3
      <4>3. T = tables[t]
        BY <4>2
      <4> HIDE DEF T
      <4> QED BY <1>8, <4>1, <4>3
    <3> QED BY <3>1, <3>2, <3>3
  <2>3. ASSUME NEW d \in Component \ {c}, t \in IOTask PROVE {x \in T : x.c = d} = {x \in tables[t] : x.c = d}
    <3>1. ASSUME NEW x \in tables[t], x.c = d PROVE x \in T
      <4>1. CASE kind = "none"
        BY <4>1
      <4>2. CASE kind # "none"
        <5>1. kind \in {"file", "decomp"}
          BY <4>2
        <5> HIDE DEF kind
        <5>2. x.kind = kind => x.id # v.cur[kind]
          BY <1>9, <2>3, <3>1, <5>1
        <5> QED BY <5>2
      <4> QED BY <4>1, <4>2
    <3> QED BY <3>1
  <2>4. {x \in T : x.c = c} = {x \in v.tbl : ~(x.kind = kind /\ kind # "none" /\ x.id = v.cur[kind])}
    BY <1>10
  <2>5. t \notin IOTask => T = {x \in v.tbl : ~(x.kind = kind /\ kind # "none" /\ x.id = v.cur[kind])}
    BY <1>10
  <2>6. T \subseteq tables[t]
    OBVIOUS
  <2>7. ASSUME NEW w, EffectStep(c, v, w)
        PROVE  /\ w.tbl = {x \in v.tbl : ~(x.kind = kind /\ kind # "none" /\ x.id = v.cur[kind])}
               /\ w.all = v.all /\ w.made = v.made /\ ArgsAt(t, w) = ArgsAt(t, v)
               /\ w.eh = (IF e = "error_handler" THEN v.cur.method ELSE v.eh)
               /\ w.open = (IF e = "exit" THEN FALSE ELSE v.open)
    <3>1. CASE e \in {"close", "freedecomp"}
      <4>1. Dropped(v, w, kind)
        BY <1>4, <2>7, <3>1 DEF EffectStep
      <4> QED BY <1>4, <2>7, <3>1, <4>1 DEF EffectStep, Dropped, ArgsAt
    <3>2. CASE e \notin {"close", "freedecomp"}
      <4>1. w.tbl = v.tbl /\ w.all = v.all /\ w.made = v.made /\ w.cur = v.cur /\ w.io = v.io
        BY <1>4, <1>12, <2>7, <3>2 DEF EffectStep
      <4> QED BY <1>4, <2>7, <3>2, <4>1 DEF EffectStep, ArgsAt
    <3> QED BY <3>1, <3>2
  <2> HIDE DEF T, kind
  <2>8. /\ tables' = [x \in Task |-> tables'[x]] /\ tables'[t] = T /\ (\A o \in Task \ {t} : tables'[o] = tables[o])
    BY <1>8, <2>2
  <2>9. \A o \in Task : \A x \in tables'[o] : x.c \in Component
    BY <1>8, <2>6, <2>8
  <2>10. Shaped'
    BY <1>1, <1>6, <1>7, <1>8, <2>1, <2>8, <2>9 DEF Shaped
  <2>11. Others(t)
    BY <1>1, <1>6, <1>7, <1>8, <2>1, <2>8 DEF Others
  <2>12. t \in IOTask => Alien(t, c)
    BY <1>6, <1>7, <2>1, <2>3, <2>8 DEF Alien
  <2>13. ASSUME NEW w, VStep(c, v, w) PROVE View(t, c, w)' /\ w.all = v.all
    <3>1. EffectStep(c, v, w)
      BY <1>4, <2>13, StepIs
    <3>2. /\ w.tbl = {x \in v.tbl : ~(x.kind = kind /\ kind # "none" /\ x.id = v.cur[kind])}
          /\ w.all = v.all /\ w.made = v.made /\ ArgsAt(t, w) = ArgsAt(t, v)
          /\ w.eh = (IF e = "error_handler" THEN v.cur.method ELSE v.eh)
          /\ w.open = (IF e = "exit" THEN FALSE ELSE v.open)
      BY <2>7, <3>1
    <3>3. eh'[t][c] = w.eh /\ (c \in open'[t] <=> w.open)
      BY <1>5, <1>6, <1>7, <1>10, <3>2
    <3>4. {x \in tables'[t] : x.c = c} = w.tbl /\ (t \notin IOTask => tables'[t] = w.tbl)
      BY <2>4, <2>5, <2>8, <3>2
    <3>5. cur'[t] = ArgsAt(t, w) /\ made'[t][c] = w.made /\ ierr'[t] = ierr[t]
      BY <1>1, <1>10, <2>1, <3>2
    <3>6. todo'[t] = Tail(todo[t]) /\ eh'[t][c] = w.eh
      BY <1>8, <3>3
    <3>7. View(t, c, w)'
      BY <1>3, <3>1, <3>3, <3>4, <3>5, <3>6, EffectView
    <3> QED BY <3>2, <3>7
  <2>14. ASSUME NEW W, NEW K, OnTo(c, V[c], N[c], p[c][t], W, K)
         PROVE Numbers(Put(V, c, W), Put(N, c, K), Put(p, c, To(c, p[c], t, p[c][t] + 1)))'
    <3>1. W[p[c][t] + 1].all = V[c][p[c][t]].all
      BY <1>0, <2>13, <2>14 DEF OnTo
    <3>2. Numbers(V, N, p) /\ \A o \in Members(c) : p[c][o] \in 1..N[c]
      BY <1>2 DEF Explained, Follows, TasksAt
    <3>3. next_id'[ioroot] = next_id[ioroot]
      BY <2>1
    <3>4. c \in Component /\ t \in Members(c) /\ LogOK(c, V[c], N[c])
      BY <1>2
    <3> QED BY <2>14, <3>1, <3>2, <3>3, <3>4, NumbersOn
  <2>15. \E w : VStep(c, v, w)
    BY <1>4, EffectIs DEF VStep
  <2>16. Step(t).do \notin {"message", "arg"} \cup FromComp \cup FromIO
    BY <1>1 DEF FromComp, FromIO
  <2>17. \A w : VStep(c, v, w) => View(t, c, w)'
    BY <2>13
  <2>18. c = CompOf(t) /\ v = V[c][p[c][t]] /\ chan' = chan /\ pending' = pending /\ loop' = loop /\ todo[t] # <<>>
    BY <1>0, <1>1
  <2> QED BY <1>3, <2>10, <2>11, <2>12, <2>14, <2>15, <2>16, <2>17, <2>18, Silent
<1> QED BY <1>11, <1>12

-----------------------------------------------------------------------------
(***************************************************************************)
(* The root of a broadcast sends it: the log gets longer.                  *)
(***************************************************************************)
\* What comes first tells the kind of the broadcast.
LEMMA KindIs ==
    ASSUME NEW c, NEW v, NEW w, OK(c, v), VStep(c, v, w), v.a # <<>>
    PROVE  /\ v.a[1].do = "message" => w.kind = "msg"
           /\ v.a[1].do = "arg" => w.kind = "arg"
           /\ v.a[1].do \in FromComp => w.kind = "comp"
           /\ v.a[1].do \in FromIO => w.kind = "io"
<1>1. FromIO = {"answer", "status", "next_id"} \cup {"outcome"}
  BY DEF FromIO
<1> QED BY <1>1, StepIs, StepKinds

\* The root has seen all it has sent.
LEMMA RootIsLast ==
    ASSUME NEW V, NEW N, NEW p, NEW c \in Component, Follows(c, V, N, p),
           NEW k \in Kinds \ {"begin"}, NEW t, Sender(c, k) = t,
           \A w : VStep(c, V[p[t]], w) => w.kind = k
    PROVE  p[t] = N
<1>1. LogOK(c, V, N) /\ Boxes(c, V, N, p)
  BY DEF Follows
<1>2. t \in Readers(c, k) /\ t \in Members(c) /\ Box(t, c, k) = <<>>
  <2>1. t = (IF k = "io" THEN ioroot ELSE comproot(c)) /\ k \in {"msg", "arg", "comp", "io"}
    BY DEF Sender, Kinds
  <2>2. comproot(c) \in Members(c) /\ comproot(c) \notin IOTask /\ ioroot \in Members(c)
    BY TaskKinds
  <2>3. Box(t, c, k) = <<>>
    BY <2>1, <2>2, BoxIs
  <2>4. t \in Readers(c, k)
    BY <2>1, <2>2 DEF Readers
  <2> QED BY <2>1, <2>2, <2>3, <2>4
<1>3. p[t] \in 1..N
  BY <1>2 DEF Follows, TasksAt
<1> DEFINE i == p[t]
<1>4. Holds(<<>>, V, N, V[i].n[k], k)
  BY <1>1, <1>2 DEF Boxes
<1>5. V[i].n[k] \in Nat /\ V[i].n[k] = V[N].n[k]
  <2>1. V[i].n[k] \in Nat
    BY <1>1, <1>3, LogAt
  <2> HIDE DEF i
  <2> QED BY <1>1, <1>4, <2>1, HoldsLen
<1>6. ASSUME i # N PROVE FALSE
  <2>1. i + 1 \in 1..N /\ VStep(c, V[i], V[i + 1]) /\ OK(c, V[i])
    BY <1>1, <1>3, <1>6, LogAt
  <2>2. V[i + 1].kind = k
    BY <2>1
  <2>3. V[i + 1].n[k] = V[i].n[k] + 1
    BY <2>1, <2>2, StepCounts
  <2>4. V[i + 1].n[k] <= V[N].n[k]
    BY <1>1, <2>1, LogAt
  <2> QED BY <1>5, <2>3, <2>4
<1> QED BY <1>6

LEMMA Sending ==
    ASSUME CallsAgree, NEW V, NEW N, NEW p, NEW G, NEW M, NEW g, Explained(V, N, p, G, M, g), Shaped',
           NEW t \in Task, todo[t] # <<>>, NEW c, CompOf(t) = c, NEW v, V[c][p[c][t]] = v, View(t, c, v),
           NEW k \in {"msg", "arg", "comp", "io"}, t = Sender(c, k), \A w : VStep(c, v, w) => w.kind = k,
           NEW item, chan' = [l \in Links |-> IF l \in LinksFor(c, k) THEN Append(chan[l], item) ELSE chan[l]],
           Others(t), pending' = pending, loop' = loop, next_id' = next_id,
           tables' = tables, made' = made, eh' = eh, open' = open,
           NEW w, VStep(c, v, w), w.item = item, View(t, c, w)'
    PROVE  \E V2, N2, p2 : Explained(V2, N2, p2, G, M, g)'
<1>1. /\ c \in Component /\ t \in Members(c) /\ p[c][t] \in 1..N[c] /\ OK(c, v)
      /\ LogOK(c, V[c], N[c]) /\ Follows(c, V[c], N[c], p[c])
      /\ t \in IOTask => /\ loop[t].c = c /\ loop[t].at = "call" /\ LoopAt(t, loop[t], G[g[t]].rem)
                         /\ \A d \in Component : IOAt(t, d, V[d][p[d][t]], V[d][N[d]].n["begin"])
  BY Acting
<1>2. k \in Kinds \ {"begin"} /\ w.kind = k
  BY DEF Kinds
<1>3. p[c][t] = N[c]
  BY <1>1, <1>2, RootIsLast
<1>4. Shaped
  BY DEF Explained
<1>5. Sent(c, t, w.kind, w.item)
  BY <1>1, <1>2, <1>4, AllSent
<1>6. Alien(t, c)
  BY DEF Alien
<1>7. Apart(c, t, V, N, p)'
  BY <1>1, <1>6, ApartStays
<1>8. Stays(t, G[g[t]].rem)
  BY <1>1 DEF Stays, LoopAt
<1>9. Arrived(t, c, v, w, w.n["begin"])
  <2>1. /\ t \in CompTask(c) /\ t \notin IOTask => CompAt(t, c, w)'
        /\ t \in IOTask => \A b : IOAt(t, c, w, b)'
    BY <1>1, ViewOut
  <2>2. t \in CompTask(c) => t \notin IOTask
    BY <1>1, TaskKinds
  <2>3. t \in IOTask => w.n["msg"] = v.n["msg"]
    <3> SUFFICES ASSUME t \in IOTask PROVE w.n["msg"] = v.n["msg"]
      OBVIOUS
    <3>1. comproot(c) \notin IOTask
      BY <1>1, TaskKinds
    <3>2. k = "io"
      BY <3>1 DEF Sender
    <3>3. IF w.kind = "msg" THEN w.n["msg"] = v.n["msg"] + 1 ELSE w.n["msg"] = v.n["msg"]
      BY <1>1, StepCounts DEF Kinds
    <3> QED BY <1>2, <3>2, <3>3
  <2> QED BY <2>1, <2>2, <2>3 DEF Arrived
<1> DEFINE K == N[c] + 1
           W == Ext(V[c], N[c], w)
<1>10. N[c] \in Nat /\ W[K] = w
  <2>1. N[c] \in Nat
    BY <1>1, LogAt
  <2> QED BY <2>1, ExtAt
<1>11. OnTo(c, V[c], N[c], p[c][t], W, K)
  BY <1>3, <1>10 DEF OnTo
<1>12. w.all = v.all
  <2>1. ~EffectStep(c, v, w)
    BY <1>1, <1>2, StepKinds
  <2> QED BY <1>1, <2>1, StepAll
<1> HIDE DEF W
<1>13. Numbers(Put(V, c, W), Put(N, c, K), Put(p, c, To(c, p[c], t, K)))'
  <2>1. Numbers(V, N, p) /\ \A o \in Members(c) : p[c][o] \in 1..N[c]
    BY <1>1 DEF Explained, Follows, TasksAt
  <2>2. W[p[c][t] + 1].all = V[c][p[c][t]].all
    BY <1>3, <1>10, <1>12
  <2>3. c \in Component /\ t \in Members(c) /\ LogOK(c, V[c], N[c]) /\ next_id'[ioroot] = next_id[ioroot]
    BY <1>1
  <2>4. Numbers(Put(V, c, W), Put(N, c, K), Put(p, c, To(c, p[c], t, p[c][t] + 1)))'
    BY <1>11, <2>1, <2>2, <2>3, NumbersOn
  <2> QED BY <1>3, <2>4
<1>14. /\ c \in Component /\ t \in Members(c) /\ (\A o \in CompTask(c) \ {t} : pending'[o] = pending[o])
       /\ VStep(c, V[c][N[c]], w) /\ w.kind # "begin" /\ Arrived(t, c, V[c][p[c][t]], w, w.n["begin"])
  BY <1>1, <1>2, <1>3, <1>9
<1> QED BY <1>3, <1>5, <1>7, <1>8, <1>13, <1>14, GoNew DEF W, K

\* A step of t that changes no more than paths, what it has to do and its error code.
LEMMA OnlySends ==
    ASSUME Shaped, NEW t \in Task, NEW s, NEW e, todo' = [todo EXCEPT ![t] = s], ierr' = [ierr EXCEPT ![t] = e],
           chan' = [l \in Links |-> chan'[l]],
           UNCHANGED <<pending, cur, tables, next_id, eh, loop, open, made>>
    PROVE  Shaped' /\ Others(t) /\ todo'[t] = s /\ ierr'[t] = e
<1>1. todo = [x \in Task |-> todo[x]] /\ ierr = [x \in Task |-> ierr[x]]
  BY DEF Shaped
<1>2. todo'[t] = s /\ ierr'[t] = e
  BY <1>1
<1>3. \A o \in Task : o # t => todo'[o] = todo[o] /\ ierr'[o] = ierr[o]
  BY <1>1
<1>4. todo' = [x \in Task |-> todo'[x]] /\ ierr' = [x \in Task |-> ierr'[x]]
  BY <1>1
<1>5. Shaped'
  BY <1>4 DEF Shaped
<1>6. Others(t)
  BY <1>3 DEF Others
<1> QED BY <1>2, <1>5, <1>6

LEMMA SameCode ==
    ASSUME Shaped, NEW t, ierr' = ierr
    PROVE  ierr' = [ierr EXCEPT ![t] = ierr[t]]
<1>1. ierr = [x \in Task |-> ierr[x]]
  BY DEF Shaped
<1> QED BY <1>1

\* The I/O tasks send no messages and no arguments of functions.
LEMMA NotIO ==
    ASSUME NEW t, NEW c, NEW v, OK(c, v), View(t, c, v), todo[t] # <<>>, Step(t).do \in {"message", "arg"}
    PROVE  t \notin IOTask
BY ViewStep DEF Same

LEMMA SendMessageGoes ==
    ASSUME CallsAgree, NEW V, NEW N, NEW p, NEW G, NEW M, NEW g, Explained(V, N, p, G, M, g),
           NEW t \in Task, SendMessage(t)
    PROVE  \E V2, N2, p2 : Explained(V2, N2, p2, G, M, g)'
<1>0. SUFFICES ASSUME NEW c, CompOf(t) = c, NEW v, V[c][p[c][t]] = v
               PROVE  \E V2, N2, p2 : Explained(V2, N2, p2, G, M, g)'
  OBVIOUS
<1>1. /\ todo[t] # <<>> /\ Step(t).do = "message" /\ t = comproot(t[1]) /\ Shaped
      /\ chan' = [l \in Links |-> IF l \in {MsgLink(t[1])} THEN Append(chan[l], Item(Step(t).x, FALSE, 0)) ELSE chan[l]]
      /\ todo' = [todo EXCEPT ![t] = Tail(todo[t])]
      /\ UNCHANGED <<pending, cur, ierr, tables, next_id, eh, loop, open, made>>
  BY DEF SendMessage, At, Busy, Goes, Send, Explained
<1>2. /\ c \in Component /\ t \in Members(c) /\ OK(c, v) /\ (t \notin IOTask => t[1] = c)
      /\ View(t, c, v) \/ Ahead1(t, c, v)
  BY <1>0, <1>1, Acting
<1>3. View(t, c, v)
  BY <1>1, <1>2, AheadAt
<1>4. v.a # <<>> /\ v.a[1].do = "message" /\ t \notin IOTask
  BY <1>1, <1>2, <1>3, ViewStep, NotIO
<1>5. Step(t) = v.a[1] /\ t[1] = c
  BY <1>1, <1>2, <1>3, <1>4, ViewStep
<1> DEFINE item == Item(v.a[1].x, FALSE, 0)
           h == Handler(v.a[1].x, {})
           w == [a |-> Tail(v.a),
                 b |-> IF Tail(v.a)[1].do = "arg" THEN <<>> ELSE IOSteps(h["call"]),
                 ph |-> IF Tail(v.a)[1].do = "arg" THEN "args" ELSE "start",
                 n |-> [x \in Kinds |-> v.n[x] + (IF x = "msg" THEN 1 ELSE 0)], kind |-> "msg", item |-> item,
                 msg |-> v.a[1].x, f |-> {}, got |-> 0, io |-> NoArgs, have |-> {}, ierr |-> v.ierr, nid |-> v.nid,
                 cur |-> v.cur, open |-> v.open, tbl |-> v.tbl, all |-> v.all, made |-> v.made, eh |-> v.eh]
<1>6. MsgStep(v, w)
  <2>1. Counts(v, w, "msg")
    BY DEF Counts
  <2>2. Enters(w)
    BY DEF Enters
  <2>3. Keeps(v, w)
    BY DEF Keeps
  <2>4. /\ w.a = Tail(v.a) /\ w.item = item /\ w.msg = v.a[1].x /\ w.f = {} /\ w.got = 0 /\ w.io = NoArgs
        /\ w.have = {} /\ w.ierr = v.ierr /\ w.nid = v.nid
    OBVIOUS
  <2> HIDE DEF w
  <2> QED BY <1>4, <2>1, <2>2, <2>3, <2>4 DEF MsgStep, At1
<1>7. VStep(c, v, w) /\ w.item = item
  BY <1>6 DEF VStep
<1> HIDE DEF w, item
<1>8. \A x : VStep(c, v, x) => x.kind = "msg"
  BY <1>2, <1>4, KindIs
<1>9. chan' = [l \in Links |-> IF l \in LinksFor(c, "msg") THEN Append(chan[l], item) ELSE chan[l]]
  BY <1>1, <1>5 DEF LinksFor, item
<1>10. Shaped' /\ Others(t) /\ todo'[t] = Tail(todo[t])
  <2>1. ierr' = [ierr EXCEPT ![t] = ierr[t]]
    BY <1>1, SameCode
  <2>2. chan' = [l \in Links |-> chan'[l]]
    BY <1>9
  <2>3. Shaped /\ todo' = [todo EXCEPT ![t] = Tail(todo[t])]
        /\ UNCHANGED <<pending, cur, tables, next_id, eh, loop, open, made>>
    BY <1>1
  <2> QED BY <2>1, <2>2, <2>3, OnlySends
<1>11. w.a = Tail(v.a) /\ w.have = {} /\ w.ierr = v.ierr /\ Keeps(v, w)
  BY <1>6 DEF MsgStep
<1>12. t = comproot(c) /\ t = Sender(c, "msg")
  BY <1>1, <1>5 DEF Sender
<1>13. View(t, c, w)'
  <2>1. todo'[t] = w.a /\ Left(t, w) = w.a /\ ArgsAt(t, w) = w.cur /\ Left(t, v) = v.a /\ ArgsAt(t, v) = v.cur
    BY <1>3, <1>4, <1>10, <1>11 DEF View, Left, ArgsAt
  <2>2. Tokens(t, w)'
    BY <1>11 DEF Tokens
  <2> QED BY <1>1, <1>3, <1>4, <1>11, <1>12, <2>1, <2>2 DEF View, Keeps, Left, ArgsAt
<1>14. /\ todo[t] # <<>> /\ pending' = pending /\ loop' = loop /\ next_id' = next_id
       /\ tables' = tables /\ made' = made /\ eh' = eh /\ open' = open
  BY <1>1
<1> QED BY <1>0, <1>3, <1>7, <1>8, <1>9, <1>10, <1>12, <1>13, <1>14, Sending

LEMMA SendArgGoes ==
    ASSUME CallsAgree, NEW V, NEW N, NEW p, NEW G, NEW M, NEW g, Explained(V, N, p, G, M, g),
           NEW t \in Task, SendArg(t)
    PROVE  \E V2, N2, p2 : Explained(V2, N2, p2, G, M, g)'
<1>0. SUFFICES ASSUME NEW c, CompOf(t) = c, NEW v, V[c][p[c][t]] = v
               PROVE  \E V2, N2, p2 : Explained(V2, N2, p2, G, M, g)'
  OBVIOUS
<1>1. /\ todo[t] # <<>> /\ Step(t).do = "arg" /\ t = comproot(t[1]) /\ Shaped
      /\ chan' = [l \in Links |-> IF l \in InterLinks(t[1])
                                  THEN Append(chan[l], Item(Step(t).x, Step(t).v, ArgValue(Step(t).x, cur[t])))
                                  ELSE chan[l]]
      /\ todo' = [todo EXCEPT ![t] = Tail(todo[t])]
      /\ UNCHANGED <<pending, cur, ierr, tables, next_id, eh, loop, open, made>>
  BY DEF SendArg, At, Busy, Goes, Send, Explained, ArgValue
<1>2. /\ c \in Component /\ t \in Members(c) /\ OK(c, v) /\ (t \notin IOTask => t[1] = c)
      /\ View(t, c, v) \/ Ahead1(t, c, v)
  BY <1>0, <1>1, Acting
<1>3. View(t, c, v)
  BY <1>1, <1>2, AheadAt
<1>4. v.a # <<>> /\ v.a[1].do = "arg" /\ t \notin IOTask
  BY <1>1, <1>2, <1>3, ViewStep, NotIO
<1>5. Step(t) = v.a[1] /\ t[1] = c /\ cur[t] = v.cur
  BY <1>1, <1>2, <1>3, <1>4, ViewStep DEF View, ArgsAt
<1> DEFINE val == ArgValue(v.a[1].x, v.cur)
           item == Item(v.a[1].x, v.a[1].v, val)
           f == IF v.a[1].v THEN v.f \cup {v.a[1].x[2]} ELSE v.f
           h == Handler(v.msg, f)
           w == [a |-> Tail(v.a),
                 b |-> IF Tail(v.a)[1].do = "arg" THEN <<>> ELSE IOSteps(h["call"]),
                 ph |-> IF Tail(v.a)[1].do = "arg" THEN "args" ELSE "start",
                 n |-> [x \in Kinds |-> v.n[x] + (IF x = "arg" THEN 1 ELSE 0)], kind |-> "arg", item |-> item,
                 msg |-> v.msg, f |-> f, got |-> v.got + 1, io |-> Heard(v.a[1].x, val, v.io),
                 have |-> v.have \cup {Gives(v.a[1])}, ierr |-> v.ierr, nid |-> v.nid,
                 cur |-> v.cur, open |-> v.open, tbl |-> v.tbl, all |-> v.all, made |-> v.made, eh |-> v.eh]
<1>6. ArgStep(v, w)
  <2>1. Counts(v, w, "arg")
    BY DEF Counts
  <2>2. Enters(w)
    BY DEF Enters
  <2>3. Keeps(v, w)
    BY DEF Keeps
  <2>4. /\ w.a = Tail(v.a) /\ w.item = item /\ w.msg = v.msg /\ w.f = f /\ w.got = v.got + 1
        /\ w.io = Heard(v.a[1].x, val, v.io)
        /\ w.have = v.have \cup {Gives(v.a[1])} /\ w.ierr = v.ierr /\ w.nid = v.nid
    OBVIOUS
  <2> HIDE DEF w
  <2> QED BY <1>4, <2>1, <2>2, <2>3, <2>4 DEF ArgStep, At1
<1>7. VStep(c, v, w) /\ w.item = item
  BY <1>6, Zenon DEF VStep
<1> HIDE DEF w, item, val, h, f
<1>8. \A x : VStep(c, v, x) => x.kind = "arg"
  BY <1>2, <1>4, KindIs
<1>9. chan' = [l \in Links |-> IF l \in LinksFor(c, "arg") THEN Append(chan[l], item) ELSE chan[l]]
  BY <1>1, <1>5 DEF LinksFor, item, val
<1>10. Shaped' /\ Others(t) /\ todo'[t] = Tail(todo[t])
  <2>1. ierr' = [ierr EXCEPT ![t] = ierr[t]]
    BY <1>1, SameCode
  <2>2. chan' = [l \in Links |-> chan'[l]]
    BY <1>9
  <2>3. Shaped /\ todo' = [todo EXCEPT ![t] = Tail(todo[t])]
        /\ UNCHANGED <<pending, cur, tables, next_id, eh, loop, open, made>>
    BY <1>1
  <2> QED BY <2>1, <2>2, <2>3, OnlySends
<1>11. w.a = Tail(v.a) /\ w.have = v.have \cup {Gives(v.a[1])} /\ w.ierr = v.ierr /\ w.nid = v.nid /\ Keeps(v, w)
  BY <1>6 DEF ArgStep
<1>12. t = comproot(c) /\ t = Sender(c, "arg")
  BY <1>1, <1>5 DEF Sender
<1>13. View(t, c, w)'
  <2>1. todo'[t] = w.a /\ Left(t, w) = w.a /\ ArgsAt(t, w) = w.cur /\ Left(t, v) = v.a /\ ArgsAt(t, v) = v.cur
    BY <1>3, <1>4, <1>10, <1>11 DEF View, Left, ArgsAt
  <2>2. Tokens(t, w)'
    <3>1. \A k : NextId(k) \in w.have => NextId(k) \in v.have
      BY <1>4, <1>11, Names
    <3>2. Tokens(t, v)
      BY <1>3 DEF View
    <3> QED BY <1>1, <1>11, <3>1, <3>2 DEF Tokens
  <2> QED BY <1>1, <1>3, <1>4, <1>11, <1>12, <2>1, <2>2 DEF View, Keeps, Left, ArgsAt
<1>14. /\ todo[t] # <<>> /\ pending' = pending /\ loop' = loop /\ next_id' = next_id
       /\ tables' = tables /\ made' = made /\ eh' = eh /\ open' = open
  BY <1>1
<1> QED BY <1>0, <1>3, <1>7, <1>8, <1>9, <1>10, <1>12, <1>13, <1>14, Sending

\* What numbers are asked for.
LEMMA NextIdOf ==
    ASSUME NEW c, NEW v, OK(c, v), v.a # <<>>, v.a[1].do = "next_id"
    PROVE  v.a[1].x \in {"file", "decomp"}
<1>1. Sq(v.a) /\ (Failing(v.a) \/ Texty(v.a, v.have))
  BY DEF OK, Shape, Text
<1>2. 1 \in DOMAIN v.a
  BY <1>1, SqDomain
<1> QED BY <1>1, <1>2 DEF Failing, Texty, Fits, Local

LEMMA SendShareGoes ==
    ASSUME CallsAgree, NEW V, NEW N, NEW p, NEW G, NEW M, NEW g, Explained(V, N, p, G, M, g),
           NEW t \in Task, SendShare(t)
    PROVE  \E V2, N2, p2 : Explained(V2, N2, p2, G, M, g)'
<1>0. SUFFICES ASSUME NEW c, CompOf(t) = c, NEW v, V[c][p[c][t]] = v
               PROVE  \E V2, N2, p2 : Explained(V2, N2, p2, G, M, g)'
  OBVIOUS
<1>1. /\ todo[t] # <<>> /\ Step(t).do \in FromComp /\ t = comproot(c) /\ Shaped
      /\ todo' = [todo EXCEPT ![t] = Tail(todo[t])]
      /\ UNCHANGED <<pending, cur, tables, next_id, eh, loop, open, made>>
  BY <1>0 DEF SendShare, At, Busy, Goes, Explained
<1>a. PICK bad \in BOOLEAN :
         /\ bad => Step(t).do = "verdict"
         /\ chan' = [l \in Links |-> IF l \in CompLinks(c) THEN Append(chan[l], Item(Step(t).x, bad, 0)) ELSE chan[l]]
         /\ ierr' = [ierr EXCEPT ![t] = IF bad THEN "err" ELSE ierr[t]]
  BY <1>0 DEF SendShare, Send
<1>2. /\ c \in Component /\ t \in Members(c) /\ OK(c, v) /\ (t \notin IOTask => t[1] = c)
      /\ View(t, c, v) \/ Ahead1(t, c, v)
  BY <1>0, <1>1, Acting
<1>3. View(t, c, v) /\ t \notin IOTask
  BY <1>1, <1>2, TaskKinds DEF Ahead1
<1>4. v.a # <<>> /\ v.a[1] = Step(t)
  BY <1>1, <1>2, <1>3, ViewStep
<1> DEFINE item == Item(v.a[1].x, bad, 0)
           e == IF bad THEN "err" ELSE v.ierr
           w == Moved(v, Tail(v.a), Tail(v.b), e, "comp", item, v.have, v.nid)
<1>5. /\ w.a = Tail(v.a) /\ w.b = Tail(v.b) /\ w.ierr = e /\ w.item = item /\ w.io = v.io /\ w.nid = v.nid
      /\ Counts(v, w, "comp") /\ InCall(v, w, v.have) /\ Keeps(v, w)
  <2> HIDE DEF e, item
  <2> QED BY MovedIs
<1>6. ShareStep(v, w)
  <2>1. w.item = Item(v.a[1].x, bad, 0) /\ w.ierr = (IF bad THEN "err" ELSE v.ierr)
    BY <1>5
  <2> HIDE DEF w, e, item
  <2> QED BY <1>1, <1>a, <1>4, <1>5, <2>1 DEF ShareStep, At1
<1>7. VStep(c, v, w) /\ w.item = item
  BY <1>5, <1>6 DEF VStep
<1> HIDE DEF w
<1>8. \A x : VStep(c, v, x) => x.kind = "comp"
  BY <1>1, <1>2, <1>4, KindIs
<1>9. chan' = [l \in Links |-> IF l \in LinksFor(c, "comp") THEN Append(chan[l], item) ELSE chan[l]]
  BY <1>a, <1>4 DEF LinksFor
<1> HIDE DEF item
<1>10. Shaped' /\ Others(t) /\ todo'[t] = Tail(todo[t]) /\ ierr'[t] = e
  <2>1. ierr' = [ierr EXCEPT ![t] = e]
    BY <1>3, <1>a DEF View
  <2>2. chan' = [l \in Links |-> chan'[l]]
    BY <1>9
  <2>3. Shaped /\ todo' = [todo EXCEPT ![t] = Tail(todo[t])]
        /\ UNCHANGED <<pending, cur, tables, next_id, eh, loop, open, made>>
    BY <1>1
  <2> HIDE DEF e
  <2> QED BY <2>1, <2>2, <2>3, OnlySends
<1>12. t = Sender(c, "comp")
  BY <1>1 DEF Sender
<1>13. View(t, c, w)'
  <2>1. todo'[t] = Left(t, w) /\ ierr'[t] = w.ierr
    BY <1>3, <1>5, <1>10 DEF View, Left
  <2>2. /\ Keeps(v, w) /\ w.io = v.io /\ w.nid = v.nid /\ InCall(v, w, v.have) /\ v.have \subseteq v.have
        /\ next_id' = next_id /\ cur' = cur /\ tables' = tables /\ made' = made /\ eh' = eh /\ open' = open
    BY <1>1, <1>5
  <2> QED BY <1>3, <2>1, <2>2, ViewQuiet
<1>14. /\ todo[t] # <<>> /\ pending' = pending /\ loop' = loop /\ next_id' = next_id
       /\ tables' = tables /\ made' = made /\ eh' = eh /\ open' = open
  BY <1>1
<1> QED BY <1>0, <1>3, <1>7, <1>8, <1>9, <1>10, <1>12, <1>13, <1>14, Sending

LEMMA SendAnswerGoes ==
    ASSUME CallsAgree, NEW V, NEW N, NEW p, NEW G, NEW M, NEW g, Explained(V, N, p, G, M, g),
           NEW t \in Task, SendAnswer(t)
    PROVE  \E V2, N2, p2 : Explained(V2, N2, p2, G, M, g)'
<1>0. SUFFICES ASSUME NEW c, CompOf(t) = c, NEW v, V[c][p[c][t]] = v,
                      NEW val, val = IF Step(t).do = "next_id" THEN next_id[t][Step(t).x] ELSE 0,
                      NEW item, Item(Meant(Step(t)), FALSE, val) = item
               PROVE  \E V2, N2, p2 : Explained(V2, N2, p2, G, M, g)'
  OBVIOUS
<1>1. /\ todo[t] # <<>> /\ Step(t).do \in {"answer", "status", "next_id"} /\ t = ioroot /\ Shaped
      /\ todo' = [todo EXCEPT ![t] = Tail(todo[t])]
      /\ chan' = [l \in Links |-> IF l \in IOLinks(c) THEN Append(chan[l], item) ELSE chan[l]]
      /\ UNCHANGED <<pending, cur, ierr, tables, next_id, eh, loop, open, made>>
  BY <1>0 DEF SendAnswer, At, Busy, Goes, Explained, Send
<1>2. /\ c \in Component /\ t \in Members(c) /\ OK(c, v) /\ (t \notin IOTask => t[1] = c)
      /\ View(t, c, v) \/ Ahead1(t, c, v)
  BY <1>0, <1>1, Acting
<1>3. View(t, c, v) /\ t \in IOTask
  BY <1>1, <1>2, TaskKinds DEF Ahead1
<1>4. /\ v.a # <<>> /\ v.a[1].do = Step(t).do /\ (v.a[1].do = "next_id" => v.a[1].x = Step(t).x)
      /\ Same(v.a[1], Step(t)) /\ todo[t] = v.b /\ ierr[t] = v.ierr
  BY <1>1, <1>2, <1>3, ViewStep DEF View, Left
<1>5. Meant(Step(t)) = Meant(v.a[1])
  BY <1>1, <1>4 DEF Meant, Same
<1> DEFINE have == v.have \cup (IF v.a[1].do = "next_id" THEN {NextId(v.a[1].x)} ELSE {})
           nid == [k \in {"file", "decomp"} |-> IF v.a[1].do = "next_id" /\ k = v.a[1].x THEN val ELSE v.nid[k]]
           w == Moved(v, Tail(v.a), Tail(v.b), v.ierr, "io", item, have, nid)
<1>6. /\ w.a = Tail(v.a) /\ w.b = Tail(v.b) /\ w.ierr = v.ierr /\ w.item = item /\ w.io = v.io /\ w.nid = nid
      /\ Counts(v, w, "io") /\ InCall(v, w, have) /\ Keeps(v, w)
  <2> HIDE DEF have, nid
  <2> QED BY MovedIs
<1>b. item = Item(Meant(v.a[1]), FALSE, item.val) /\ item.val = val
  BY <1>0, <1>5 DEF Item
<1>7. AnswerStep(v, w)
  <2>1. w.item = Item(Meant(v.a[1]), FALSE, w.item.val) /\ w.item.val = val
    BY <1>6, <1>b, Zenon
  <2>2. \A k \in {"file", "decomp"} :
          w.nid[k] = IF v.a[1].do = "next_id" /\ k = v.a[1].x THEN val ELSE v.nid[k]
    BY <1>6, Zenon
  <2>3. InCall(v, w, v.have \cup (IF v.a[1].do = "next_id" THEN {NextId(v.a[1].x)} ELSE {}))
    BY <1>6, Zenon
  <2> HIDE DEF w, have, nid
  <2> QED BY <1>1, <1>4, <1>6, <2>1, <2>2, <2>3 DEF AnswerStep, At1
<1>8. VStep(c, v, w) /\ w.item = item
  BY <1>6, <1>7, Zenon DEF VStep
<1> HIDE DEF w
<1>9. \A x : VStep(c, v, x) => x.kind = "io"
  BY <1>1, <1>2, <1>4, KindIs DEF FromIO
<1>10. chan' = [l \in Links |-> IF l \in LinksFor(c, "io") THEN Append(chan[l], item) ELSE chan[l]]
  BY <1>1 DEF LinksFor
<1>11. Shaped' /\ Others(t) /\ todo'[t] = Tail(todo[t])
  <2>1. ierr' = [ierr EXCEPT ![t] = ierr[t]]
    BY <1>1, SameCode
  <2>2. chan' = [l \in Links |-> chan'[l]]
    BY <1>10
  <2>3. Shaped /\ todo' = [todo EXCEPT ![t] = Tail(todo[t])]
        /\ UNCHANGED <<pending, cur, tables, next_id, eh, loop, open, made>>
    BY <1>1
  <2> QED BY <2>1, <2>2, <2>3, OnlySends
<1>12. t = Sender(c, "io")
  BY <1>1 DEF Sender
<1>13. View(t, c, w)'
  <2>1. todo'[t] = Left(t, w) /\ ierr'[t] = w.ierr
    BY <1>1, <1>3, <1>4, <1>6, <1>11 DEF Left
  <2>2. Tokens(t, v) /\ next_id' = next_id
    BY <1>1, <1>3 DEF View
  <2>3. \A k \in {"file", "decomp"} : NextId(k) \in w.have => next_id'[t][k] = w.nid[k]
    <3> SUFFICES ASSUME NEW k \in {"file", "decomp"}, NextId(k) \in w.have PROVE next_id'[t][k] = w.nid[k]
      OBVIOUS
    <3>1. NextId(k) \in have
      BY <1>6 DEF InCall
    <3>2. w.nid[k] = IF v.a[1].do = "next_id" /\ k = v.a[1].x THEN val ELSE v.nid[k]
      BY <1>6
    <3>3. CASE v.a[1].do = "next_id" /\ k = v.a[1].x
      BY <1>0, <1>4, <2>2, <3>2, <3>3
    <3>4. CASE v.a[1].do # "next_id"
      BY <2>2, <3>1, <3>2, <3>4 DEF Tokens
    <3>5. CASE v.a[1].do = "next_id" /\ k # v.a[1].x
      <4>1. v.a[1].x \in {"file", "decomp"}
        BY <1>2, <1>4, <3>5, NextIdOf
      <4>2. NextId(k) # NextId(v.a[1].x)
        BY <3>5, <4>1, Names
      <4> QED BY <2>2, <3>1, <3>2, <3>5, <4>2 DEF Tokens
    <3> QED BY <3>3, <3>4, <3>5
  <2>4. /\ Keeps(v, w) /\ w.io = v.io /\ w.ph = "in"
        /\ cur' = cur /\ tables' = tables /\ made' = made /\ eh' = eh /\ open' = open
    BY <1>1, <1>6 DEF InCall
  <2> HIDE DEF have, nid
  <2> QED BY <1>3, <2>1, <2>3, <2>4, ViewKept
<1>14. /\ todo[t] # <<>> /\ pending' = pending /\ loop' = loop /\ next_id' = next_id
       /\ tables' = tables /\ made' = made /\ eh' = eh /\ open' = open
  BY <1>1
<1> HIDE DEF have, nid
<1> QED BY <1>0, <1>3, <1>8, <1>9, <1>10, <1>11, <1>12, <1>13, <1>14, Sending

LEMMA SendOutcomeGoes ==
    ASSUME CallsAgree, NEW V, NEW N, NEW p, NEW G, NEW M, NEW g, Explained(V, N, p, G, M, g),
           NEW t \in Task, SendOutcome(t)
    PROVE  \E V2, N2, p2 : Explained(V2, N2, p2, G, M, g)'
<1>0. SUFFICES ASSUME NEW c, CompOf(t) = c, NEW v, V[c][p[c][t]] = v
               PROVE  \E V2, N2, p2 : Explained(V2, N2, p2, G, M, g)'
  OBVIOUS
<1>a. PICK e : /\ chan' = [l \in Links |-> IF l \in IOLinks(c) THEN Append(chan[l], Item(Ierr, FALSE, e)) ELSE chan[l]]
               /\ Proceed(t, e)
  BY <1>0 DEF SendOutcome, Send
<1>1. /\ todo[t] # <<>> /\ Step(t).do = "outcome" /\ t = ioroot /\ Shaped
      /\ todo' = [todo EXCEPT ![t] = Going(todo[t], e)]
      /\ ierr' = [ierr EXCEPT ![t] = e]
      /\ UNCHANGED <<pending, cur, tables, next_id, eh, loop, open, made>>
  BY <1>0, <1>a DEF SendOutcome, At, Busy, Explained, Proceed, Going
<1>2. /\ c \in Component /\ t \in Members(c) /\ OK(c, v) /\ (t \notin IOTask => t[1] = c)
      /\ View(t, c, v) \/ Ahead1(t, c, v)
  BY <1>0, <1>1, Acting
<1>3. View(t, c, v) /\ t \in IOTask
  BY <1>1, <1>2, TaskKinds DEF Ahead1
<1>4. v.a # <<>> /\ v.a[1].do = "outcome" /\ todo[t] = v.b
  BY <1>1, <1>2, <1>3, ViewStep DEF View, Left
<1> DEFINE item == Item(Ierr, FALSE, e)
           w == Moved(v, Going(v.a, e), Going(v.b, e), e, "io", item, v.have, v.nid)
<1>5. /\ w.a = Going(v.a, e) /\ w.b = Going(v.b, e) /\ w.ierr = e /\ w.item = item /\ w.io = v.io /\ w.nid = v.nid
      /\ Counts(v, w, "io") /\ InCall(v, w, v.have) /\ Keeps(v, w)
  <2> HIDE DEF item
  <2> QED BY MovedIs
<1> HIDE DEF w
<1>6. OutcomeStep(v, w)
  BY <1>4, <1>5 DEF OutcomeStep, At1
<1>7. VStep(c, v, w) /\ w.item = item
  BY <1>5, <1>6 DEF VStep
<1>8. \A x : VStep(c, v, x) => x.kind = "io"
  BY <1>2, <1>4, KindIs DEF FromIO
<1>9. chan' = [l \in Links |-> IF l \in LinksFor(c, "io") THEN Append(chan[l], item) ELSE chan[l]]
  BY <1>a DEF LinksFor
<1> HIDE DEF item
<1>10. Shaped' /\ Others(t) /\ todo'[t] = Going(todo[t], e) /\ ierr'[t] = e
  <2>2. chan' = [l \in Links |-> chan'[l]]
    BY <1>9
  <2>3. /\ Shaped /\ todo' = [todo EXCEPT ![t] = Going(todo[t], e)] /\ ierr' = [ierr EXCEPT ![t] = e]
        /\ UNCHANGED <<pending, cur, tables, next_id, eh, loop, open, made>>
    BY <1>1
  <2> QED BY <2>2, <2>3, OnlySends
<1>12. t = Sender(c, "io")
  BY <1>1 DEF Sender
<1>13. View(t, c, w)'
  <2>1. todo'[t] = Left(t, w) /\ ierr'[t] = w.ierr
    BY <1>3, <1>4, <1>5, <1>10 DEF Left
  <2>2. /\ Keeps(v, w) /\ w.io = v.io /\ w.nid = v.nid /\ InCall(v, w, v.have) /\ v.have \subseteq v.have
        /\ next_id' = next_id /\ cur' = cur /\ tables' = tables /\ made' = made /\ eh' = eh /\ open' = open
    BY <1>1, <1>5
  <2> QED BY <1>3, <2>1, <2>2, ViewQuiet
<1>14. /\ todo[t] # <<>> /\ pending' = pending /\ loop' = loop /\ next_id' = next_id
       /\ tables' = tables /\ made' = made /\ eh' = eh /\ open' = open
  BY <1>1
<1> QED BY <1>0, <1>3, <1>7, <1>8, <1>9, <1>10, <1>12, <1>13, <1>14, Sending

-----------------------------------------------------------------------------
(***************************************************************************)
(* The others receive it: what comes first on the path is what the next    *)
(* broadcast in the log was, and the task is where its root was.           *)
(***************************************************************************)
\* Task t sees what state v tells, whether or not the I/O tasks do already.
Near(t, c, v) ==
    /\ todo[t] = Left(t, v) /\ ierr[t] = v.ierr /\ cur[t] = ArgsAt(t, v)
    /\ {e \in tables[t] : e.c = c} = v.tbl /\ (t \notin IOTask => tables[t] = v.tbl)
    /\ made[t][c] = v.made /\ eh[t][c] = v.eh /\ (c \in open[t] <=> v.open) /\ Tokens(t, v)
    /\ t \in IOTask => v.ph # "args"

LEMMA NearKept ==
    ASSUME NEW t, NEW c, NEW v, NEW w, Near(t, c, v), Keeps(v, w), w.io = v.io, w.ph = "in",
           \A k \in {"file", "decomp"} : NextId(k) \in w.have => next_id'[t][k] = w.nid[k],
           todo'[t] = Left(t, w), ierr'[t] = w.ierr, cur' = cur, tables' = tables, made' = made, eh' = eh, open' = open
    PROVE  View(t, c, w)'
<1>1. ArgsAt(t, w) = ArgsAt(t, v)
  BY DEF ArgsAt, Keeps
<1>2. Tokens(t, w)'
  BY DEF Tokens
<1>3. (Left(t, w))' = Left(t, w) /\ (ArgsAt(t, w))' = ArgsAt(t, w)
  BY DEF Left, ArgsAt
<1> QED BY <1>1, <1>2, <1>3 DEF Near, View, Keeps

KindOf(t) == IF Step(t).do \in FromComp THEN "comp" ELSE "io"

\* x and w are the states before and after the broadcast that task t, in state v of
\* the log, is to receive next.
Due(t, c, v, x, w) ==
    /\ OK(c, x) /\ VStep(c, x, w) /\ Near(t, c, x)
    /\ x.a # <<>> /\ x.a[1].do = Step(t).do /\ (t \notin IOTask => x.a[1] = Step(t))
    /\ t \in IOTask => x = v /\ Same(x.a[1], Step(t))
    /\ w.kind = KindOf(t) /\ w.item = Head(chan[Source(t)])
    /\ \A k \in Kinds : t \in Readers(c, k) => w.n[k] = v.n[k] + (IF k = KindOf(t) THEN 1 ELSE 0)

LEMMA WaitsAt ==
    ASSUME NEW V, NEW N, NEW p, NEW G, NEW M, NEW g, Explained(V, N, p, G, M, g), NEW t \in Task,
           Waits(t), chan[Source(t)] # <<>>, NEW c, CompOf(t) = c, NEW v, V[c][p[c][t]] = v
    PROVE  /\ KindOf(t) \in {"comp", "io"} /\ t \in Readers(c, KindOf(t)) /\ Box(t, c, KindOf(t)) = chan[Source(t)]
           /\ Holds(chan[Source(t)], V[c], N[c], v.n[KindOf(t)], KindOf(t))
           /\ v.n[KindOf(t)] \in Nat /\ v.n[KindOf(t)] < V[c][N[c]].n[KindOf(t)]
           /\ todo[t] # <<>> /\ Step(t).do \in FromComp \cup FromIO
           /\ KindOf(t) = "comp" => Step(t).do \in FromComp /\ t # comproot(c)
           /\ KindOf(t) = "io" => Step(t).do \in FromIO /\ t # ioroot
<1>1. todo[t] # <<>> /\ Step(t).do \in FromComp \cup FromIO
  BY DEF Waits, Busy
<1>2. /\ KindOf(t) \in {"comp", "io"}
      /\ KindOf(t) = "comp" => Step(t).do \in FromComp /\ t # comproot(c)
      /\ KindOf(t) = "io" => Step(t).do \in FromIO /\ t # ioroot
  BY DEF Waits, KindOf, FromComp, FromIO
<1>3. Box(t, c, KindOf(t)) = chan[Source(t)]
  BY <1>2, BoxIs DEF Source, KindOf
<1>4. /\ c \in Component /\ t \in Members(c) /\ p[c][t] \in 1..N[c] /\ OK(c, v)
      /\ LogOK(c, V[c], N[c]) /\ Follows(c, V[c], N[c], p[c])
  BY <1>1, Acting
<1> DEFINE k == KindOf(t)
           s == chan[Source(t)]
<1>5. t \in Readers(c, k) /\ k \in Kinds
  BY <1>2, <1>4 DEF Readers, Kinds
<1>6. Holds(s, V[c], N[c], v.n[k], k)
  BY <1>3, <1>4, <1>5 DEF Follows, Boxes
<1>7. v.n[k] \in Nat
  BY <1>4, <1>5, LogAt
<1>8. s # <<>>
  OBVIOUS
<1> HIDE DEF k, s
<1>9. v.n[k] <= V[c][N[c]].n[k] /\ v.n[k] # V[c][N[c]].n[k]
  BY <1>4, <1>5, <1>6, <1>7, <1>8, HoldsLen
<1>10. V[c][N[c]].n[k] \in Nat
  BY <1>4, <1>5, LogAt
<1>11. v.n[k] < V[c][N[c]].n[k]
  BY <1>7, <1>9, <1>10
<1> QED BY <1>1, <1>2, <1>3, <1>5, <1>6, <1>7, <1>11 DEF k, s

\* The next state is the one after the broadcast.
LEMMA DueNext ==
    ASSUME NEW V, NEW N, NEW p, NEW G, NEW M, NEW g, Explained(V, N, p, G, M, g), NEW t \in Task,
           Waits(t), chan[Source(t)] # <<>>, NEW c, CompOf(t) = c, NEW v, V[c][p[c][t]] = v, View(t, c, v)
    PROVE  \E j \in 1..N[c] : \E x : Due(t, c, v, x, V[c][j])
<1> DEFINE i == p[c][t]
           w == V[c][i + 1]
           k == KindOf(t)
           s == chan[Source(t)]
<1>1. /\ k \in {"comp", "io"} /\ Holds(s, V[c], N[c], v.n[k], k)
      /\ v.n[k] \in Nat /\ v.n[k] < V[c][N[c]].n[k]
      /\ todo[t] # <<>> /\ Step(t).do \in FromComp \cup FromIO
      /\ k = "comp" => Step(t).do \in FromComp
      /\ k = "io" => Step(t).do \in FromIO
  BY WaitsAt
<1>2. /\ c \in Component /\ t \in Members(c) /\ i \in 1..N[c] /\ OK(c, v) /\ LogOK(c, V[c], N[c])
  BY <1>1, Acting
<1>3. i # N[c]
  BY <1>1
<1>4. i + 1 \in 1..N[c] /\ VStep(c, v, w)
  <2>1. i # N[c] => i + 1 \in 1..N[c] /\ VStep(c, V[c][i], V[c][i + 1])
    BY <1>2, LogAt
  <2>2. v = V[c][i]
    OBVIOUS
  <2>3. i + 1 \in 1..N[c] /\ VStep(c, V[c][i], w)
    BY <1>3, <2>1
  <2> HIDE DEF i, w, k, s
  <2> QED BY <2>2, <2>3
<1>5. /\ v.a # <<>> /\ v.a[1].do = Step(t).do /\ (t \notin IOTask => v.a[1] = Step(t))
      /\ t \in IOTask => Same(v.a[1], Step(t))
  BY <1>1, <1>2, ViewStep
<1> HIDE DEF i, k, s
<1>6. w.kind = k
  BY <1>1, <1>2, <1>4, <1>5, KindIs
<1>7. \A x \in Kinds : w.n[x] = v.n[x] + (IF x = k THEN 1 ELSE 0)
  BY <1>2, <1>4, <1>6, StepCounts
<1>8. w.item = Head(s)
  <2>1. w.n[k] = v.n[k] + 1 /\ k \in Kinds
    BY <1>1, <1>7 DEF Kinds
  <2> DEFINE j == i + 1
             m == v.n[k]
  <2>2. j \in 1..N[c] /\ V[c][j].kind = k /\ V[c][j].n[k] = m + 1 /\ m \in Nat /\ Holds(s, V[c], N[c], m, k)
    BY <1>1, <1>4, <1>6, <2>1
  <2> HIDE DEF j, m
  <2>3. Head(s) = V[c][j].item
    BY <1>2, <2>1, <2>2, HoldsTaken
  <2> QED BY <2>3 DEF j
<1>9. Near(t, c, v)
  BY DEF Near, View
<1> QED BY <1>2, <1>4, <1>5, <1>6, <1>7, <1>8, <1>9 DEF Due, k, s

\* So is the one that the root comes to while the I/O tasks are told about a call.
LEMMA DueAhead ==
    ASSUME NEW V, NEW N, NEW p, NEW G, NEW M, NEW g, Explained(V, N, p, G, M, g), NEW t \in Task,
           Waits(t), chan[Source(t)] # <<>>, NEW c, CompOf(t) = c, NEW v, V[c][p[c][t]] = v, Ahead1(t, c, v)
    PROVE  \E j \in 1..N[c] : \E x : Due(t, c, v, x, V[c][j])
<1> DEFINE i == p[c][t]
           s == chan[Source(t)]
<1>1. /\ Holds(s, V[c], N[c], v.n[KindOf(t)], KindOf(t))
      /\ v.n[KindOf(t)] \in Nat /\ v.n[KindOf(t)] < V[c][N[c]].n[KindOf(t)]
      /\ todo[t] # <<>>
  BY WaitsAt
<1>2. /\ c \in Component /\ t \in CompTask(c) /\ t \notin IOTask /\ t # comproot(c) /\ i \in 1..N[c] /\ OK(c, v)
      /\ LogOK(c, V[c], N[c]) /\ CompAt(t, c, v) /\ t \in Members(c)
  BY <1>1, Acting DEF Ahead1
<1>3. /\ Sq(todo[t]) /\ Step(t) = todo[t][1] /\ Step(t).do = "share" /\ KindOf(t) = "comp"
      /\ v.a # <<>> /\ v.a[1].do = "message" /\ Sq(v.a)
  BY <1>2, AheadAt DEF KindOf, FromComp
<1> DEFINE m == v.n["comp"] + 1
<1> HIDE DEF i, s
<1>4. m \in 1..V[c][N[c]].n["comp"] /\ m \in Nat
  <2>1. \A y \in Kinds : V[c][N[c]].n[y] \in Nat
    BY <1>2, LogAt
  <2>2. V[c][N[c]].n["comp"] \in Nat
    BY <2>1 DEF Kinds
  <2>3. v.n["comp"] \in Nat /\ v.n["comp"] < V[c][N[c]].n["comp"]
    BY <1>1, <1>3
  <2> QED BY <2>2, <2>3
<1>5. PICK j \in 1..N[c] : V[c][j].kind = "comp" /\ V[c][j].n["comp"] = m
  BY <1>2, <1>4 DEF LogOK, Found
<1>6. j # 1 /\ j - 1 \in 1..N[c] /\ (j - 1) + 1 = j
  <2>1. j # 1
    BY <1>2, <1>5 DEF LogOK
  <2>2. N[c] \in Nat
    BY <1>2, LogAt
  <2> QED BY <1>5, <2>1, <2>2
<1> DEFINE x == V[c][j - 1]
           w == V[c][j]
<1>7. VStep(c, x, w) /\ OK(c, x)
  <2>1. j - 1 # N[c]
    <3>1. N[c] \in Nat
      BY <1>2, LogAt
    <3> QED BY <1>5, <3>1
  <2> QED BY <1>2, <1>6, <2>1, LogAt
<1>8. \A k \in Kinds : w.n[k] = x.n[k] + (IF k = "comp" THEN 1 ELSE 0)
  BY <1>5, <1>7, StepCounts
<1>9. x.n["comp"] = v.n["comp"]
  <2>1. \A y \in Kinds : x.n[y] \in Nat
    BY <1>2, <1>6, LogAt
  <2>2. x.n["comp"] \in Nat /\ w.n["comp"] = x.n["comp"] + 1
    BY <1>8, <2>1 DEF Kinds
  <2> HIDE DEF x, w
  <2>3. w.n["comp"] = m /\ v.n["comp"] \in Nat
    BY <1>1, <1>3, <1>5 DEF w
  <2> QED BY <2>2, <2>3 DEF m
<1>10. i <= j - 1
  <2> SUFFICES ASSUME ~(i <= j - 1) PROVE FALSE
    OBVIOUS
  <2>1. j <= i
    BY <1>2, <1>5
  <2>3. \A y \in Kinds : V[c][j].n[y] <= V[c][i].n[y]
    BY <1>2, <1>5, <2>1, LogAt
  <2>2. w.n["comp"] <= v.n["comp"]
    BY <2>3 DEF Kinds, i
  <2>4. v.n["comp"] \in Nat
    BY <1>1, <1>3
  <2> QED BY <1>5, <2>2, <2>4
<1>11. Passed(v, x)
  <2>1. R(V[c][i], x)
    BY <1>2, <1>6, <1>10, LogAt
  <2> QED BY <2>1 DEF R, i
<1>12. PICK d \in 0..(Len(v.a) - 1) :
             /\ x.a = SubSeq(v.a, d + 1, Len(v.a))
             /\ \A l \in 1..d : v.a[l].do \in {"message", "arg"}
  BY <1>3, <1>9, <1>11 DEF Passed, At1
<1>13. /\ x.ierr = v.ierr /\ Keeps(v, x) /\ x.n["io"] = v.n["io"] /\ x.n["begin"] = v.n["begin"]
       /\ x.have \cap NextIds = {}
  BY <1>3, <1>9, <1>11 DEF Passed, At1
<1>14. x.a # <<>> /\ x.a[1].do \in FromComp
  <2>1. ShareStep(x, w)
    BY <1>5, <1>7, StepKinds
  <2> QED BY <2>1 DEF ShareStep, At1
<1>15. PICK e \in 1..(Len(v.a) - 1) :
             /\ todo[t] = SubSeq(v.a, e + 1, Len(v.a)) /\ \A l \in 1..e : v.a[l].do \in {"message", "arg"}
             /\ v.a[e + 1].do \notin {"message", "arg"}
  BY DEF Ahead1, PastArgs
<1>16. d = e
  <2>1. Len(v.a) \in Nat
    BY <1>3, SqDomain
  <2>2. x.a[1] = v.a[d + 1]
    <3>1. d \in 0..Len(v.a) /\ 1 \in 1..(Len(v.a) - d)
      BY <2>1
    <3>2. \A l \in 1..(Len(v.a) - d) : SubSeq(v.a, d + 1, Len(v.a))[l] = v.a[d + l]
      BY <1>3, <3>1, SqDrop
    <3>3. SubSeq(v.a, d + 1, Len(v.a))[1] = v.a[d + 1]
      BY <3>1, <3>2
    <3> QED BY <1>12, <3>3
  <2>3. ~(d < e)
    <3> SUFFICES ASSUME d < e PROVE FALSE
      OBVIOUS
    <3>1. d + 1 \in 1..e
      BY <2>1
    <3> QED BY <1>14, <1>15, <2>2, <3>1 DEF FromComp
  <2>4. ~(e < d)
    <3> SUFFICES ASSUME e < d PROVE FALSE
      OBVIOUS
    <3>1. e + 1 \in 1..d
      BY <2>1
    <3> QED BY <1>12, <1>15, <3>1
  <2> QED BY <2>1, <2>3, <2>4
<1>17. todo[t] = x.a
  BY <1>12, <1>15, <1>16
<1>18. Near(t, c, x)
  <2>1. Tokens(t, x)
    BY <1>13, Names DEF Tokens
  <2>2. \A f \in x.tbl : f.c = c
    BY <1>7 DEF OK, Listed
  <2> QED BY <1>1, <1>2, <1>13, <1>17, <2>1, <2>2 DEF Near, CompAt, Left, ArgsAt, Keeps
<1>19. Step(t) = x.a[1]
  BY <1>3, <1>17
<1>20. w.item = Head(s)
  <2> DEFINE n == v.n["comp"]
  <2>1. V[c][j].kind = "comp" /\ V[c][j].n["comp"] = n + 1 /\ n \in Nat /\ Holds(s, V[c], N[c], n, "comp")
    BY <1>1, <1>3, <1>5
  <2> HIDE DEF n
  <2>2. Head(s) = V[c][j].item
    BY <1>2, <1>5, <2>1, HoldsTaken DEF Kinds
  <2> QED BY <2>2
<1>21. \A k \in Kinds : t \in Readers(c, k) => w.n[k] = v.n[k] + (IF k = "comp" THEN 1 ELSE 0)
  <2> SUFFICES ASSUME NEW k \in Kinds, t \in Readers(c, k)
               PROVE  w.n[k] = v.n[k] + (IF k = "comp" THEN 1 ELSE 0)
    OBVIOUS
  <2>1. k \in {"begin", "comp", "io"}
    BY <1>2 DEF Readers, Kinds
  <2>2. x.n[k] = v.n[k]
    BY <1>9, <1>13, <2>1
  <2> QED BY <1>8, <2>2
<1> QED BY <1>2, <1>3, <1>5, <1>7, <1>14, <1>18, <1>19, <1>20, <1>21 DEF Due, s

LEMMA DueIs ==
    ASSUME NEW V, NEW N, NEW p, NEW G, NEW M, NEW g, Explained(V, N, p, G, M, g), NEW t \in Task,
           Waits(t), chan[Source(t)] # <<>>, NEW c, CompOf(t) = c, NEW v, V[c][p[c][t]] = v
    PROVE  \E j \in 1..N[c] : \E x : Due(t, c, v, x, V[c][j])
<1>1. todo[t] # <<>>
  BY DEF Waits, Busy
<1>2. View(t, c, v) \/ Ahead1(t, c, v)
  BY <1>1, Acting
<1>3. CASE View(t, c, v)
  BY <1>3, DueNext
<1>4. CASE Ahead1(t, c, v)
  BY <1>4, DueAhead
<1> QED BY <1>2, <1>3, <1>4

LEMMA Receiving ==
    ASSUME NEW V, NEW N, NEW p, NEW G, NEW M, NEW g, Explained(V, N, p, G, M, g), Shaped',
           NEW t \in Task, Waits(t), chan[Source(t)] # <<>>, NEW c, CompOf(t) = c, NEW v, V[c][p[c][t]] = v,
           Others(t), chan' = [chan EXCEPT ![Source(t)] = Tail(@)], pending' = pending, loop' = loop,
           next_id'[ioroot] = next_id[ioroot], tables' = tables, made' = made, eh' = eh, open' = open,
           \A x, w : Due(t, c, v, x, w) => View(t, c, w)'
    PROVE  \E V2, N2, p2 : Explained(V2, N2, p2, G, M, g)'
<1> DEFINE k == KindOf(t)
<1>1. /\ k \in {"comp", "io"} /\ t \in Readers(c, k) /\ todo[t] # <<>>
      /\ k = "comp" => t # comproot(c)
      /\ k = "io" => t # ioroot
      /\ Source(t) = <<k, c, t>>
  BY WaitsAt DEF Source, KindOf
<1>2. /\ c \in Component /\ t \in Members(c) /\ p[c][t] \in 1..N[c] /\ OK(c, v)
      /\ LogOK(c, V[c], N[c]) /\ Follows(c, V[c], N[c], p[c])
      /\ t \in IOTask => /\ loop[t].c = c /\ loop[t].at = "call" /\ LoopAt(t, loop[t], G[g[t]].rem)
                         /\ \A d \in Component : IOAt(t, d, V[d][p[d][t]], V[d][N[d]].n["begin"])
  BY <1>1, Acting
<1>3. PICK j \in 1..N[c] : \E x : Due(t, c, v, x, V[c][j])
  BY DueIs
<1> DEFINE w == V[c][j]
<1>4. PICK x : Due(t, c, v, x, w)
  BY <1>3
<1>5. View(t, c, w)'
  BY <1>4
<1> HIDE DEF k
<1>6. Shaped /\ Numbers(V, N, p)
  BY DEF Explained
<1>7. Taken(c, t, k)
  <2>1. \/ k = "comp" /\ t # comproot(c) /\ chan' = [chan EXCEPT ![<<"comp", c, t>>] = Tail(@)]
        \/ k = "io" /\ t # ioroot /\ chan' = [chan EXCEPT ![<<"io", c, t>>] = Tail(@)]
    BY <1>1
  <2> QED BY <1>2, <1>6, <2>1, OneTaken
<1>8. Alien(t, c)
  BY DEF Alien
<1>9. Apart(c, t, V, N, p)'
  BY <1>2, <1>8, ApartStays
<1>10. Stays(t, G[g[t]].rem)
  BY <1>2 DEF Stays, LoopAt
<1>11. t \in IOTask => w.n["msg"] = v.n["msg"] /\ w.all = v.all
  <2> SUFFICES ASSUME t \in IOTask PROVE w.n["msg"] = v.n["msg"] /\ w.all = v.all
    OBVIOUS
  <2>1. VStep(c, v, w) /\ w.kind = k
    BY <1>4 DEF Due, k
  <2>2. IF w.kind = "msg" THEN w.n["msg"] = v.n["msg"] + 1 ELSE w.n["msg"] = v.n["msg"]
    BY <1>2, <2>1, StepCounts DEF Kinds
  <2>3. ~EffectStep(c, v, w)
    BY <1>1, <1>2, <2>1, StepKinds
  <2>4. w.all = v.all
    BY <1>2, <2>1, <2>3, StepAll
  <2> QED BY <1>1, <2>1, <2>2, <2>4
<1>12. Arrived(t, c, v, w, V[c][N[c]].n["begin"])
  <2>1. /\ t \in CompTask(c) /\ t \notin IOTask => CompAt(t, c, w)'
        /\ t \in IOTask => \A b : IOAt(t, c, w, b)'
    BY <1>2, <1>5, ViewOut
  <2>2. t \in CompTask(c) => t \notin IOTask
    BY <1>2, TaskKinds
  <2> QED BY <1>11, <2>1, <2>2 DEF Arrived
<1>13. /\ \A l \in Kinds : t \in Readers(c, l) => V[c][j].n[l] = V[c][p[c][t]].n[l] + (IF l = k THEN 1 ELSE 0)
       /\ V[c][j].kind = k
  BY <1>4 DEF Due, k
<1> DEFINE W == V[c]
<1>14. Numbers(Put(V, c, W), Put(N, c, N[c]), Put(p, c, To(c, p[c], t, j)))'
  <2>1. /\ W[N[c]].all = V[c][N[c]].all /\ (\A o \in Members(c) \ {t} : W[p[c][o]] = V[c][p[c][o]])
        /\ t = ioroot => W[j].all = V[c][p[c][t]].all
    BY <1>11, TaskKinds
  <2>2. c \in Component /\ t \in Members(c) /\ Numbers(V, N, p) /\ next_id'[ioroot] = next_id[ioroot]
    BY <1>2, <1>6
  <2> HIDE DEF W
  <2> QED BY <2>1, <2>2, NumbersStay
<1>15. /\ c \in Component /\ t \in Members(c) /\ (\A o \in CompTask(c) \ {t} : pending'[o] = pending[o])
       /\ Arrived(t, c, V[c][p[c][t]], V[c][j], V[c][N[c]].n["begin"])
  BY <1>2, <1>12
<1> QED BY <1>7, <1>9, <1>10, <1>13, <1>14, <1>15, GoOld

\* What a step of t that receives changes.
LEMMA OnlyHears ==
    ASSUME Shaped, NEW t \in Task, NEW l, NEW s, NEW e, todo' = [todo EXCEPT ![t] = s], ierr' = [ierr EXCEPT ![t] = e],
           chan' = [chan EXCEPT ![l] = Tail(@)], NEW k, NEW n,
           next_id' = [next_id EXCEPT ![t] = [next_id[t] EXCEPT ![k] = n]] \/ next_id' = next_id,
           UNCHANGED <<pending, cur, tables, eh, loop, open, made>>
    PROVE  /\ Shaped' /\ Others(t) /\ todo'[t] = s /\ ierr'[t] = e
           /\ next_id'[t] = [next_id[t] EXCEPT ![k] = n] \/ next_id' = next_id
<1>1. todo = [x \in Task |-> todo[x]] /\ ierr = [x \in Task |-> ierr[x]] /\ chan = [x \in Links |-> chan[x]]
  BY DEF Shaped
<1>2. todo'[t] = s /\ ierr'[t] = e
  BY <1>1
<1>3. \A o \in Task : o # t => todo'[o] = todo[o] /\ ierr'[o] = ierr[o]
  BY <1>1
<1>4. /\ todo' = [x \in Task |-> todo'[x]] /\ ierr' = [x \in Task |-> ierr'[x]] /\ chan' = [x \in Links |-> chan'[x]]
  BY <1>1
<1> DEFINE kinds == {"file", "decomp"}
<1>5. next_id = [x \in Task |-> [y \in kinds |-> next_id[x][y]]]
  BY DEF Shaped
<1> HIDE DEF kinds
<1>6. next_id' = [x \in Task |-> [y \in kinds |-> next_id'[x][y]]]
  <2>1. CASE next_id' = next_id
    BY <1>5, <2>1
  <2>2. CASE next_id' = [next_id EXCEPT ![t] = [next_id[t] EXCEPT ![k] = n]]
    <3>1. next_id' = [x \in Task |-> IF x = t THEN [next_id[t] EXCEPT ![k] = n] ELSE next_id[x]]
      BY <1>5, <2>2
    <3>2. \A x \in Task : next_id[x] = [y \in kinds |-> next_id[x][y]]
      BY <1>5
    <3>3. [next_id[t] EXCEPT ![k] = n] = [y \in kinds |-> [next_id[t] EXCEPT ![k] = n][y]]
      BY <3>2
    <3>4. \A x \in Task : next_id'[x] = [y \in kinds |-> next_id'[x][y]]
      BY <3>1, <3>2, <3>3
    <3> QED BY <3>1, <3>4
  <2> QED BY <2>1, <2>2
<1>7. \A o \in Task : o # t => next_id'[o] = next_id[o]
  BY <1>5
<1>8. next_id'[t] = [next_id[t] EXCEPT ![k] = n] \/ next_id' = next_id
  BY <1>5
<1>9. Shaped'
  BY <1>4, <1>6 DEF Shaped, kinds
<1>10. Others(t)
  BY <1>3, <1>7 DEF Others
<1> QED BY <1>2, <1>8, <1>9, <1>10

LEMMA ReceivesGoes ==
    ASSUME CallsAgree, NEW V, NEW N, NEW p, NEW G, NEW M, NEW g, Explained(V, N, p, G, M, g),
           NEW t \in Task, Receives(t)
    PROVE  \E V2, N2, p2 : Explained(V2, N2, p2, G, M, g)'
<1>0. SUFFICES ASSUME NEW c, CompOf(t) = c, NEW v, V[c][p[c][t]] = v, NEW m, Head(chan[Source(t)]) = m,
                      NEW s, Step(t) = s
               PROVE  \E V2, N2, p2 : Explained(V2, N2, p2, G, M, g)'
  OBVIOUS
<1>1. /\ Waits(t) /\ chan[Source(t)] # <<>> /\ chan' = [chan EXCEPT ![Source(t)] = Tail(@)]
      /\ UNCHANGED <<pending, cur, tables, eh, loop, open, made>> /\ Shaped
  BY DEF Receives, Take, Explained
<1>2. /\ s.do \in FromComp \cup FromIO /\ (s.do \in FromIO => t # ioroot) /\ (s.do \in FromComp => t # comproot(c))
      /\ todo[t] # <<>>
  BY <1>0, <1>1 DEF Waits, Busy, FromComp, FromIO
<1> DEFINE e == CASE s.do = "outcome" -> m.val
                  [] s.do = "verdict" /\ m.set -> "err"
                  [] OTHER -> ierr[t]
           r == IF s.do = "outcome" THEN Going(todo[t], m.val) ELSE Tail(todo[t])
<1>3. /\ todo' = [todo EXCEPT ![t] = r] /\ ierr' = [ierr EXCEPT ![t] = e]
      /\ IF s.do = "next_id" THEN next_id' = [next_id EXCEPT ![t] = [next_id[t] EXCEPT ![s.x] = m.val]] ELSE next_id' = next_id
  <2>1. CASE s.do = "outcome"
    BY <1>0, <2>1 DEF Receives, Proceed, Going
  <2>2. CASE s.do = "next_id"
    <3>1. ierr' = ierr /\ todo' = [todo EXCEPT ![t] = Tail(todo[t])]
          /\ next_id' = [next_id EXCEPT ![t] = [next_id[t] EXCEPT ![s.x] = m.val]]
      BY <1>0, <2>2 DEF Receives, Goes
    <3>2. ierr' = [ierr EXCEPT ![t] = ierr[t]]
      BY <1>1, <3>1, SameCode
    <3> QED BY <2>2, <3>1, <3>2
  <2>3. CASE s.do \notin {"outcome", "next_id"}
    BY <1>0, <2>3 DEF Receives, Goes
  <2> QED BY <2>1, <2>2, <2>3
<1> HIDE DEF e, r
<1>4. /\ Shaped' /\ Others(t) /\ todo'[t] = r /\ ierr'[t] = e
      /\ s.do = "next_id" => next_id'[t] = [next_id[t] EXCEPT ![s.x] = m.val]
  <2>1. CASE s.do = "next_id"
    <3> DEFINE k == s.x
               n == m.val
               l == Source(t)
    <3>1. /\ next_id' = [next_id EXCEPT ![t] = [next_id[t] EXCEPT ![k] = n]]
          /\ todo' = [todo EXCEPT ![t] = r] /\ ierr' = [ierr EXCEPT ![t] = e]
          /\ chan' = [chan EXCEPT ![l] = Tail(@)] /\ Shaped
          /\ UNCHANGED <<pending, cur, tables, eh, loop, open, made>>
      BY <1>1, <1>3, <2>1
    <3> HIDE DEF k, n, l
    <3>2. /\ Shaped' /\ Others(t) /\ todo'[t] = r /\ ierr'[t] = e
      BY <3>1, OnlyHears
    <3>3. next_id'[t] = [next_id[t] EXCEPT ![k] = n]
      <4>1. next_id = [x \in Task |-> next_id[x]]
        <5>1. next_id = [x \in Task |-> [y \in {"file", "decomp"} |-> next_id[x][y]]]
          BY <1>1 DEF Shaped
        <5> QED BY <5>1
      <4> QED BY <3>1, <4>1
    <3> QED BY <3>2, <3>3 DEF k, n
  <2>2. CASE s.do # "next_id"
    <3> DEFINE l == Source(t)
    <3>1. /\ next_id' = next_id
          /\ todo' = [todo EXCEPT ![t] = r] /\ ierr' = [ierr EXCEPT ![t] = e]
          /\ chan' = [chan EXCEPT ![l] = Tail(@)] /\ Shaped
          /\ UNCHANGED <<pending, cur, tables, eh, loop, open, made>>
      BY <1>1, <1>3, <2>2
    <3> HIDE DEF l
    <3>2. /\ Shaped' /\ Others(t) /\ todo'[t] = r /\ ierr'[t] = e
      BY <3>1, OnlyHears
    <3> QED BY <2>2, <3>2
  <2> QED BY <2>1, <2>2
<1>5. ASSUME NEW x, NEW w, Due(t, c, v, x, w)
      PROVE  View(t, c, w)'
  <2>1. /\ OK(c, x) /\ VStep(c, x, w) /\ Near(t, c, x) /\ x.a # <<>> /\ x.a[1].do = s.do
        /\ w.item = m /\ (t \notin IOTask => x.a[1] = s) /\ (t \in IOTask => Same(x.a[1], s))
    BY <1>0, <1>5 DEF Due
  <2>2. todo[t] = Left(t, x) /\ ierr[t] = x.ierr /\ Tokens(t, x)
    BY <2>1 DEF Near
  <2>3. cur' = cur /\ tables' = tables /\ made' = made /\ eh' = eh /\ open' = open
    BY <1>1
  <2>4. CASE s.do \in FromComp
    <3>1. ShareStep(x, w)
      BY <2>1, <2>4, StepIs
    <3>2. PICK bad \in BOOLEAN : /\ bad => x.a[1].do = "verdict"
                                 /\ w.item = Item(x.a[1].x, bad, 0) /\ w.ierr = (IF bad THEN "err" ELSE x.ierr)
      BY <3>1 DEF ShareStep
    <3>3. m.set = bad
      BY <2>1, <3>2 DEF Item
    <3>4. ierr'[t] = w.ierr
      BY <1>4, <2>1, <2>2, <2>4, <3>2, <3>3 DEF e, FromComp
    <3>5. /\ w.a = Tail(x.a) /\ w.b = Tail(x.b) /\ w.ph = "in" /\ w.io = x.io /\ w.nid = x.nid /\ Keeps(x, w)
          /\ w.have \subseteq x.have
      BY <3>1 DEF ShareStep, InCall
    <3>6. todo'[t] = Left(t, w)
      BY <1>4, <2>2, <2>4, <3>5 DEF Left, r, FromComp
    <3>7. next_id' = next_id
      BY <1>3, <2>4 DEF FromComp
    <3>8. \A k \in {"file", "decomp"} : NextId(k) \in w.have => next_id'[t][k] = w.nid[k]
      BY <2>2, <3>5, <3>7 DEF Tokens
    <3> QED BY <2>1, <2>3, <3>4, <3>5, <3>6, <3>8, NearKept
  <2>5. CASE s.do = "outcome"
    <3>1. OutcomeStep(x, w)
      BY <2>1, <2>5, StepIs
    <3>2. m.val = w.ierr
      BY <2>1, <3>1 DEF Item, OutcomeStep
    <3>3. /\ w.a = Going(x.a, w.ierr) /\ w.b = Going(x.b, w.ierr)
          /\ w.ph = "in" /\ w.io = x.io /\ w.nid = x.nid /\ Keeps(x, w) /\ w.have \subseteq x.have
      BY <3>1 DEF OutcomeStep, InCall
    <3>4. ierr'[t] = w.ierr /\ todo'[t] = Left(t, w)
      BY <1>4, <2>2, <2>5, <3>2, <3>3 DEF e, r, Left
    <3>7. next_id' = next_id
      BY <1>3, <2>5
    <3>8. \A k \in {"file", "decomp"} : NextId(k) \in w.have => next_id'[t][k] = w.nid[k]
      BY <2>2, <3>3, <3>7 DEF Tokens
    <3> QED BY <2>1, <2>3, <3>3, <3>4, <3>8, NearKept
  <2>6. CASE s.do \in {"answer", "status", "next_id"}
    <3>1. AnswerStep(x, w)
      BY <2>1, <2>6, StepIs
    <3>2. /\ w.a = Tail(x.a) /\ w.b = Tail(x.b)
          /\ w.ph = "in" /\ w.io = x.io /\ Keeps(x, w) /\ w.ierr = x.ierr
          /\ w.have \subseteq x.have \cup (IF x.a[1].do = "next_id" THEN {NextId(x.a[1].x)} ELSE {})
          /\ \A k \in {"file", "decomp"} :
                 w.nid[k] = IF x.a[1].do = "next_id" /\ k = x.a[1].x THEN m.val ELSE x.nid[k]
      BY <2>1, <3>1 DEF AnswerStep, InCall
    <3>3. ierr'[t] = w.ierr /\ todo'[t] = Left(t, w)
      BY <1>4, <2>2, <2>6, <3>2 DEF e, r, Left
    <3>4. \A k \in {"file", "decomp"} : NextId(k) \in w.have => next_id'[t][k] = w.nid[k]
      <4> SUFFICES ASSUME NEW k \in {"file", "decomp"}, NextId(k) \in w.have PROVE next_id'[t][k] = w.nid[k]
        OBVIOUS
      <4>1. CASE s.do # "next_id"
        <5>1. NextId(k) \in x.have /\ w.nid[k] = x.nid[k] /\ next_id' = next_id
          BY <1>3, <2>1, <3>2, <4>1
        <5> QED BY <2>2, <5>1 DEF Tokens
      <4>2. CASE s.do = "next_id"
        <5>1. x.a[1].do = "next_id" /\ x.a[1].x = s.x
          BY <2>1, <4>2 DEF Same
        <5>2. s.x \in {"file", "decomp"}
          BY <2>1, <5>1, NextIdOf
        <5>3. next_id'[t] = [next_id[t] EXCEPT ![s.x] = m.val]
          BY <1>4, <4>2
        <5>4. next_id[t] = [y \in {"file", "decomp"} |-> next_id[t][y]]
          <6>1. next_id = [o \in Task |-> [y \in {"file", "decomp"} |-> next_id[o][y]]]
            BY <1>1 DEF Shaped
          <6> QED BY <6>1
        <5>5. next_id'[t][k] = IF k = s.x THEN m.val ELSE next_id[t][k]
          BY <5>2, <5>3, <5>4
        <5>6. CASE k = s.x
          BY <3>2, <5>1, <5>5, <5>6
        <5>7. CASE k # s.x
          <6>1. NextId(k) # NextId(s.x)
            BY <5>2, <5>7, Names
          <6>2. NextId(k) \in x.have
            BY <3>2, <5>1, <6>1
          <6>3. w.nid[k] = x.nid[k] /\ next_id'[t][k] = next_id[t][k]
            BY <3>2, <5>1, <5>5, <5>7
          <6> QED BY <2>2, <6>2, <6>3 DEF Tokens
        <5> QED BY <5>6, <5>7
      <4> QED BY <4>1, <4>2
    <3> QED BY <2>1, <2>3, <3>2, <3>3, <3>4, NearKept
  <2> QED BY <1>2, <2>4, <2>5, <2>6 DEF FromIO
<1>6. next_id'[ioroot] = next_id[ioroot]
  <2>1. CASE t = ioroot
    BY <1>2, <1>3, <2>1 DEF FromIO
  <2>2. CASE t # ioroot
    BY <1>4, <2>2, TaskKinds DEF Others, Task
  <2> QED BY <2>1, <2>2
<1>7. /\ pending' = pending /\ loop' = loop /\ tables' = tables /\ made' = made /\ eh' = eh /\ open' = open
      /\ Waits(t) /\ chan[Source(t)] # <<>> /\ chan' = [chan EXCEPT ![Source(t)] = Tail(@)] /\ Shaped' /\ Others(t)
  BY <1>1, <1>4
<1>8. \A x, w : Due(t, c, v, x, w) => View(t, c, w)'
  BY <1>5
<1> QED BY <1>0, <1>6, <1>7, <1>8, Receiving
=============================================================================
