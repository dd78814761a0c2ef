------------------------------- MODULE MCGptl -------------------------------
EXTENDS GptlSummary

\* "a" and "b" share a bucket of four; "ax" begins with "a"; "long" is longer
\* than a timer keeps; the prefix is "p"
a == <<1>>
b == <<5>>
ax == <<1, 1>>
long == <<1, 1, 1, 1>>
p == <<2>>

Blank0 == [op |-> "none", t |-> 0, serial |-> TRUE, name |-> a, f |-> TRUE, h |-> FALSE,
           dt |-> 0, calls |-> 0, prefix |-> <<>>]

Go(op, name)    == [Blank0 EXCEPT !.op = op, !.name = name]
In(c, t)        == [c EXCEPT !.t = t, !.serial = FALSE]
Start(name)     == Go("start", name)
Stop(name)      == Go("stop", name)
StartH(name)    == [Start(name) EXCEPT !.h = TRUE]
StopH(name)     == [Stop(name) EXCEPT !.h = TRUE]
StartC(name)    == [Start(name) EXCEPT !.f = FALSE]
StopC(name)     == [Stop(name) EXCEPT !.f = FALSE]
Add(name, dt, n) == [Go("add", name) EXCEPT !.dt = dt, !.calls = n]
AddC(name, dt, n) == [Add(name, dt, n) EXCEPT !.f = FALSE]
Pre(q)          == [Blank0 EXCEPT !.op = "prefix", !.prefix = q]
Other(op)       == [Blank0 EXCEPT !.op = op]

MCNames == {a, b, ax, long}
MCPrefixNames == {<<>>, p}

MCFreeCalls ==
  {Start(a), Stop(a), StartC(b), StopC(b), StartH(a), StopH(a),
   [StartH(b) EXCEPT !.f = FALSE], [StopH(b) EXCEPT !.f = FALSE],
   Start(ax), StopC(ax), Start(long), Stop(long), Add(a, 3, 1), AddC(b, 2, 0),
   Pre(p), Pre(<<>>), Other("enable"), Other("disable"), Other("reset"), Other("pr"),
   Other("fork"), Other("join"), In(Start(a), 0), In(Stop(a), 0), In(StartH(b), 1),
   In(StopH(b), 1), In(Start(a), 1), In(Stop(a), 1), In(Pre(p), 1), In(Pre(<<>>), 1)}

\* What a process has done before the summary
Short  == <<Start(a), Stop(a)>>
Nested == <<Start(a), Start(b), Stop(b), Stop(a)>>
Twice  == <<Start(b), Start(b), Stop(b), Stop(b), Start(ax)>>
Wide   == <<Start(b), Other("fork"), In(Start(a), 1), In(Start(b), 0), In(Stop(b), 0),
            In(Stop(a), 1), In(Start(ax), 1), In(Stop(ax), 1), Other("join"), Stop(b)>>
Swapped == <<Start(a), Start(b), Stop(b), Stop(a), Other("pr"),
             Start(b), Start(a), Stop(a), Stop(b), Other("pr")>>
Works == {Short, Nested, Twice, Wide}

MCScenarios ==
  {[nproc |-> 1, calls |-> (0 :> <<>>), free |-> 4],
   [nproc |-> 1, calls |-> (0 :> <<StartH(a), Start(b), Start(ax)>>), free |-> 3],
   [nproc |-> 1, calls |-> (0 :> Swapped), free |-> 2],
   [nproc |-> 1, calls |-> (0 :> <<Start(a), Other("fork"), In(Start(b), 1)>>), free |-> 3]}
  \cup {[nproc |-> 3, calls |-> [r \in 0 .. 2 |-> w[r + 1]], free |-> 0] :
          w \in Works \X Works \X Works}
  \cup {[nproc |-> 5, calls |-> [r \in 0 .. 4 |-> IF r \in {1, 4} THEN Twice ELSE Short],
         free |-> 0]}
=============================================================================
