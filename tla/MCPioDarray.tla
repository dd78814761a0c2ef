----------------------------- MODULE MCPioDarray -----------------------------
(* Four tasks, three of them I/O tasks; decompositions of small grids such as *)
(* the tests of the library have in large: blocks, elements dealt out in turn *)
(* and out of order, holes in the map and in the grid, tasks without data,    *)
(* and, for reading, elements that several tasks share.                       *)
EXTENDS PioDarray

Ranks == <<0, 1, 3>>
SameFill == [v \in Var |-> 9]

On(a, b, c, d) == (0 :> a) @@ (1 :> b) @@ (2 :> c) @@ (3 :> d)

Blocks == On(<<1, 2>>, <<3>>, <<4>>, <<5, 6>>)
Dealt == On(<<5, 6, 1>>, <<2>>, <<>>, <<4, 3>>)
Holed == On(<<3>>, <<>>, <<6, 0, 2>>, <<4, 1>>)
Ordered == On(<<3>>, <<>>, <<0, 2, 6>>, <<1, 4>>)
Halo == On(<<1, 2, 3>>, <<3, 4, 2>>, <<>>, <<4, 0, 6>>)
Line == On(<<2>>, <<0, 5>>, <<>>, <<4, 1>>)
LineHalo == On(<<5, 1>>, <<1>>, <<2>>, <<>>)

Decomp(gdims, rearranger, iobox, map, readonly) ==
    [gdims |-> gdims, rearranger |-> rearranger, iobox |-> iobox, compmap |-> map, readonly |-> readonly,
     from |-> "map"]

\* Boxes that the caller gives, of different sizes.
Given == <<[start |-> <<0, 0>>, count |-> <<2, 2>>], [start |-> <<0, 2>>, count |-> <<1, 1>>],
           [start |-> <<1, 2>>, count |-> <<1, 1>>]>>

Plane(rearranger, iobox, map) == Decomp(<<2, 3>>, rearranger, iobox, map, FALSE)
Lines(rearranger) == {Decomp(g, rearranger, <<>>, Line, FALSE) : g \in {<<5>>, <<5, 1>>}}
Made(d, from) == [d EXCEPT !.from = from]

\* A square, two single elements and a task without a block.
Squares == Made(Plane("subset", <<>>, On(<<1, 2, 4, 5>>, <<3>>, <<>>, <<6>>)), "blocks")
           @@ [blocks |-> On([start |-> <<0, 0>>, count |-> <<2, 2>>], [start |-> <<0, 2>>, count |-> <<1, 1>>],
                             [start |-> <<0, 0>>, count |-> <<0, 2>>], [start |-> <<1, 2>>, count |-> <<1, 1>>])]

ForReading(gdims) == Decomp(gdims, "subset", <<>>, IF gdims = <<2, 3>> THEN Halo ELSE LineHalo, TRUE)

Scenario(d, iotype, extra) ==
    [decomps |-> <<d, ForReading(d.gdims)>>, of |-> [v \in Var |-> 1], spare |-> {2},
     iotype |-> iotype, extra |-> extra]

\* Every way to write, rearranger, kind of box and kind of map, not all of them with each other.
TestedScenarios ==
    {Scenario(d, iotype, 0) : <<d, iotype>> \in
        {Plane("subset", <<>>, Holed), Plane("box", Given, Holed)} \X {"pnetcdf", "netcdf"}
        \cup (Lines("box") \cup {Plane("subset", <<>>, Dealt)}) \X {"netcdf4p"}
        \cup {Made(Plane("box", <<>>, Blocks), "file"), Squares} \X {"netcdf"}
        \cup {Made(Plane("box", Given, Dealt), "map from 0")} \X {"pnetcdf"}
        \cup (Lines("subset") \cup {Made(Plane("subset", <<>>, Ordered), "text")}) \X {"pnetcdf"}}

\* A decomposition that is read from the file in which it was saved, with a map out of order.
SavedUnsorted == {Scenario(Made(Plane("subset", <<>>, Dealt), "file"), "netcdf", 0)}

\* Arrays that are longer than the decomposition says.
LongArrays == {Scenario(Plane("subset", <<>>, Blocks), "netcdf", 1)}
=============================================================================
