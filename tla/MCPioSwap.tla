------------------------------ MODULE MCPioSwap ------------------------------
(* Exchanges between a few tasks: from all of them to the I/O tasks, and a    *)
(* pattern of data both ways, under the flow control options.               *)
EXTENDS PioSwap

ToIO == Task \X {0, 2}
BothWays == {<<0, 1>>, <<1, 0>>, <<0, 2>>, <<2, 0>>, <<3, 0>>, <<2, 1>>}

TestedPatterns == {ToIO, BothWays}

Option(hs, isend, n) == [hs |-> hs, isend |-> isend, max_pend_req |-> n]

\* Two pending requests are fewer than a task has partners, one is a case of its own.
TestedOptions ==
    {Option(TRUE, TRUE, 2), Option(TRUE, FALSE, 2), Option(TRUE, TRUE, 1),
     Option(FALSE, FALSE, 1), Option(FALSE, TRUE, 1), Option(TRUE, TRUE, UNLIMITED), Option(FALSE, FALSE, 0)}
=============================================================================
