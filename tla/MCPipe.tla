------------------------------- MODULE MCPipe -------------------------------
(***************************************************************************)
(* Every pipe of one or two stages, and some of three: a chain of workers, *)
(* and each kind first and between two others.                             *)
(***************************************************************************)
EXTENDS Pipe

Short == [1..1 -> Kind] \cup [1..2 -> Kind] \cup
    {<<"worker", "worker", "worker">>, <<"worker", "producer", "runner">>,
     <<"runner", "consumer", "worker">>, <<"producer", "consumer", "worker">>,
     <<"consumer", "worker", "producer">>, <<"consumer", "runner", "worker">>}
=============================================================================
