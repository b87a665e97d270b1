------------------------------ MODULE MCPizza ------------------------------
(* Command lines for the pizza program.                                    *)
EXTENDS Pizza

Requests(locations, n) == UNION {[1 .. k -> locations] : k \in 0 .. n}
CommandLines(arguments, files, n) ==
    [drivers : arguments, files : UNION {[1 .. k -> files] : k \in 0 .. n}]

(* All command lines with up to two files of up to two requests, right and *)
(* wrong ones, and one request as far away as it can be.                   *)
TwoCustomers ==
    {[drivers |-> Missing, files |-> <<>>],
     [drivers |-> 1, files |-> <<<<<<0, 1>>>>, <<<<0, UINT_MAX>>>>>>]} \cup
    CommandLines({NotANumber, OutOfRange, 0, 1, 2},
                 {Unreadable} \cup Requests({<<0, 0>>, <<0, 1>>}, 2), 2)

(* Three customers for one or two drivers. *)
ThreeCustomers ==
    [drivers : {1, 2}, files : [1 .. 3 -> {<<>>, <<<<1, 0>>>>, <<<<0, 1>>, <<1, 1>>>>}]]

AllLines == TwoCustomers \cup ThreeCustomers
=============================================================================
