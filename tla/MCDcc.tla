-------------------------------- MODULE MCDcc ---------------------------------
(* Boards whose users fill one list with a few registers on either bus, and        *)
(* boards with two lists, which an SRAM of twelve words cannot hold together.      *)
(* On the last three sets of boards users do what the code gets wrong.             *)
EXTENDS Dcc
ManyReads == {<<4, 1, 0>>, <<5, 2, 0>>, <<6, 4, 0>>, <<7, 1, 0>>, <<10, 1, 0>>, <<16, 2, 0>>,
              <<11, 1, 1>>, <<12, 1, 0>>, <<20, 1, 1>>}
Filled1 == [lists |-> 1, ram |-> 30, reads |-> ManyReads, writes |-> {<<5, 0>>, <<22, 1>>},
            writesLater |-> FALSE, mixesBus |-> FALSE, loops |-> {1, 2, 4}, runs |-> FALSE,
            resetsAtRun |-> FALSE, max |-> 5]
Run2(ram) == [lists |-> 2, ram |-> ram, reads |-> {<<4, 1, 0>>, <<20, 3, 0>>}, writes |-> {},
              writesLater |-> FALSE, mixesBus |-> FALSE, loops |-> {2}, runs |-> TRUE,
              resetsAtRun |-> FALSE, max |-> 3]
MCBoards == {Filled1, Run2(12), Run2(30)}
RunBoards == {Run2(12), Run2(30)}
WriterBoards == {[Filled1 EXCEPT !.writesLater = TRUE, !.max = 3]}
BusBoards == {[Filled1 EXCEPT !.mixesBus = TRUE, !.max = 3]}
ZeroBoards == {[Filled1 EXCEPT !.loops = {0}, !.max = 3]}
=============================================================================
