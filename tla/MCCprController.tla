--------------------------- MODULE MCCprController ---------------------------
(* Small instances of CprController: a CPU with corners on either side of  *)
(* the mux threshold, alone or, on a board with no mux, with a second      *)
(* regulator; with extra supplies, margins and boost and without; CPR3.    *)
EXTENDS CprController, TLC

C(f, o, c, x) == [floor |-> f, ol |-> o, ceil |-> c, acc |-> x, sys |-> x, quot |-> x]
TwoVregs == ("cpu" :> <<C(1, 2, 2, 1), C(3, 4, 4, 3)>> @@ "l2" :> <<C(3, 3, 3, 2)>>)

Apss == [vregs |-> {"cpu"}, cpr4 |-> TRUE, closed |-> TRUE, thr |-> 4, acc |-> TRUE,
         sys |-> TRUE, sdelta |-> TRUE, boost |-> FALSE, spread |-> 1]
Boards == {Apss,
           [Apss EXCEPT !.vregs = {"cpu", "l2"}, !.boost = TRUE, !.thr = 0, !.acc = FALSE,
                        !.sys = FALSE, !.sdelta = FALSE],
           [Apss EXCEPT !.vregs = {"cpu", "l2"}, !.cpr4 = FALSE, !.closed = FALSE, !.thr = 0,
                        !.acc = FALSE, !.sdelta = FALSE]}
=============================================================================
