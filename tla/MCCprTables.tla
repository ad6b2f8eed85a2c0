------------------------------ MODULE MCCprTables ------------------------------
(* The boards of ipq9574-cpr-regulator.dtsi, in uV and MHz, variants of    *)
(* them that use the other properties the drivers parse, two that the      *)
(* checks refuse, and chips with fuses at the ends of their range, out of  *)
(* order, on either side of the part threshold, and with a quotient less   *)
(* than its offset, which wraps.  The words are narrower than the code's   *)
(* and wider than any quotient that does not wrap.                         *)
EXTENDS CprTables

Scales == [j \in 1 .. 4 |-> [ro \in 0 .. 1 |-> IF ro = 0 THEN 2383 ELSE 1502]]
None4 == <<0, 0, 0, 0>>
Rev1 == <<50000, 0, 0, 0>>
Apss == [npu |-> FALSE, ref |-> <<725000, 862500, 987500, 1062500>>, unit |-> 10000,
         step |-> 12500,
         ceiling |-> <<725000, 787500, 862500, 925000, 987500, 1062500>>,
         floor |-> <<600000, 650000, 712500, 750000, 787500, 850000>>,
         freq |-> <<936, 1104, 1416, 1608, 1800, 2208>>, fmax |-> <<1, 3, 5, 6>>,
         parts |-> <<1037500>>, fuseAdj |-> <<Rev1, None4>>, cold |-> <<>>,
         clFuse |-> <<Rev1, None4>>, adj |-> <<>>, diff |-> <<>>, misc |-> <<>>, cl |-> <<>>,
         range |-> <<>>, scale |-> Scales, boostCeiling |-> 1140000,
         flags |-> {"volt-interp", "quot-interp", "ol-as-ceiling"}]
Npu == [Apss EXCEPT !.npu = TRUE, !.ref = <<862500, 987500>>, !.ceiling = <<862500, 987500>>,
                    !.floor = <<712500, 787500>>, !.freq = <<1498, 1690>>, !.fmax = <<1, 2>>,
                    !.parts = <<>>, !.fuseAdj = <<>>, !.clFuse = <<>>, !.flags = {"volt-interp"}]
DeviceTrees ==
  {Apss, Npu, [Apss EXCEPT !.clFuse = <<<<50000, 50000, 0, -20000>>, None4>>],
   [Apss EXCEPT !.flags = {"boost"}, !.adj = <<0, 5000, -20000, 0, 7500, 0>>,
                !.diff = <<0, 12500, 0, 25000, 0, 0>>],
   [Apss EXCEPT !.flags = {"volt-interp", "quot-interp", "boost"},
                !.range = <<-1, 50000, 40000, 0, -1, 100000>>,
                !.cl = <<0, 30000, -30000, 0, -60000, 0>>, !.misc = <<0, 0, 12000, 0, 0, -30000>>],
   [Npu EXCEPT !.cold = <<<<20000, 30000>>>>, !.flags = {"cold-threshold", "ol-as-ceiling"}],
   [Npu EXCEPT !.floor = <<712500, 1000000>>], [Apss EXCEPT !.fmax = <<1, 3, 6, 7>>]}

Chip(i, q, r, o, off) ==
  [init |-> i, quot |-> q, ro |-> r, offset |-> o, off |-> off, boost |-> ~off]
Codes == {0, 1, 6, 31, 35, 43}
Quots == {100, 600, 720, 1100}
Chips ==
  {Chip(i, <<600, 720, 1100, 1100>>, <<0, 0, 1, 1>>, <<0, 30, 60, 20>>, FALSE) :
     i \in [1 .. 4 -> Codes]}
  \cup {Chip(<<0, 0, 0, 35>>, q, r, <<0, 40, 10, 20>>, FALSE) :
          q \in [1 .. 4 -> Quots], r \in [1 .. 4 -> {0, 1}]}
  \cup {Chip(<<a, b>>, <<>>, <<>>, <<>>, off) : a \in 0 .. 63, b \in Codes, off \in BOOLEAN}
  \cup {Chip(<<6, 6, 6, 6>>, <<600, 720, 1100, 1100>>, <<0, 0, 0, 0>>, <<0, 0, 0, 0>>, TRUE)}
=============================================================================
