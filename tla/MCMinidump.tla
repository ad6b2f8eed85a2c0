------------------------------ MODULE MCMinidump ------------------------------
\* Instances of Minidump with its device: addresses are numbers; one has segments
\* of two sizes, two have one with a name and one without.
EXTENDS MinidumpDevice
Seg0(a, n, b) == [va |-> a, size |-> n, named |-> b]
MCSegs == {Seg0(a, 1, b) : a \in 1 .. 2, b \in BOOLEAN} \cup {Seg0(1, 2, TRUE), Seg0(3, 1, FALSE)}
FewSegs == {Seg0(a, 1, a = 1) : a \in 1 .. 2}
Roomy == [f \in File |-> 4]
Tight == [f \in File |-> IF f = "mod" THEN 2 ELSE 4]
TightMmu == [f \in File |-> IF f = "mmu" THEN 2 ELSE 4]
===============================================================================
