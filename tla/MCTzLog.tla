-------------------------------- MODULE MCTzLog -------------------------------
\* Instances of TzLog: reads of one byte or of most of the ring; a ring that wraps
\* three times, once the counter of wraps has come round to 0, or, where the area is
\* copied while TrustZone logs, does not.
EXTENDS TzLog
MCPieces == {1, Size - 1}
MCMaxBytes == [scm |-> 3 * Size + 2, io |-> Size - 1]
Wrapping == [io |-> 2 * Size + 2]
===============================================================================
