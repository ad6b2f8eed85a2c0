\* Three users at any time: one closes while two open.
SPECIFICATION Spec
CONSTANTS
  Users = {u1, u2, u3}
  Nobody = nobody
  Size = 4
  WrapLimit = 65536
  Sources = {"scm"}
  Overlap = TRUE
  Quiet = TRUE
  Pieces <- MCPieces
  MaxBytes <- MCMaxBytes
INVARIANT OneInside
