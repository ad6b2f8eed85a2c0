\* Two users, one at a time; both ways to fetch the area.
SPECIFICATION Spec
CONSTANTS
  Users = {u1, u2}
  Nobody = nobody
  Size = 5
  WrapLimit = 2
  Sources = {"scm", "io"}
  Overlap = FALSE
  Quiet = FALSE
  Pieces <- MCPieces
  MaxBytes <- MCMaxBytes
INVARIANT LogInOrder
