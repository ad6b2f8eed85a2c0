\* The boards that copy the area themselves, with TrustZone silent meanwhile.
SPECIFICATION Spec
CONSTANTS
  Users = {u1}
  Nobody = nobody
  Size = 4
  WrapLimit = 65536
  Sources = {"io"}
  Overlap = FALSE
  Quiet = TRUE
  Pieces <- MCPieces
  MaxBytes <- Wrapping
INVARIANT LogInOrder
