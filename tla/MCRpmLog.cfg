\* Eight words of ring; indices that roll over after a message or two, or late.
SPECIFICATION FairSpec
CONSTANTS
  Modulus = 512
  LogLen = 32
  Is8974 = TRUE
  Starts = {496}
  Lengths = {3, 8}
  Payloads <- Long
  Counts = {20, 1000}
  MaxMsgs = 5
INVARIANTS KeptIsWhole NothingSkipped
PROPERTY Arrives
