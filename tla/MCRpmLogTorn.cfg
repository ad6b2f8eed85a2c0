\* The same reader, asked for messages and nothing else.
SPECIFICATION LogSpec
CONSTANTS
  Modulus = 512
  LogLen = 32
  Is8974 = TRUE
  Starts = {0}
  Lengths = {3, 8}
  Payloads <- Long
  Counts = {1000}
  MaxMsgs = 5
INVARIANT OnlyMessages
