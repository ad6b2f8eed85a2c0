\* The same reader, with payload words that look like lengths below four.
SPECIFICATION FairSpec
CONSTANTS
  Modulus = 512
  LogLen = 32
  Is8974 = TRUE
  Starts = {0}
  Lengths = {3, 8}
  Payloads <- LongOrShort
  Counts = {1000}
  MaxMsgs = 4
PROPERTY Arrives
