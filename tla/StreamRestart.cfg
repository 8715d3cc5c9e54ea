SPECIFICATION Spec
CONSTANTS
  Sizes = {1, 3}
  HeaderSize = 2
  Capacity = 3
  MaxMsgs = 2
  MaxTimeouts = 0
  MaxDeaths = 1
INVARIANT InStep
