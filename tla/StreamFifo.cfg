SPECIFICATION LiveSpec
CONSTANTS
  Sizes = {1, 3}
  HeaderSize = 2
  Capacity = 3
  MaxMsgs = 3
  MaxTimeouts = 1
  MaxDeaths = 1
INVARIANT TypeOK
 
INVARIANT BytesConserved
PROPERTY ImplementsFifo
