SPECIFICATION Spec
CONSTANTS
  Blocks = {b1, b2, b3, b4, b5}
  Null = Null
  Names <- MCNames
  StringNames <- MCStringNames
  Arrays <- MCArrays
  StringArrays <- MCStringArrays
  Chunk = 2
  FATPTRNUM = 1
  Texts = {"a"}
  Unset = "unset"
  MaxSize = 2
  MaxDepth = 2
VIEW View
INVARIANTS OneOwner AddressesHold TablesHold
PROPERTIES Values
CHECK_DEADLOCK FALSE
