SPECIFICATION SpecEither
CONSTANTS
  Chars = {"a", ":", " "}
  Sep = ":"
  White = {" "}
  MAX_LEN = 5
  MaxIds = 2
  Inputs <- AllInputs
  Messages = {1, 2, 3}
  Slices <- AllSlices
  Committed <- AllCommitted
  MaxTokens = 2
INVARIANTS
  NoCollision
  SameAsOneByOne
  MiscountIsAnError
