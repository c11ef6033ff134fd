SPECIFICATION Spec
CONSTANTS
  Inputs <- AllInputs
  Symbols <- BodySymbols
  Sizes <- ChunkSizes
INVARIANT MultipartInAnyPieces
INVARIANT ChunkedIsExact
INVARIANT ConversionsSurvive
CHECK_DEADLOCK FALSE
