CONSTANTS
  Bytes <- OneOfEachKind
  ReadSize = 3
  Memory = 7
  SizeLimit = 12
  MaxWritten = 6
SPECIFICATION Spec
INVARIANTS
  TerminatorFits
  BufferIsPrefix
  UrisDecodeToLines
