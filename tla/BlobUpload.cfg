\* Bodies of up to three chunks, three retries as in the code.
SPECIFICATION Spec
CONSTANTS
  Chunks = {c1, c2}
  MaxChunks = 3
  MaxRetries = 3
CHECK_DEADLOCK FALSE
INVARIANTS
  TypeOK
  ChecksumOfBody
  FirstAttemptStoresBody
PROPERTY
  UploadEnds
