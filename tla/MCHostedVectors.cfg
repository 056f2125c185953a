SPECIFICATION MCSpec
CONSTANTS
  Keys <- VectorKeys
  Fingerprints <- VectorFingerprints
  BoundFingerprint <- MCBoundFingerprint
  Requests <- VectorRequests
  VectorCount = 2
  MaxChanges = 2
  FileNames = {1, 2}
  FileSizes = {0, 1, 2, 3}
  MaxBlocks = 5
INVARIANTS
  ReferencePasses
  EveryVectorIsOwned
  RowsNameTheirInputs
  BundlesAreExact
