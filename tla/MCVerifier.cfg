SPECIFICATION MCSpec
CONSTANTS
  TicksPerSecond = 2
  LastInstant = 5
  P1 = P1
  P2 = P2
  E1 = E1
  PublicKeys = {P1, P2, E1}
  Algorithm <- MCAlgorithm
  KeyLists <- MCKeyLists
  Imports <- MCImports
  Malformed = Malformed
  Null = Null
  Order = 5
  Requests <- MCRequests
  Contexts <- MCContexts
  OtherNames <- MCOtherNames
  MaxSignings = 2
  MaxVerified = 2
  Accounts = {"alice", "bob"}
  ZeroAccount = "zero"
  Nobody = "nobody"
  NoTime = NoTime
  ClaimInputs <- MCClaimInputs
  HalfOrder = 1
  MaxWalletSignings = 1
  MaxReceipts = 1
  MaxProven = 2
CONSTRAINT Separate
INVARIANTS
  VerifiedWasSigned
  OneMeaningPerSigning
  WithinKeyWindow
  SignedIsVerified
  TransferIsAuthorized
  BuiltIsProven
CHECK_DEADLOCK FALSE
