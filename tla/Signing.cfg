CONSTANTS
    Builds <- MCBuilds
    Wallets <- MCWallets
    Signers <- MCSigners
    Lead <- MCLead
    Actions <- MCActions
    Kind <- MCKind
    Lists <- MCLists
    Inputs <- MCInputs
    ReadOnly = 1
SPECIFICATION SignFairSpec
INVARIANTS
  SignedOverOneMessage
  LogicIsKept
  RequestsOutliveWrongSubmissions
PROPERTIES
  SignedMessageIsFixed
  EverythingEnds
