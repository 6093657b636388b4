SPECIFICATION Spec
CONSTANTS
  w1 = w1
  w2 = w2
  h1 = h1
  h2 = h2
  t1 = t1
  amt1 = amt1
  amt2 = amt2
  BadPoint = BadPoint
  BadTag = BadTag
  Device = Device
  Blank = Blank
  Scrap = Scrap
  Wallets <- MCWallets
  Total <- MCTotal
  WalletLen <- LongNameLen
  PathAt <- LongNameAt
  Heads <- MCHeads
  Tails <- MCTails
  Amounts <- MCAmounts
  Ed25519 <- SecondOfW2
  Commands <- AnyCommands
  Faults = {2}
INVARIANTS
  ReviewIsOfPending
  LoopConsistent
  TextMatchesHash
  ShownPathIsUsed
  SignsWhatWasAsked
  OnlyOwnSeed
PROPERTIES
  ConsentBeforeAnswer
  ImplementsProtocol
  LostOnlyWithStatus
