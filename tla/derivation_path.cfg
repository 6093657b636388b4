SPECIFICATION Spec
CONSTANTS
  Paths <- AnyPaths
  MaxLen = 16
  DeviceAccount = 191
  Word = 1000
INVARIANTS
  TypeOK
  WalletSeedUsed
  ParsedAs
