SPECIFICATION FairSpec
CONSTANTS
  Base = 2
  HalfLen = 3
  IndexLen = 2
  Seeds <- MCSeeds
  Coins <- MCCoins
  Accounts <- MCAccounts
  Addresses <- MCAddresses
  HmacSeed <- MCHmacSeed
  Hmac <- MCHmac
  BelowOrder <- MCBelowOrder
  AddOrder <- MCAddOrder
  Compressed <- MCCompressed
INVARIANTS
  TypeOK
  NeverThrows
  KeyUsable
PROPERTIES
  ImplementsSlip10
  DerivationEnds
