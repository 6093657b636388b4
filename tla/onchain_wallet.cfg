SPECIFICATION Spec
CONSTANTS
  Wallets <- MCWallets
  Memory <- MCMemory
  Length <- MCLength
  Total <- MCTotal
  Start <- MCStart
INVARIANTS
  TypeOK
  FindsService
  AdmitsServices
  PastEndReadsBeyond
  SeeksEntry
  ReadsEncoding
