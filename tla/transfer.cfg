SPECIFICATION RequestSpec
CONSTANTS
  MaxDigits = 9
  Decimals = 8
  BufLen = 10
  TextLen = 19
  Pow <- MCPow
  Values <- MCValues
  Requests <- MCRequests
  Senders <- MCSenders
  Genuine <- MCGenuine
INVARIANTS
  RequestTypeOK
  FieldsAsSent
  AlwaysFits
  ShowsAmount
  AmountShownIsHashed
  TransactionIsOneTransfer
  BadDecodeIsBadTag
