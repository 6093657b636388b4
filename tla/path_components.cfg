SPECIFICATION Spec
CONSTANTS
  Paths <- FormedPaths
  MaxLen = 16
  DeviceAccount = 191
  Word = 1000
INVARIANT
  ComponentsAsDocumented
