SPECIFICATION Spec
CONSTANTS
  MaxNodes = 4
  Octets = 3
  Invalid = Invalid
  External = External
  Lists <- AddressLists
  MaxRuns = 2
  MaxFaults = 2
  Validators = {w1, w2}
  Delegators = {d1}
  Height = 3
  Coins = {0, 1}
INVARIANTS SuccessIsConsistent CountedAddressesDiffer FaultFreeSucceeds HeightsReset ExportedAreAllowed
PROPERTY CoinsConserved
CHECK_DEADLOCK FALSE
