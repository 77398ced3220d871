SPECIFICATION Spec
CONSTANTS
  MaxInt = 7
  Default <- MCDefault
  DefaultLists <- MCDefaultLists
  Text <- MCText
  Canonical <- MCCanonical
  RawConfigs <- MCRawConfigs
  Requests <- MCRequests
  Overwrites <- MCOverwrites
  MaxWrites = 1
  MaxRequests = 2
  Join <- MCJoin
  Normal <- MCNormal
  Elements <- MCElements
  Address <- MCAddress
  Network <- MCNetwork
  Algorithms <- MCAlgorithms
INVARIANTS
  ConfigIsUsable
  SettledWhenBuilt
  AddressOnlyInStrongHash
  OnlyListedPeersAreBelieved
  FirstUsableHeaderDecides
CHECK_DEADLOCK FALSE
