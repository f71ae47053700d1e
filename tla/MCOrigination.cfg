SPECIFICATION FairSpec
CONSTANTS
  Self <- MCSelf
  Peers <- MCPeers
  Cost = 0
  Earlier <- MCEarlier
  Reflecting = TRUE
  MaxCalls = 3
  MaxChanges = 2
CHECK_DEADLOCK FALSE
INVARIANTS TypeOK UpToDate OrderedBeforeTimer AbsentOnlyBefore OneCopy
PROPERTIES CatchesUp ChecksumsProp ReadsBackProp
