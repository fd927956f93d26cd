SPECIFICATION FairDeviceSpec
CONSTANTS
  Hosts <- TwoHosts
  Address <- Addresses
  Lengths <- ShortEmptyLong
  Traffic <- ReadoutAndStranger
  Counts = {2}
  MaxDiscards = 2
  Platforms = {"nix", "win"}
  RxCap = 3
  MaxEmpty = 1
INVARIANTS
  MessageWhole
  TimeoutIsEarned
  DeviceLeaksNothing
  DeviceReady
PROPERTIES
  NoStrangerHeard
  ReceiveReturns
