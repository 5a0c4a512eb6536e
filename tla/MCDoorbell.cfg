\* One device, two sockets, room for one, three upsets.
SPECIFICATION FairSpec
CONSTANTS
  NoSocket = NoSocket
  NoDevice = NoDevice
  Devices = {d1}
  Sockets = {s1, s2}
  MaxSockets = 1
  MaxCommands = 2
  MaxUpsets = 3
  Latching = TRUE
CHECK_DEADLOCK FALSE
INVARIANTS
  NoDeafSocket
PROPERTIES
  QuietWhileDegraded
  AwakeWhileOpen
  EventuallyReachable
