\* A client is cut after two silent ticks.
CONSTANTS
  Fds = {f1, f2}
  PeerEnds = {"fin", "rst"}
  kTickRate = 600
  kDefaultTimeout = 1000
  SlowReaders = {f1, f2}
  MaxBacklog = 1
  MaxUnread = 1
SPECIFICATION Spec
INVARIANTS
  HandlesAgree
  EndedOnce
PROPERTIES
  ConnectionsEnd
  OutputDrains
