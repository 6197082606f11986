CONSTANTS
  Fds = {f1}
  PeerEnds = {"fin", "rst"}
  kTickRate = 600
  kDefaultTimeout = 5000
  SlowReaders = {f1}
  MaxBacklog = 1
  MaxUnread = 1
SPECIFICATION Spec
INVARIANT NoCriticalWrite
