\* Two clients, of which one does not read.
CONSTANTS
  Fds = {f1, f2}
  PeerEnds = {"fin"}
  kTickRate = 600
  kDefaultTimeout = 500
  SlowReaders = {f1}
  MaxBacklog = 1
  MaxUnread = 1
SPECIFICATION Spec
PROPERTY TemporaryError
