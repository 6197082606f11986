\* One of two clients may stop reading what it is sent.
CONSTANTS
  Fds = {f1, f2}
  PeerEnds = {"fin", "rst"}
  kTickRate = 600
  kDefaultTimeout = 500
  SlowReaders = {f1}
  MaxBacklog = 1
  MaxUnread = 1
  Tiles = {here}
  None = None
SPECIFICATION Spec
INVARIANTS
  WorldIsRegistered
PROPERTIES
  SilentPlayersLeave
  ImplementsReactor
  ImplementsWorldManager
