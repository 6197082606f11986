\* Four sessions: the fewest with which a gap can be followed by two used slots.
CONSTANTS
  Sessions = {c1, c2, c3, c4}
  Tiles = {near, far}
  None = None
  MaxSlot = 8
  Values2 <- Values2Def
  Values4 <- Values4Def
  Texts <- TextsDef
  MaxPuts = 2
  kSlots = 3
  MaxPlayerSlot = 3
  Chunks = {0, 1, 3, 6, 9, 355}
  MapSizes = {6, 7, 8, 10, 4}
  GraphicIds = {7, 8, 9, 188, 200}
  NameLengths = {0, 12, 214, 215}
  Protocols = {4, 5, 6, 7, 8}
  MaxIds = 3
  kIdSpan = 8
  kDigestFields = 2
  UserNames = {1, 12, 159, 160}
  kWelcome = 17
  kLicence = 88
  MapRegions = {4, 16}
  MaxScreens = 2
  Sinks = {s1, s2}
  MaxSinks = 4
SPECIFICATION CallsSpec
SYMMETRY SessionSymmetry
INVARIANTS
  SlotsBounded NoGhostPlayers TablesAgree OwnPlayerUnlessCollided
  LoopIsAddPlayer ValuesComeBack BitsStayInPlace ListsTheMap UpdateCanBeRead
  TableIsRead LayoutFitsMode PacketsCanBeRead DeliveredInOrder
