CONSTANTS
  Modes = {"mysql", "sqlite", "postgres"}
  MaxArchives = 2
  kCounter = 4
  StartX = 3087
  StartY = 3496
  StartZ = 0
  kColours = 256
  Names = {n1, n2}
  Passwords = {p1, p2}
  Salts = {s1}
  Skins = {300}
  kMaxSums = 2
  kMaxId = 1
  Nobody = Nobody
  MaxFaults = 1
SPECIFICATION MCSpec
INVARIANTS TypeOK StoresAreComplete AccountsKept OwnersOnly
PROPERTIES OnlySetupStops StartEnds
