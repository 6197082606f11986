CONSTANTS
  IndexIds = {0, 255}
  Archives = {3, 255}
  Priorities = {0, 4, 7}
  MaxRequests = 2
  MaxLength = 2
  kSizes = 6
  Lengths = {0, 1, 2, 4, 5, 6}
  kBlockLength = 3
  kHeaderLength = 2
  kMaxTypes = 0
  kEntryLength = 1
  kHashLength = 1
  Header = Header
  Separator = Separator
  Unread = Unread
  Absent = Absent
  Short = Short
SPECIFICATION Spec
INVARIANTS RepliesAreTheArchive AnsweredInOrder
PROPERTY HandleReturns
