CONSTANTS
  MaxInput = 20
  LoginSize = 16
SPECIFICATION Spec
INVARIANTS StagesAgree RepliesEncodable OneAttempt PositionInside
PROPERTIES OnlineUntilClosed DisconnectIsFinal
