CONSTANTS
  MaxInput = 20
  LoginSize = 16
SPECIFICATION Spec
INVARIANT NextPacketsHandled
