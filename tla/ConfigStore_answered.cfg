SPECIFICATION Spec
CONSTANTS
  Main = main
  Key = key
  Config <- MCConfig
  Size = 2
  CrcSize = 2
  Default <- MCDefault
  Junk = Junk
  None = None
INVARIANT AnsweredSaveIsStored
