SPECIFICATION UploadSpec
CONSTANTS
  Stems <- MCStems
  Hashed <- MCHashed
  Cut <- MCCut
  Extensions = {"jpg", "pdf"}
  PageTypes = {"jpg"}
  MaxFiles = 3
  ObjectPage = 2
  Runners = {r1}
INVARIANT EachFileIsItsOwn
CHECK_DEADLOCK FALSE
