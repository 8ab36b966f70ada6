SPECIFICATION FilesSpec
CONSTANTS
  Names = {"d"}
  MaxDepth = 2
  Layered = TRUE
  MaxEdits = 3
  MaxListFails = 0
PROPERTY FilesReported
CHECK_DEADLOCK FALSE
