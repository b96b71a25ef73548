SPECIFICATION IndexSpec
CONSTANTS
  Files = {f1}
  MaxSerial = 3
  Transient = FALSE
  Wipes = TRUE
PROPERTIES PublishedExisted
CHECK_DEADLOCK FALSE
