SPECIFICATION FairSpec
CONSTANTS
  Rows = {r1, r2}
  Texts = {blank, text}
  Blank = blank
  Sizes = {wide, narrow}
  FirstSize = wide
  None = None
  SeqMod = 8
  ControlLimit = 1
  MaxFrames = 7
  MaxDown = 1
  MaxOutputs = 2
  MaxResizes = 2
  MaxRequests = 2
  MaxLosses = 1
INVARIANTS TypeOK
PROPERTIES Faithful PartFinishes LastScreenArrives
CHECK_DEADLOCK FALSE
