SPECIFICATION FairSpec
CONSTANTS
  Rows = {r1, r2}
  Texts = {blank, text}
  Blank = blank
  Sizes = {wide, narrow}
  FirstSize = wide
  None = None
  SeqMod = 8
  ControlLimit = 1
  MaxFrames = 7
  MaxDown = 2
  MaxOutputs = 2
  MaxResizes = 2
  MaxRequests = 0
  MaxLosses = 0

PROPERTIES KeyframeArrives
CHECK_DEADLOCK FALSE
