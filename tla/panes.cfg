SPECIFICATION Spec
CONSTANTS
  Texts = {blank, a}
  Blank = blank
  RingCap = 4
  HistRows = 3
  Screen = 1
  AnchorLen = 2
  InboxCap = 2
  MaxOut = 6
  MaxChunk = 5
  MaxLines = 2
  MaxGen = 2
INVARIANTS
  RingExact
  TranscriptGoesOn
  NoBareEnter
CHECK_DEADLOCK FALSE
