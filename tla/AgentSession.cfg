SPECIFICATION FairSpec
CONSTANTS
  m1 = m1
  m2 = m2
  d1 = d1
  d2 = d2
  Msg <- TwoMsg
  Del <- TwoDel
  Sig = Sig
  None = None
INVARIANTS
  TypeOK
  
  HistoryIsComplete
PROPERTY EveryStreamEnds
