CONSTANTS
  Kinds <- Stream
  Empty <- LackData
  Ssrc <- SsrcChanges
  FirstSeqNo <- FirstSeqNos
  SeqNoRange = 8
  MaxDelay = 2
  MaxLoss = 2
  SsrcChangesAny = FALSE
SPECIFICATION Spec
INVARIANTS TypeOK OrderRestored OneHolder FramesAreWhole
