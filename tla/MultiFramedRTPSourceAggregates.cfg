CONSTANTS
  Kinds <- ShortStream
  Empty = {}
  Ssrc <- OneSsrc
  FirstSeqNo <- FirstSeqNos
  SeqNoRange = 8
  MaxDelay = 2
  MaxLoss = 1
  SsrcChangesAny = FALSE
SPECIFICATION Spec
INVARIANT OnlyFramesAreDelivered
