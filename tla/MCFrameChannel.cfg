\* One reader, three publishes, one of which may panic; the writer rests in the end.
SPECIFICATION FairSpec
CONSTANTS
  w1 = w1
  w2 = w2
  r1 = r1
  Words <- MCWords
  Readers <- MCOneReader
  MaxPublish = 3
  MaxPanic = 1
  NoFrame = NoFrame
INVARIANTS
  TypeOK
  FramesWhole
  ParityMarksFill
PROPERTY HandoffSpec
PROPERTY LastFrameArrives
