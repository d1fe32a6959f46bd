SPECIFICATION AlgorithmsSpec
CONSTANTS
  Parts = {"beam"}
  Frames = {3}
  Values = {0}
  Addresses = {1, 2, 3}
  UserTokens = {"a", "q"}
  LmTokens = {"a"}
  MaxFrames = 2
  MaxUtterances = 2
  BlobThreads = {t1, t2}
  SampleShapes <- MCShapes
  ChunkSizes = {1, 2}
  MaxSamples = 2
  MaxOpens = 2
  Jobs <- RepeatJobs
  LookBacks = {0}
  LookBackLimit = 2
  Bigram <- MCBigram
  Transition <- MCTransition
CHECK_DEADLOCK FALSE
INVARIANT BlankBetweenRepeats
