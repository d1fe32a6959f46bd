SPECIFICATION AlgorithmsSpec
CONSTANTS
  Parts = {"hungarian", "alignments", "beam", "datasets", "functions", "transcripts",
           "convlm", "blob"}
  Frames = {3, 4, 5}
  Values = {0, 1}
  Addresses = {1, 2, 3}
  UserTokens = {"a", "q"}
  LmTokens = {"a"}
  MaxFrames = 2
  MaxUtterances = 2
  BlobThreads = {t1, t2}
  SampleShapes <- MCShapes
  ChunkSizes = {1, 2}
  MaxSamples = 2
  MaxOpens = 2
  Jobs <- SearchJobs
  LookBacks = {0, 1}
  LookBackLimit = 2
  Bigram <- MCBigram
  Transition <- MCTransition
CHECK_DEADLOCK FALSE
INVARIANTS SumsAreExact BestAlignmentFound   
  GradientsAreExact AttentionIsRelative WordErrorsAreTrue
  ScoresAreOfTheHypothesis BlobReadsBack
PROPERTIES AssignmentIsOptimal
