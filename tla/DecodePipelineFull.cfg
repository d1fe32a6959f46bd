CONSTANTS
  nAmThreads = 2
  nDecoderThreads = 1
  emission_queue_size = 2
  Samples = {}
  SamplesConvLM = {3}
  MayThrow = {}
  MayThrowConvLM = {}
  MaxSamples = 3
SPECIFICATION Spec
CHECK_DEADLOCK FALSE
PROPERTY DecodingEnds
