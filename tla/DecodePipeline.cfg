CONSTANTS
  nAmThreads = 2
  nDecoderThreads = 2
  emission_queue_size = 1
  Samples = {0, 2}
  SamplesConvLM = {0, 1}
  MayThrow = {}
  MayThrowConvLM = {0, 3}
  MaxSamples = 2
SPECIFICATION Spec
CHECK_DEADLOCK FALSE
  
PROPERTIES DecodingEnds 
