CONSTANTS
  WorldSize = 2
  Jobs = {"asr"}
  Updates = 3
  Epochs = 2
  MaxBatches = 2
  LinSegs = {0, 1}
  PlEpochs = {1}
  Reports = {0, 1}
  Errors = {1, 2}
  MaxFaults = 1
  PlFaults = 1
  SaveTries = 2
SPECIFICATION Spec
INVARIANT CollectivesMatch
