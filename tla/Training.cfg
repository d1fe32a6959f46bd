CONSTANTS
  WorldSize = 2
  Jobs = {"asr", "finetune", "lm", "coco", "transformer", "resnet34", "backbone",
          "distributed", "benchmark", "mnist", "rnnlm", "rnnclassification"}
  Updates = 3
  Epochs = 2
  MaxBatches = 2
  LinSegs = {0, 1}
  PlEpochs = {1}
  Reports = {0, 1}
  Errors = {1, 2}
  MaxFaults = 1
  PlFaults = 0
  SaveTries = 2
SPECIFICATION Spec
INVARIANTS  ReplicasAgree UpdatesAreWhole
  NoSampleSkipped UpdatesReachTheModel BestIsBest
  
PROPERTIES ResumesFromTheLastSave 
