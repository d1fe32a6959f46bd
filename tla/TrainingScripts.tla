-------------------------- MODULE TrainingScripts --------------------------
(***************************************************************************)
(* What the main function of each training application does, as the list   *)
(* of its operations in the order of the code.  Training.tla gives every   *)
(* operation its meaning and runs the lists on the ranks of a job.         *)
(*                                                                         *)
(* An operation is a record [op, arg].  While(c) and If(c) open a block    *)
(* that End closes; c names a condition of Training.tla.                   *)
(***************************************************************************)
EXTENDS Integers, Sequences, FiniteSets

I(op) == <<[op |-> op, arg |-> ""]>>
A(op, arg) == <<[op |-> op, arg |-> arg]>>
While(c) == A("while", c)
If(c) == A("if", c)
End == I("end")
When(c, body) == If(c) \o body \o End

\* Serializer::save and fl::save truncate the file they write.
Save(file) == A("truncate", file) \o A("write", file)

backwardWithScaling == I("backward") \o I("finalize") \o I("unscale")

------------------------------------------------------------------------------
(* app/asr/Train.cpp *)

AsrMode ==
  When("continue", I("findRun") \o I("readConfig"))
  \o I("initDistributed")

AsrModel ==
  When("fresh", I("makeModel") \o I("makeOptim"))
  \o When("continue", A("load", "all"))

\* Mutant: the other ranks are not waited for.
RegenerateNoBarrier ==
  When("plEpoch", I("eval") \o I("openLst") \o I("writeLst") \o I("writeFns")
                  \o I("createTrainSet"))

regeneratePl ==
  When("plEpoch", I("eval") \o I("openLst") \o I("writeLst") \o I("writeFns")
                  \o I("plBarrier") \o I("createTrainSet"))

AsrPseudoLabels ==
  I("reloadPl") \o When("somePl", I("createTrainSet"))
  \o When("noPl", regeneratePl)

AsrTest == I("eval") \o I("test")

\* Mutant: the best model is the one of the last evaluation.
SaveModelsAlwaysBest == Save("last") \o I("newBest") \o Save("best")

saveModels ==
  When("itersave", Save("iter")) \o Save("last")
  \o When("better", I("newBest") \o Save("best"))

runValAndSaveModel == AsrTest \o I("syncMeter") \o saveModels

\* Mutant: gradients are zeroed once per batch and not once per attempt.
AsrAttemptNoZeroGrad == I("forward") \o I("allReduce") \o backwardWithScaling

AsrAttempt ==
  I("forward") \o I("zeroGrad") \o I("allReduce") \o backwardWithScaling

\* Mutant: every attempt takes a batch of its own.
AsrUpdateSampleInLoop ==
  I("nextUpdate") \o I("sample")
  \o While("attempt") \o AsrAttempt \o When("attempt", I("sample")) \o End
  \o I("step")
  \o When("reportIters", runValAndSaveModel \o I("train"))

AsrUpdate ==
  I("nextUpdate") \o I("sample")
  \o While("attempt") \o AsrAttempt \o End
  \o I("step")
  \o When("reportIters", runValAndSaveModel \o I("train"))

AsrEpoch ==
  I("nextEpoch") \o I("train") \o I("restartData")
  \o While("batches") \o AsrUpdate \o End
  \o When("reportEpoch", runValAndSaveModel)
  \o regeneratePl

AsrTrain ==
  I("hooks") \o I("allReduceParameters") \o I("gatherParams")
  \o I("startUpdates")
  \o While("updates") \o AsrEpoch \o End

\* One call of train for each of LinSeg, window pretraining and training.
AsrPhases == While("phases") \o When("phaseDue", AsrTrain) \o I("nextPhase") \o End

Asr == AsrMode \o AsrModel \o AsrPseudoLabels \o AsrPhases

------------------------------------------------------------------------------
(* app/asr/tutorial/FinetuneCTC.cpp *)

FinetuneSetup ==
  I("initDistributed") \o I("makeModel") \o I("makeOptim")

FinetuneReport == AsrTest \o I("syncMeter") \o saveModels

\* The scaled loss is checked by each rank on its own, before any collective.
FinetuneAttempt ==
  I("forward") \o I("scaleLoss")
  \o When("lossValid", I("zeroGrad") \o I("backward") \o I("finalize")
                       \o I("divideGradients"))

FinetuneEpoch ==
  I("nextEpoch") \o I("train") \o I("restartData")
  \o While("batches")
     \o I("nextUpdate") \o I("sample")
     \o While("attempt") \o FinetuneAttempt \o End
     \o I("step") \o I("raiseScale")
     \o When("reportIters", FinetuneReport \o I("train"))
  \o End
  \o When("reportEpoch", FinetuneReport)

Finetune ==
  FinetuneSetup
  \o I("hooks") \o I("allReduceParameters") \o I("startUpdates")
  \o While("updates") \o FinetuneEpoch \o End

------------------------------------------------------------------------------
(* app/lm/Trainer.cpp *)

initTrain == I("makeModel") \o I("gatherParams") \o I("makeOptim")
initContinue == A("load", "all")

LmInit ==
  I("initDistributed") \o I("selectMode")
  \o When("fresh", initTrain) \o When("continue", initContinue)

\* saveCheckpoint(path, suffix) for a suffix.
saveCheckpoint(suffix) == Save("last") \o Save(suffix)

reduceGrads == I("gatherParams") \o I("finalizeAll")

trainStep ==
  I("train") \o I("sample")
  \o While("attempt")
     \o I("forward") \o I("zeroGrad") \o I("allReduce") \o I("backward")
     \o reduceGrads \o I("unscale")
  \o End
  \o I("step")

evalStep == I("eval") \o I("test")
runEvaluation == evalStep \o I("syncMeter")

\* Mutant: evaluates at the end of an epoch, which is not the same for all ranks.
TrainingEvaluatesEpochs ==
  I("allReduceParameters")
  \o While("totalUpdates")
     \o When("advanceEpoch", I("nextEpoch") \o Save("last") \o runEvaluation)
     \o trainStep \o I("nextUpdate")
     \o When("saveUpdates", saveCheckpoint("iter"))
  \o End

runTraining ==
  I("allReduceParameters")
  \o While("totalUpdates")
     \o When("advanceEpoch", I("nextEpoch") \o Save("last"))
     \o trainStep \o I("nextUpdate")
     \o When("reportUpdates",
             runEvaluation
             \o When("better", I("newBest") \o saveCheckpoint("best")))
     \o When("saveUpdates", saveCheckpoint("iter"))
  \o End

Lm == LmInit \o runTraining

------------------------------------------------------------------------------
(* app/objdet/examples/CocoDetr.cpp *)

cocoEvalLoop ==
  I("eval") \o I("test") \o I("barrier") \o I("evalCommand") \o I("barrier")
  \o I("train")

CocoSetup ==
  When("continue", I("findRun") \o I("readConfig"))
  \o I("initDistributed")
  \o I("makeModel") \o I("train") \o I("makeOptim") \o I("gatherParams")
  \o When("continue", A("load", "all"))
  \o When("startedBefore", cocoEvalLoop)
  \o I("allReduceParameters") \o I("hooks")

\* SetCriterion sums the number of boxes over the ranks.
CocoAttempt ==
  I("forwardBackbone") \o I("allReduce") \o I("zeroGrad") \o backwardWithScaling

CocoEpoch ==
  I("restartData")
  \o While("samples")
     \o I("nextUpdate") \o I("sample")
     \o While("attempt") \o CocoAttempt \o End
     \o I("step")
     \o When("metricIters", I("syncTrainMeter"))
  \o End
  \o Save("last") \o Save("iter")
  \o cocoEvalLoop
  \o I("nextEpoch")

Coco == CocoSetup \o While("epochs") \o CocoEpoch \o End

------------------------------------------------------------------------------
(* app/imgclass/examples and app/objdet/examples/ImageNetResnet50Backbone.cpp *)

\* The checkpoint holds the model, and for the transformer its epoch.
ImageNetSetup(what) ==
  I("initDistributed") \o I("makeModel")
  \o I("allReduceParameters") \o I("hooks") \o I("gatherParams")
  \o I("makeOptim")
  \o When("continue", A("load", what))

\* Also the evalLoop of the other two.
imageEvalLoop == I("eval") \o I("test") \o I("train") \o I("syncMeter")

TransformerAttempt == I("forward") \o I("zeroGrad") \o backwardWithScaling

TransformerEpoch ==
  I("restartData")
  \o While("samples")
     \o I("nextUpdate") \o I("sample")
     \o While("attempt") \o TransformerAttempt \o End
     \o I("step")
     \o When("metricItersButFirst", I("syncTrainMeter"))
  \o End
  \o imageEvalLoop \o Save("last")
  \o I("nextEpoch")

Transformer ==
  ImageNetSetup("modelAndEpoch") \o While("epochs") \o TransformerEpoch \o End

Resnet34Epoch ==
  I("restartData")
  \o While("samples")
     \o I("zeroGrad") \o I("nextUpdate") \o I("sample")
     \o While("attempt")
        \o I("forward") \o I("zeroGrad") \o backwardWithScaling
     \o End
     \o I("step")
     \o When("metricIters", I("syncTrainMeter"))
  \o End
  \o imageEvalLoop \o Save("last")
  \o I("nextEpoch")

Resnet34 == ImageNetSetup("model") \o While("epochs") \o Resnet34Epoch \o End

BackboneEpoch ==
  I("restartData")
  \o While("samples")
     \o I("zeroGrad") \o I("nextUpdate") \o I("sample")
     \o I("forward") \o I("backward") \o I("finalize") \o I("step")
     \o When("metricIters", I("syncTrainMeter"))
  \o End
  \o imageEvalLoop \o Save("last")
  \o I("nextEpoch")

Backbone == ImageNetSetup("model") \o While("epochs") \o BackboneEpoch \o End

------------------------------------------------------------------------------
(* fl/examples and app/benchmark/ModelBenchmarker.cpp *)

DistributedTraining ==
  I("initDistributed") \o I("makeModel")
  \o I("allReduceParameters") \o I("hooks") \o I("makeOptim")
  \o While("epochs")
     \o I("restartData")
     \o While("samples")
        \o I("zeroGrad") \o I("nextUpdate") \o I("sample")
        \o I("forward") \o I("backward") \o I("finalize") \o I("step")
     \o End
     \o I("allReduce") \o I("nextEpoch")
  \o End

\* kWarmupUpdates iterations and then kRunUpdates of the same kind.
runBenchmark ==
  I("makeModel") \o I("makeOptim") \o I("hooks") \o I("train")
  \o While("epochs")
     \o I("restartData")
     \o While("samples")
        \o I("zeroGrad") \o I("nextUpdate") \o I("sample")
        \o I("forward") \o I("backward") \o I("finalize") \o I("step")
     \o End
     \o I("nextEpoch")
  \o End
  \o I("syncTrainMeter")

Mnist ==
  I("makeModel") \o I("makeOptim")
  \o While("epochs")
     \o I("restartData")
     \o While("samples")
        \o I("nextUpdate") \o I("sample")
        \o I("forward") \o I("backward") \o I("step") \o I("zeroGrad")
     \o End
     \o I("eval") \o I("test") \o I("train") \o I("nextEpoch")
  \o End
  \o I("eval") \o I("test") \o I("train")

\* Both models have no dropout and are tested in training mode.
RnnExample ==
  I("makeModel") \o I("makeOptim")
  \o While("epochs")
     \o I("restartData")
     \o While("samples")
        \o I("nextUpdate") \o I("sample")
        \o I("forward") \o I("zeroGrad") \o I("backward") \o I("step")
     \o End
     \o I("infer") \o I("nextEpoch")
  \o End
  \o I("infer")

RnnLm == RnnExample
RnnClassification == RnnExample

==============================================================================
