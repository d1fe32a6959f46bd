------------------------------ MODULE Training ------------------------------
(***************************************************************************)
(* A training job: one process per rank, each running the script of its    *)
(* application (TrainingScripts.tla).  The ranks meet in collectives, only *)
(* the master (rank 0) writes checkpoints, and the whole job may crash and *)
(* be started again from what it left on disk.                             *)
(*                                                                         *)
(* Abstractions.  The weights of a model are the set of seeds they were    *)
(* averaged from and the list of updates applied to them; a gradient is    *)
(* the set of the contributions summed in it, each naming the rank, the    *)
(* sample, the loss scale and how often the sample went through the        *)
(* backbone; an error rate is a number of a small set.  The models a       *)
(* process holds are objects: the one built from the architecture and the  *)
(* one a checkpoint was read into.  An object is known to the optimizer    *)
(* (opt), to the gradient hooks (hooks) and to the caller of unscale       *)
(* (params) as the code's variables are.                                   *)
(***************************************************************************)
EXTENDS TrainingScripts, FiniteSetsExt

CONSTANTS
  WorldSize,       \* number of ranks of a distributed job
  Jobs,            \* the applications to run
  Updates,         \* FLAGS_iter, FLAGS_train_total_updates
  Epochs,          \* FLAGS_train_epochs
  MaxBatches,      \* batches of a rank's training set, at most
  LinSegs,         \* values of FLAGS_linseg
  PlEpochs,        \* FLAGS_ipl_relabel_epoch, {} for no pseudo labels
  Reports,         \* values of FLAGS_reportiters
  Errors,          \* error rates an evaluation may return
  MaxFaults,       \* crashes of the job and failed writes, at most
  PlFaults,        \* and those of a job that uses pseudo labels
  SaveTries        \* attempts of Serializer::save

Solo == {"mnist", "rnnlm", "rnnclassification"}
Retrying == {"asr", "finetune", "lm", "coco"}     \* use Serializer::save
FilePerEpoch == {"resnet34", "backbone"}          \* the others one per run

Code ==
  [asr |-> Asr, finetune |-> Finetune, lm |-> Lm, coco |-> Coco,
   transformer |-> Transformer, resnet34 |-> Resnet34, backbone |-> Backbone,
   distributed |-> DistributedTraining, benchmark |-> runBenchmark,
   mnist |-> Mnist, rnnlm |-> RnnLm, rnnclassification |-> RnnClassification]

\* The script of an application with the other end of its blocks resolved: "to" is
\* the position of the end of a block and, at the end, of its beginning.
Opens(i) == i.op \in {"while", "if"}
Program(a) ==
  LET script == Code[a]
      n == Len(script)
      change == [i \in 1..n |-> IF Opens(script[i]) THEN 1
                               ELSE IF script[i].op = "end" THEN -1 ELSE 0]
      depth[i \in 0..n] == IF i = 0 THEN 0 ELSE depth[i - 1] + change[i]
      closes == [i \in {k \in 1..n : Opens(script[k])} |->
                   Min({j \in i..n : depth[j] = depth[i - 1]})]
      opening(j) == CHOOSE i \in DOMAIN closes : closes[i] = j IN
  [i \in 1..n |->
     [op |-> script[i].op, arg |-> script[i].arg,
      to |-> IF Opens(script[i]) THEN closes[i]
             ELSE IF script[i].op = "end" THEN opening(i) ELSE i]]

VARIABLES
  app, flags,    \* what runs, and its flags
  code,          \* the program of app
  job,           \* "running", or "failed" once a rank has died
  st,            \* the state of each rank
  disk,          \* the checkpoint files of each run
  pl,            \* the pseudo label files of each epoch and rank
  faults,        \* faults so far
  seen, saved    \* history: the errors of the evaluations of each run, and the
                 \* weights of the last complete save of the last model

vars == <<app, flags, code, job, st, disk, pl, faults, seen, saved>>

Ranks == IF app \in Solo THEN {0} ELSE 0..(WorldSize - 1)
Master == 0
Runs == 1..Max({MaxFaults + 1, Epochs})
Files == {"last", "best", "iter"}
NoError == Max(Errors) + 1     \* DBL_MAX
MinScale == 2                  \* kAmpMinimumScaleFactorValue
MaxScale == 8                  \* FLAGS_fl_amp_max_scale_factor
ScaleInterval == 4             \* FLAGS_fl_amp_scale_factor_update_interval

Built == 1
Loaded == 2
NoGrad == [parts |-> {}, div |-> 1]
NoWeights == [seeds |-> {}, steps |-> <<>>]
NoFile == [state |-> "none", w |-> NoWeights, epoch |-> 0, batch |-> 0,
           scale |-> 1, err |-> 0]

\* A process that has just started.
Start(mode) ==
  [pc |-> 0, mode |-> mode, run |-> 1, from |-> 1, epoch |-> 0, batch |-> 0,
   start |-> 0, phase |-> 1, idx |-> 0, cur |-> <<0, 0>>, depth |-> 0,
   ok |-> FALSE, inf |-> FALSE, model |-> Built, opt |-> Built,
   hooks |-> Built, params |-> Built,
   w |-> [o \in {Built, Loaded} |-> NoWeights],
   grad |-> [o \in {Built, Loaded} |-> NoGrad],
   scale |-> IF flags.amp THEN flags.scale ELSE 1, count |-> 1, train |-> TRUE,
   err |-> NoError, best |-> NoError, tries |-> 0, steps |-> 0,
   plUsed |-> 0, lists |-> {}]

------------------------------------------------------------------------------
(* Conditions and control *)

\* nbatches of the current call of train.
Target(s) == IF s.phase = 1 THEN flags.linseg - s.start ELSE Updates

\* The conditions of the scripts, for rank r in state s.
Holds(c, s, r) ==
  CASE c = "continue" -> s.mode = "continue"
    [] c = "fresh" -> s.mode = "train"
    [] c = "phases" -> s.phase <= 2
    [] c = "phaseDue" -> s.phase = 2 \/ flags.linseg - s.start > 0
    [] c = "updates" -> s.batch < Target(s)
    [] c = "batches" -> s.idx < flags.batches[r] /\ ~(s.batch > Target(s))
    [] c = "samples" -> s.idx < flags.batches[r]
    [] c = "epochs" -> s.epoch < Epochs
    [] c = "attempt" -> ~s.ok
    [] c = "lossValid" -> ~s.inf
    [] c = "reportIters" -> flags.report > 0 /\ s.batch % flags.report = 0
    [] c = "reportEpoch" -> flags.report = 0
    [] c = "itersave" -> flags.itersave
    [] c = "better" -> s.err < s.best
    [] c = "plEpoch" -> flags.pl /\ s.epoch \in PlEpochs
    [] c = "noPl" -> s.plUsed = 0
    [] c = "somePl" -> s.plUsed > 0
    [] c = "totalUpdates" -> s.batch < Updates
    [] c = "advanceEpoch" -> s.batch > 0 /\ s.batch % flags.batches[r] = 0
    [] c = "reportUpdates" -> flags.report > 0 /\ s.batch % flags.report = 0
    [] c = "saveUpdates" -> flags.itersave
    [] c = "metricIters" -> s.idx % 2 = 0
    [] c = "metricItersButFirst" -> s.idx - 1 > 0 /\ (s.idx - 1) % 2 = 0
    [] c = "startedBefore" -> s.epoch > 0

\* The position of the next operation that is not control, from pc on.
Settle(from, s, r) ==
  LET at[pc \in 1..(Len(code) + 1)] ==
        IF pc > Len(code) THEN pc
        ELSE CASE Opens(code[pc]) ->
                    at[IF Holds(code[pc].arg, s, r) THEN pc + 1
                       ELSE code[pc].to + 1]
               [] code[pc].op = "end" ->
                    at[IF code[code[pc].to].op = "while" THEN code[pc].to
                       ELSE pc + 1]
               [] OTHER -> pc IN
  at[from]

Done(r) == st[r].pc > Len(code)
Instr(r) == code[st[r].pc]
At(r, op) == job = "running" /\ ~Done(r) /\ Instr(r).op = op

\* Rank r has done its operation and is now in state s.
Advance(r, s) == [s EXCEPT !.pc = Settle(s.pc + 1, s, r)]
Becomes(r, s) ==
  /\ \E t \in {s} : st' = [st EXCEPT ![r] = Advance(r, t)]
  /\ UNCHANGED <<app, flags, code, job, faults>>

\* LOG(FATAL) or an exception that leaves main: the job is lost.
Dies ==
  /\ job' = "failed"
  /\ UNCHANGED <<app, flags, code, st, disk, pl, faults, seen, saved>>

Rest == <<disk, pl, seen, saved>>

------------------------------------------------------------------------------
(* Setting up *)

\* while (fileExists(model_last.bin of run runIdx)) ++runIdx; reload runIdx - 1.
findRun(r) ==
  LET s == st[r]
      free == Min({k \in 1..(Max(Runs) + 1) :
                     k \notin Runs \/ disk[k]["last"].state = "none"}) IN
  /\ At(r, "findRun")
  /\ Becomes(r, [s EXCEPT !.run = free, !.from = free - 1])
  /\ UNCHANGED Rest

\* Mutant: continues from the best model.
CheckpointBest(s) == disk[s.from]["best"]

Checkpoint(s) == disk[s.from]["last"]

\* The epoch and the update to start from are in the config at the head of the
\* file; CocoDetr has no use for the second.
readConfig(r) ==
  LET s == st[r]
      c == Checkpoint(s) IN
  /\ At(r, "readConfig")
  /\ IF c.state # "full" THEN Dies
     ELSE /\ Becomes(r, [s EXCEPT !.epoch = c.epoch, !.batch = c.batch,
                                  !.start = c.batch])
          /\ UNCHANGED Rest

selectMode(r) ==
  LET s == st[r] IN
  /\ At(r, "selectMode")
  /\ Becomes(r, [s EXCEPT !.mode = IF disk[1]["last"].state = "none"
                                   THEN "train" ELSE "continue"])
  /\ UNCHANGED Rest

\* Ranks that take their seed from their rank start from weights of their own.
makeModel(r) ==
  LET s == st[r]
      seed == IF app = "distributed" THEN r ELSE 0 IN
  /\ At(r, "makeModel")
  /\ Becomes(r, [s EXCEPT !.w[Built] = [seeds |-> {seed}, steps |-> <<>>]])
  /\ UNCHANGED Rest

\* What a process takes from checkpoint c.  The optimizers of a checkpoint own the
\* parameters of the model beside them.
Restored(s, c, what) ==
  LET m == [s EXCEPT !.model = Loaded, !.w[Loaded] = c.w, !.epoch = c.epoch,
                     !.steps = Len(c.w.steps)] IN
  CASE what = "model" -> [m EXCEPT !.epoch = @ + 1]
    [] what = "modelAndEpoch" -> [m EXCEPT !.batch = c.batch]
    [] OTHER -> [m EXCEPT !.opt = Loaded, !.scale = c.scale, !.batch = c.batch,
                          !.start = c.batch]

\* Mutant: the optimizers are not read.
LoadModelOnly(r) ==
  LET s == st[r]
      c == Checkpoint(s) IN
  /\ At(r, "load")
  /\ IF c.state # "full" THEN Dies
     ELSE /\ Becomes(r, [Restored(s, c, Instr(r).arg) EXCEPT !.opt = s.opt])
          /\ UNCHANGED Rest

load(r) ==
  LET s == st[r]
      c == Checkpoint(s) IN
  /\ At(r, "load")
  /\ IF c.state # "full" THEN Dies
     ELSE Becomes(r, Restored(s, c, Instr(r).arg)) /\ UNCHANGED Rest

makeOptim(r) ==
  /\ At(r, "makeOptim")
  /\ Becomes(r, [st[r] EXCEPT !.opt = st[r].model]) /\ UNCHANGED Rest

\* distributeModuleGrads: the hooks are on the parameters of this object.
hooks(r) ==
  /\ At(r, "hooks")
  /\ Becomes(r, [st[r] EXCEPT !.hooks = st[r].model]) /\ UNCHANGED Rest

gatherParams(r) ==
  /\ At(r, "gatherParams")
  /\ Becomes(r, [st[r] EXCEPT !.params = st[r].model]) /\ UNCHANGED Rest

------------------------------------------------------------------------------
(* Counters and modes *)

Set(r, op, s) == At(r, op) /\ Becomes(r, s) /\ UNCHANGED Rest

startUpdates(r) ==
  Set(r, "startUpdates", [st[r] EXCEPT !.batch = st[r].start])

\* After LinSeg, startUpdate = FLAGS_linseg.
nextPhase(r) ==
  LET s == st[r] IN
  Set(r, "nextPhase",
      [s EXCEPT !.phase = @ + 1,
                !.start = IF s.phase = 1 /\ flags.linseg > s.start
                          THEN flags.linseg ELSE @])

nextEpoch(r) == Set(r, "nextEpoch", [st[r] EXCEPT !.epoch = @ + 1])
restartData(r) == Set(r, "restartData", [st[r] EXCEPT !.idx = 0])
nextUpdate(r) == Set(r, "nextUpdate", [st[r] EXCEPT !.batch = @ + 1])

\* The language model's dataset is indexed by the update and not by an iterator.
sample(r) ==
  LET s == st[r] IN
  Set(r, "sample",
      [s EXCEPT !.idx = @ + 1, !.ok = FALSE, !.depth = 0,
                !.cur = IF app = "lm" THEN <<0, s.batch>>
                        ELSE <<s.epoch, s.idx>>])

train(r) == Set(r, "train", [st[r] EXCEPT !.train = TRUE])
eval(r) == Set(r, "eval", [st[r] EXCEPT !.train = FALSE])
forward(r) == Set(r, "forward", st[r])
test(r) == Set(r, "test", st[r])
infer(r) == Set(r, "infer", st[r])

\* input = detr->forwardBackbone(input), inside the loop of attempts.
forwardBackbone(r) == Set(r, "forwardBackbone", [st[r] EXCEPT !.depth = @ + 1])

------------------------------------------------------------------------------
(* Gradients and updates *)

zeroGrad(r) == Set(r, "zeroGrad", [st[r] EXCEPT !.grad[st[r].opt] = NoGrad])

\* Gradients of a second backward pass are added to those that are there.
backward(r) ==
  LET s == st[r]
      c == [rank |-> r, sample |-> s.cur, scale |-> s.scale, depth |-> s.depth]
  IN
  Set(r, "backward", [s EXCEPT !.grad[s.model].parts = @ \cup {c}])

\* A scaled gradient overflows when the scale exceeds what the rank's data allow.
Overflows(c) == c.scale > flags.limit[c.rank]
Invalid(g) == \E c \in g.parts : Overflows(c)

\* DynamicScaler::update.
RaisedScale(scale) ==
  IF scale >= MaxScale THEN scale
  ELSE IF scale = ScaleInterval THEN scale * 2 ELSE scale + 2

\* Mutant: a failed attempt keeps the scale.
UnscaleKeepsScale(r) ==
  LET s == st[r] IN
  /\ At(r, "unscale")
  /\ Becomes(r, [s EXCEPT !.ok = ~Invalid(s.grad[s.params]),
                          !.grad[s.params].div = s.scale])
  /\ UNCHANGED Rest

unscale(r) ==
  LET s == st[r]
      g == s.grad[s.params] IN
  /\ At(r, "unscale")
  /\ CASE ~flags.amp ->
            Becomes(r, [s EXCEPT !.ok = TRUE]) /\ UNCHANGED Rest
       [] flags.amp /\ g.parts = {} -> Dies      \* no gradient: grad() throws
       [] flags.amp /\ g.parts # {} /\ Invalid(g) ->
            IF s.scale < MinScale THEN Dies
            ELSE /\ Becomes(r, [s EXCEPT !.scale = @ \div 2])
                 /\ UNCHANGED Rest
       [] OTHER ->
            /\ Becomes(r, [s EXCEPT !.ok = TRUE, !.grad[s.params].div = s.scale,
                                    !.scale = RaisedScale(@)])
            /\ UNCHANGED Rest

\* FinetuneCTC: the loss, and then the gradients, with a scale of its own.
scaleLoss(r) ==
  LET s == st[r] IN
  /\ At(r, "scaleLoss")
  /\ IF flags.amp /\ s.scale > flags.lossLimit[r]
     THEN IF s.scale < MinScale THEN Dies
          ELSE /\ Becomes(r, [s EXCEPT !.scale = @ \div 2, !.count = 1,
                                       !.inf = TRUE])
               /\ UNCHANGED Rest
     ELSE /\ Becomes(r, [s EXCEPT !.count = (@ + 1) % (2 * ScaleInterval),
                                  !.inf = FALSE])
          /\ UNCHANGED Rest

divideGradients(r) ==
  LET s == st[r]
      g == s.grad[s.model]
      invalid == flags.amp /\ Invalid(g)
      retry == invalid /\ s.scale >= MinScale IN
  Set(r, "divideGradients",
      [s EXCEPT !.ok = ~retry, !.grad[s.model].div = s.scale,
                !.count = IF invalid THEN 1 ELSE @,
                !.scale = IF retry THEN @ \div 2 ELSE @])

raiseScale(r) ==
  LET s == st[r] IN
  Set(r, "raiseScale",
      [s EXCEPT !.scale = CASE ~flags.amp \/ @ >= MaxScale -> @
                            [] s.count % ScaleInterval = 0 -> @ * 2
                            [] OTHER -> @ + 2])

\* An optimizer skips parameters that have no gradient.
step(r) ==
  LET s == st[r]
      g == s.grad[s.opt] IN
  Set(r, "step",
      [s EXCEPT !.steps = @ + 1,
                !.w[s.opt].steps = IF g.parts = {} THEN @ ELSE Append(@, g)])

------------------------------------------------------------------------------
(* Collectives: every rank is at the same one *)

Plain == {"initDistributed", "allReduce", "barrier", "plBarrier",
          "syncTrainMeter"}
Collectives ==
  Plain \cup {"allReduceParameters", "finalize", "finalizeAll", "syncMeter"}

AllAt(op) == \A r \in Ranks : At(r, op)
AllBecome(s(_)) ==
  /\ st' = [r \in Ranks |-> Advance(r, s(r))]
  /\ UNCHANGED <<app, flags, code, job, faults>>

Meet ==
  /\ \E op \in Plain : AllAt(op)
  /\ LET same(r) == st[r] IN AllBecome(same)
  /\ UNCHANGED Rest

\* Every rank has the average of all.
Average(weights) ==
  IF \A v, w \in weights : v.steps = w.steps
  THEN [seeds |-> UNION {w.seeds : w \in weights},
        steps |-> (CHOOSE w \in weights : TRUE).steps]
  ELSE [seeds |-> UNION {w.seeds : w \in weights}, steps |-> <<NoGrad>>]

\* Mutant: the ranks keep the weights they have.
KeepParameters ==
  /\ AllAt("allReduceParameters")
  /\ LET same(r) == st[r] IN AllBecome(same)
  /\ UNCHANGED Rest

allReduceParameters ==
  /\ AllAt("allReduceParameters")
  /\ LET averaged(r) ==
           [st[r] EXCEPT !.w[st[r].model] =
              Average({st[q].w[st[q].model] : q \in Ranks})] IN
     AllBecome(averaged)
  /\ UNCHANGED Rest

\* reducer->finalize(): the gradients the hooks have added are summed over the
\* ranks.  A model without hooks keeps its own.
Reduced(o) ==
  LET sum(r) == [st[r] EXCEPT !.grad[o].parts =
                   UNION {st[q].grad[o].parts : q \in Ranks}] IN
  AllBecome(sum)

finalize ==
  /\ AllAt("finalize")
  /\ Reduced(st[Master].hooks)
  /\ UNCHANGED Rest

\* reduceGrads adds the gradients of the parameters themselves.
finalizeAll ==
  /\ AllAt("finalizeAll")
  /\ Reduced(st[Master].params)
  /\ UNCHANGED Rest

syncMeter ==
  /\ AllAt("syncMeter")
  /\ \E e \in Errors :
       /\ LET known(r) == [st[r] EXCEPT !.err = e] IN AllBecome(known)
       /\ seen' = [seen EXCEPT ![st[Master].run] = @ \cup {e}]
  /\ UNCHANGED <<disk, pl, saved>>

------------------------------------------------------------------------------
(* Files *)

newBest(r) == Set(r, "newBest", [st[r] EXCEPT !.best = st[r].err])
evalCommand(r) == Set(r, "evalCommand", st[r])

FileOf(s) == IF app \in FilePerEpoch THEN s.epoch + 1 ELSE s.run
Contents(s) ==
  [state |-> "full", w |-> s.w[s.model], epoch |-> s.epoch, batch |-> s.batch,
   scale |-> s.scale, err |-> s.err]

truncate(r) ==
  LET s == st[r] IN
  /\ At(r, "truncate")
  /\ Becomes(r, s)
  /\ IF r = Master
     THEN disk' = [disk EXCEPT ![FileOf(s)][Instr(r).arg].state = "partial"]
     ELSE UNCHANGED disk
  /\ UNCHANGED <<pl, seen, saved>>

write(r) ==
  LET s == st[r] IN
  /\ At(r, "write")
  /\ Becomes(r, [s EXCEPT !.tries = 0])
  /\ IF r = Master
     THEN disk' = [disk EXCEPT ![FileOf(s)][Instr(r).arg] = Contents(s)]
     ELSE UNCHANGED disk
  /\ saved' = IF r = Master /\ Instr(r).arg = "last" THEN Contents(s).w ELSE saved
  /\ UNCHANGED <<pl, seen>>

\* The write fails and is tried again from the start, SaveTries times in all.
writeFails ==
  LET s == st[Master] IN
  /\ At(Master, "write") /\ faults < flags.faults
  /\ faults' = faults + 1
  /\ IF app \in Retrying /\ s.tries + 1 < SaveTries
     THEN /\ st' = [st EXCEPT ![Master].pc = @ - 1, ![Master].tries = @ + 1]
          /\ UNCHANGED job
     ELSE job' = "failed" /\ UNCHANGED st
  /\ UNCHANGED <<app, flags, code, disk, pl, seen, saved>>

------------------------------------------------------------------------------
(* Pseudo labels *)

findLastPlEpoch(epoch) == Max({0} \cup {e \in PlEpochs : e <= epoch})

Lists(e) == {pl[e][q].lst : q \in Ranks}

reloadPl(r) ==
  LET s == st[r]
      e == findLastPlEpoch(s.epoch)
      ready == flags.pl /\ e > 0 /\ \A q \in Ranks : pl[e][q].fns IN
  Set(r, "reloadPl", [s EXCEPT !.plUsed = IF ready THEN e ELSE 0])

PlFile(r, op, file) ==
  /\ At(r, op)
  /\ Becomes(r, [st[r] EXCEPT !.plUsed = st[r].epoch])
  /\ pl' = [pl EXCEPT ![st[r].epoch][r] = file]
  /\ UNCHANGED <<disk, seen, saved>>

PlOf(r) == pl[st[r].epoch][r]
openLst(r) == PlFile(r, "openLst", [PlOf(r) EXCEPT !.lst = "partial"])
writeLst(r) == PlFile(r, "writeLst", [PlOf(r) EXCEPT !.lst = "full"])
writeFns(r) == PlFile(r, "writeFns", [PlOf(r) EXCEPT !.fns = TRUE])

createTrainSet(r) ==
  Set(r, "createTrainSet", [st[r] EXCEPT !.lists = Lists(st[r].plUsed)])

------------------------------------------------------------------------------
(* Crash and restart *)

LatestFull == Max({0} \cup {k \in Runs : disk[k]["last"].state = "full"})

\* How the job is started again: from a checkpoint when there is one.
RestartMode ==
  CASE app \in {"asr", "coco", "transformer"} ->
         IF disk[1]["last"].state = "none" THEN "train" ELSE "continue"
    [] app \in FilePerEpoch -> IF LatestFull = 0 THEN "train" ELSE "continue"
    [] OTHER -> "train"

Crash ==
  /\ job = "running" /\ faults < flags.faults /\ \E r \in Ranks : ~Done(r)
  /\ faults' = faults + 1
  /\ LET s == [Start(RestartMode) EXCEPT
                 !.from = IF app \in FilePerEpoch /\ LatestFull > 0
                          THEN LatestFull ELSE 1] IN
     st' = [r \in Ranks |-> Advance(r, s)]
  /\ seen' = IF RestartMode = "train" /\ ~(app = "lm" /\ disk[1]["last"].state # "none")
             THEN [k \in Runs |-> {}] ELSE seen
  /\ UNCHANGED <<app, flags, code, job, disk, pl, saved>>

------------------------------------------------------------------------------
(* Flags and initial states *)

HasScaler == {"asr", "finetune", "lm", "coco", "transformer", "resnet34"}
Reporting == {"asr", "finetune", "lm"}

\* The largest scale at which the gradients, or the loss, of a rank are finite:
\* always, only when it is small, or never.
AnyScale == [r \in 0..(WorldSize - 1) |-> MaxScale]
Limits == {AnyScale, [AnyScale EXCEPT ![0] = MinScale], [AnyScale EXCEPT ![0] = 0]}

\* The language model's files are split by size: ranks differ in their number of
\* batches.  The training sets of speech recognition and of Coco have the same
\* number on every rank.  DistributedDataset can give the first ranks of the image
\* classifiers a last batch more (see Datasets.tla); that case is left out here.
BatchesOf(a) ==
  [r \in 0..(WorldSize - 1) |->
     IF a = "lm" /\ r # Master THEN MaxBatches + 1 ELSE MaxBatches]

FlagsOf(a) ==
  {[amp |-> FALSE, scale |-> 1, limit |-> AnyScale, lossLimit |-> AnyScale,
    report |-> n, itersave |-> n > 0, linseg |-> l, batches |-> BatchesOf(a),
    pl |-> p, faults |-> IF p THEN PlFaults ELSE MaxFaults] :
     n \in IF a \in Reporting THEN Reports ELSE {0},
     l \in IF a = "asr" THEN LinSegs ELSE {0},
     p \in {a = "asr" /\ PlEpochs # {}, FALSE}}

\* Mixed precision is crossed with faults where no gradient overflows, and not with
\* LinSeg, pseudo labels and reports; only FinetuneCTC looks at the loss.
WithScaler(f) ==
  {[f EXCEPT !.amp = TRUE, !.scale = ScaleInterval, !.limit = l,
             !.lossLimit = ll, !.faults = IF l = AnyScale THEN @ ELSE 0] :
     l \in Limits,
     ll \in {AnyScale} \cup IF app = "finetune"
                           THEN {[AnyScale EXCEPT ![0] = MinScale]} ELSE {}}

Init ==
  /\ app \in Jobs
  /\ code = Program(app)
  /\ \E f \in FlagsOf(app) :
       flags \in {f} \cup IF app \in HasScaler /\ f.linseg = 0 /\ ~f.pl /\ f.report = 0
                         THEN WithScaler(f) ELSE {}
  /\ job = "running"
  /\ st = [r \in Ranks |-> Advance(r, Start("train"))]
  /\ disk = [k \in Runs |-> [f \in Files |-> NoFile]]
  /\ pl = [e \in 1..(Updates + 1) |->
             [r \in Ranks |-> [lst |-> "none", fns |-> FALSE]]]
  /\ faults = 0
  /\ seen = [k \in Runs |-> {}]
  /\ saved = NoWeights

------------------------------------------------------------------------------
Local(r) ==
  \/ findRun(r) \/ readConfig(r) \/ selectMode(r) \/ makeModel(r) \/ load(r)
  \/ makeOptim(r) \/ hooks(r) \/ gatherParams(r)
  \/ startUpdates(r) \/ nextPhase(r) \/ nextEpoch(r) \/ restartData(r)
  \/ nextUpdate(r) \/ sample(r) \/ train(r) \/ eval(r) \/ forward(r) \/ test(r)
  \/ infer(r) \/ forwardBackbone(r)
  \/ zeroGrad(r) \/ backward(r) \/ unscale(r) \/ scaleLoss(r)
  \/ divideGradients(r) \/ raiseScale(r) \/ step(r)
  \/ newBest(r) \/ evalCommand(r) \/ truncate(r) \/ write(r)
  \/ reloadPl(r) \/ openLst(r) \/ writeLst(r) \/ writeFns(r)
  \/ createTrainSet(r)

Collective ==
  Meet \/ allReduceParameters \/ finalize \/ finalizeAll \/ syncMeter

Finished == job = "failed" \/ \A r \in Ranks : Done(r)

Next ==
  \/ \E r \in Ranks : Local(r)
  \/ Collective
  \/ writeFails
  \/ Crash
  \/ Finished /\ UNCHANGED vars

Spec == Init /\ [][Next]_vars /\ WF_vars(Next)

------------------------------------------------------------------------------
(* Properties *)

Waits(r) == ~Done(r) /\ Instr(r).op \in Collectives
Steps(r) == st[r].w[st[r].model].steps

\* Ranks that wait in a collective wait in the same one, and none waits for a
\* rank that has left main: the calls of allReduce, barrier, finalize and
\* syncMeter line up whatever each rank found on disk, reported or retried.
CollectivesMatch ==
  job = "running" =>
    \A r, q \in Ranks :
      Waits(r) => ~Done(q) /\ (Waits(q) => Instr(r).op = Instr(q).op)

\* Ranks that have made the same number of updates have the same weights:
\* allReduceParameters, the reduced gradients and a scale factor that every rank
\* changes alike.  FinetuneCTC's ranks with mixed precision are not covered: each
\* halves its scale on its own when its loss overflows.
ReplicasAgree ==
  ~(app = "finetune" /\ flags.amp) =>
    \A r, q \in Ranks :
      st[r].steps > 0 /\ st[r].steps = st[q].steps =>
        st[r].w[st[r].model] = st[q].w[st[q].model]

\* Every update applied to a model is the sum of one gradient of every rank, all of
\* the same batch and finite, each divided by the factor its loss was scaled with,
\* and none of them of an attempt that was given up (zeroGrad, finalize, unscale).
\* FinetuneCTC's own scaling is not covered: it makes an update with gradients that
\* overflowed when the scale is below its minimum.
UpdatesAreWhole ==
  ~(app = "finetune" /\ flags.amp) =>
    \A r \in Ranks : \A i \in 1..Len(Steps(r)) :
      LET g == Steps(r)[i] IN
      /\ Cardinality(g.parts) = Cardinality(Ranks)
      /\ {c.rank : c \in g.parts} = Ranks
      /\ \A c, d \in g.parts : c.sample = d.sample /\ c.scale = g.div
      /\ ~Invalid(g)

\* "Ensure no samples are skipped while adjusting the loss scale factor": within
\* one start of the program, the next update is made with the next sample of the
\* epoch or, after the last one, with the first sample of the next epoch.
NoSampleSkipped ==
  flags.linseg = 0 /\ faults = 0 =>
    \A r \in Ranks : \A i \in 1..(Len(Steps(r)) - 1) :
      LET x == (CHOOSE c \in Steps(r)[i].parts : c.rank = r).sample
          y == (CHOOSE c \in Steps(r)[i + 1].parts : c.rank = r).sample IN
      \/ y = <<x[1], x[2] + 1>>
      \/ y = <<x[1] + 1, 0>> /\ x[2] = flags.batches[r] - 1

\* The optimizer updates the model that is trained, tested and saved.  Not so in
\* the ImageNet programs after loadModel, which replaces the model under an
\* optimizer, hooks and parameters that keep the one built before.
UpdatesReachTheModel ==
  ~(app \in {"transformer", "resnet34", "backbone"} /\ faults > 0) =>
    \A r \in Ranks : Len(Steps(r)) = st[r].steps

\* When the master is not writing, the best model of its run is one of the
\* smallest error of that run's evaluations (validminerrs, bestLoss_).  Not across
\* restarts of the language model, which forgets bestLoss_ and keeps the file.
BestIsBest ==
  LET s == st[Master]
      writing == ~Done(Master) /\ Instr(Master).op \in {"newBest", "truncate", "write"}
  IN app \in Reporting /\ seen[s.run] # {} /\ ~writing /\ s.steps > 0
       /\ ~(app = "lm" /\ faults > 0)
     => /\ disk[s.run]["best"].state = "full"
        /\ disk[s.run]["best"].err = Min(seen[s.run])

\* Every list a training set was made of was complete when it was read.
ListsAreComplete == \A r \in Ranks : st[r].lists \subseteq {"full"}

\* A job that continues starts from the weights of the most recent save of the
\* last model that was completed, or fails ("resume training from the most recent
\* checkpoint", app/asr/README.md).
ResumesFromTheLastSave ==
  [][\A r \in Ranks :
       st[r].model = Built /\ st'[r].model = Loaded =>
         st'[r].w[Loaded] = saved]_vars

\* A job ends, with success or with a fatal error: attempts are not repeated for
\* ever and no rank waits for ever for another.
JobEnds == <>Finished

==============================================================================
