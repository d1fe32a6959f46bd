---------------------------- MODULE MCAlgorithms ----------------------------
(* The algorithms and the smaller components for TLC: a behaviour is one call, or *)
(* one use, of one of them.                                                       *)
EXTENDS Hungarian, Alignments, BeamSearch, Datasets, AutogradFunctions, Transcripts,
        ConvLM, BlobDataset

CONSTANT Parts   \* which of the eight

VARIABLE part

allVars == <<part, hungarianVars, alignmentVars, beamVars, datasetVars,
             functionVars, transcriptVars, convLmVars, blobVars>>

NoHungarian ==
  /\ step = 0 /\ original = <<>> /\ costs = <<>> /\ firstPath = <<>>
  /\ stars = {} /\ primes = {} /\ rowCover = {} /\ colCover = {}
NoBeam ==
  /\ job = <<>> /\ hyp = {} /\ ended = FALSE
  /\ nDecoded = 0 /\ nPruned = 0 /\ offset = 0
NoDataset == request = <<>> /\ shares = Unshared

\* All costs 0..2 of two rows, 0..1 of three, and some of three rows with costs that
\* make stepSix necessary several times.
SearchMatrices ==
  Matrices(1, 2, 0..2) \cup Matrices(2, 3, 0..2) \cup Matrices(3, 3, 0..1)
  \cup {m \in Matrices(3, 3, {0, 1, 3}) : \A c \in 0..2 : m[<<0, c>>] = <<0, 1, 3>>[c + 1]}

\* Samples of sizes that need sorting, in two lists.
FixedRequests ==
  {[kind |-> "asr", lists |-> <<SubSeq(s, 1, Len(s) \div 2), SubSeq(s, Len(s) \div 2 + 1, Len(s))>>,
    order |-> <<>>, worldSize |-> w, batchSize |-> b, allowEmpty |-> e, dynamic |-> FALSE] :
     s \in {[i \in 1..n |-> 1 + ((5 * i) % 3)] : n \in 0..13},
     w \in 1..4, b \in 1..3, e \in BOOLEAN}

\* All sizes up to 3 of at most four samples; a limit of 2 is too small for some.
DynamicRequests ==
  {[kind |-> "asr", lists |-> <<<<>>, s>>,
    order |-> IF r THEN [i \in DOMAIN s |-> Len(s) - i] ELSE <<>>,
    worldSize |-> w, batchSize |-> b, allowEmpty |-> e, dynamic |-> TRUE] :
     s \in UNION {[1..n -> 1..3] : n \in 0..4},
     r \in BOOLEAN, w \in 1..3, b \in {2, 4, 6}, e \in BOOLEAN}

ImageRequests ==
  {[kind |-> "image", order |-> [i \in 1..n |-> n - i], worldSize |-> w, batchSize |-> b,
    nRepeated |-> k, policy |-> p] :
     n \in 0..9, w \in 1..3, b \in 1..3, k \in 1..3, p \in {"INCLUDE_LAST", "SKIP_LAST"}}

\* Files of at most four lines.
TextRequests ==
  {q \in {[kind |-> "text", words |-> f, newline |-> n, breakMode |-> m[1], dynamic |-> m[2],
           worldSize |-> w, batchSize |-> b, tokensPerSample |-> 4] :
            f \in UNION {[1..k -> 0..2] : k \in 1..4}, n \in BOOLEAN,
            m \in {<<"none", FALSE>>, <<"eos", FALSE>>, <<"eos", TRUE>>},
            w \in 1..3, b \in 1..2} :
     q.newline \/ Last(q.words) > 0}

Requests == FixedRequests \cup DynamicRequests \cup ImageRequests \cup TextRequests

\* Arrays with elements that differ.
Fill(dims, seed) ==
  [dims |-> dims,
   at |-> [k \in 1..Elements(dims) |-> Unit * (((k * k + seed * k) % 5) - 2)]]
Small(dims, seed) == overScalar(Fill(dims, seed), Unit)
Fn(fn, in, arg) == [fn |-> fn, in |-> in, arg |-> arg]

\* All arrays of two elements around the kinks.
Pairs == {[dims |-> <<2, 1, 1, 1>>, at |-> v] :
            v \in [1..2 -> {0 - Unit, 0, Unit, 2 * Unit}]}

ElementwiseCalls ==
  {Fn(fn, <<a, b>>, 0) :
     fn \in {"plus", "minus", "times", "max", "min"}, a \in Pairs, b \in Pairs}
  \cup {Fn(fn, <<a>>, v) :
     fn \in {"scalars", "maxScalar", "minScalar"}, a \in Pairs, v \in {0, 2 * Unit}}
  \cup {Fn("clamp", <<a>>, <<lo, Unit>>) : a \in Pairs, lo \in {0 - Unit, 0}}
  \cup {Fn("abs", <<a>>, 0) : a \in Pairs}

Shapes == {<<2, 3, 1, 1>>, <<1, 2, 3, 1>>, <<2, 1, 2, 2>>, <<3, 2, 2, 1>>}
Axes == {<<>>, <<0>>, <<1>>, <<0, 1>>, <<2, 0>>, <<3, 2, 1, 0>>}

ReductionCalls ==
  {Fn(fn, <<Fill(s, 1)>>, x) : fn \in {"sum", "mean"}, s \in Shapes, x \in Axes}
  \cup {Fn("var", <<Fill(s, 2)>>, <<x, b>>) :
     s \in {<<2, 2, 1, 1>>, <<1, 2, 1, 2>>, <<3, 1, 1, 1>>},
     x \in {<<0>>, <<1>>, <<0, 1>>}, b \in BOOLEAN}
  \cup {Fn("sumAs", <<Fill(s, 1)>>, [i \in 1..4 |-> IF i \in ones THEN 1 ELSE s[i]]) :
     s \in Shapes, ones \in SUBSET (1..4)}
  \cup {Fn("tileAs", <<Fill(s, 1)>>, r) :
     s \in {<<1, 1, 1, 1>>, <<2, 1, 1, 1>>, <<1, 2, 1, 1>>, <<1, 2, 2, 1>>},
     r \in {<<2, 2, 1, 1>>, <<2, 2, 2, 1>>, <<4, 2, 2, 1>>}}
  \cup {Fn("tile", <<Fill(s, 1)>>, r) :
     s \in {<<2, 1, 1, 1>>, <<1, 1, 2, 1>>},
     r \in {<<1, 2, 1, 1>>, <<2, 1, 1, 2>>, <<1, 3, 1, 2>>}}

ShapeCalls ==
  {Fn(fn, <<Fill(s, 1)>>, 0) : fn \in {"transpose", "flat"}, s \in Shapes}
  \cup {Fn("moddims", <<Fill(s, 1)>>, r) :
     s \in Shapes, r \in {<<-1, 1, 1, 1>>, <<0, -1, 1, 1>>, <<2, 3, 1, 1>>,
                          <<1, 0, -1, 1>>, <<-1, -1, 1, 1>>, <<1, 2, 0, -1>>}}
  \cup {Fn("reorder", <<Fill(<<1, 2, 3, 2>>, 1)>>, p) :
     p \in {q \in [1..4 -> 0..3] : {q[i] : i \in 1..4} = 0..3}}
  \cup {Fn("concatenate", [i \in 1..n |-> Fill([<<2, 1, 2, 1>> EXCEPT ![d + 1] = i], i)],
           d) : n \in 1..3, d \in 0..3}
  \cup {Fn("concatenate", <<Fill(<<1, 2, 1, 1>>, 1), Fill(<<2, 1, 1, 1>>, 2)>>, 0)}
  \cup {Fn("split", <<Fill(<<3, 2, 2, 1>>, 1)>>, [sizes |-> z, dim |-> d, part |-> i]) :
     z \in {<<1, 1>>, <<1, 2>>, splitSizesOf(3, 2)}, d \in 0..2, i \in 1..2}
  \cup {Fn("padding", <<Fill(s, 1)>>, p) :
     s \in {<<2, 2, 1, 1>>, <<1, 2, 2, 1>>},
     p \in {<<>>, <<<<1, 0>>>>, <<<<0, 1>>, <<2, 1>>>>, <<<<0, 0>>, <<0, 0>>, <<1, 1>>>>}}
  \cup {Fn("rotate", <<Fill(s, 1)>>, 0) :
     s \in {<<1, 1, 1, 1>>, <<3, 2, 1, 1>>, <<2, 3, 1, 1>>, <<3, 3, 2, 1>>, <<2, 2, 1, 2>>}}

Selections(n) == {afSeq(i, j) : i \in 0..(n - 1), j \in 0..(n - 1)} \ {<<>>}
IndexCalls ==
  LET a == Fill(<<3, 2, 2, 1>>, 1)
      all == Spans(a.dims)
      Index(idx, kind, unique) ==
        Fn("index", <<a>>, [idx |-> idx, unique |-> unique,
                            kinds |-> <<kind, kind, "span", "span">>]) IN
  {Fn("rows", <<a>>, [idx |-> row(a, Min(x), Max(x))]) : x \in SUBSET (0..2) \ {{}}}
  \cup {Fn("cols", <<a>>, [idx |-> col(a, i, 1)]) : i \in 0..1}
  \cup {Fn("slices", <<a>>, [idx |-> slice(a, 0, i)]) : i \in 0..1}
  \cup {Index([all EXCEPT ![1] = x, ![2] = y], "seq", FALSE) :
     x \in Selections(3), y \in Selections(2)}
  \cup {Index([all EXCEPT ![1] = x, ![2] = y], "array", FALSE) :
     x \in [1..2 -> 0..2] \cup {<<2, 0, 1>>}, y \in {<<1>>, <<1, 0>>, <<1, 1>>}}
  \cup {Index([all EXCEPT ![1] = x], "array", TRUE) : x \in {<<2, 0>>, <<1, 2, 0>>}}
  \cup {Fn("embedding", <<Fill(<<2, 3, 1, 1>>, 1)>>,
           [dims |-> s, at |-> [k \in 1..Elements(s) |-> v[k]]]) :
     s \in {<<2, 1, 1, 1>>, <<1, 2, 1, 1>>, <<3, 1, 1, 1>>}, v \in [1..3 -> 0..2]}

ProductCalls ==
  LET Sizes == {[m |-> m, n |-> n, k |-> k, b |-> b] :
                  m \in 1..2, n \in 1..3, k \in 1..2, b \in 1..2} IN
  {Fn("matmul", <<Fill(<<z.m, z.n, z.b, 1>>, 1), Fill(<<z.n, z.k, z.b, 1>>, 2)>>, 0) :
     z \in Sizes}
  \cup {Fn("matmulTN", <<Fill(<<z.n, z.m, z.b, 1>>, 1), Fill(<<z.n, z.k, z.b, 1>>, 2)>>, 0) :
     z \in Sizes}
  \cup {Fn("matmulNT", <<Fill(<<z.m, z.n, z.b, 1>>, 1), Fill(<<z.k, z.n, z.b, 1>>, 2)>>, 0) :
     z \in Sizes}
  \cup {Fn("linear", SubSeq(<<Fill(s, 1), Fill(<<o, 2, 1, 1>>, 2), Fill(<<o, 1, 1, 1>>, 3)>>,
                            1, i), 0) :
     s \in {<<2, 1, 1, 1>>, <<2, 3, 1, 1>>, <<2, 2, 2, 1>>}, o \in 1..3, i \in 2..3}

\* Targets out of range, ignored ones, and ones that are ignored and in range.
CrossEntropyCalls ==
  {Fn("crossEntropy", <<Fill(<<3, x, 2, 1>>, 1)>>,
      [targets |-> [dims |-> <<x, 2, 1, 1>>,
                    at |-> [k \in 1..(2 * x) |-> t[((k - 1) % 3) + 1]]],
       reduction |-> r, ignore |-> g]) :
     x \in {1, 2}, t \in {<<0, 1, 2>>, <<2, 0, 2>>, <<1, -1, 1>>, <<3, 0, 0>>},
     r \in {"NONE", "SUM", "MEAN"}, g \in {-1, 0}}
  \cup {Fn("weightedCrossEntropy", <<Fill(<<3, 2, 1, 1>>, 1)>>,
      [targets |-> [dims |-> <<2, 1, 1, 1>>, at |-> t],
       weight |-> [dims |-> <<3, 1, 1, 1>>, at |-> <<1, 2, 4>>], ignore |-> g]) :
     t \in {<<0, 0>>, <<0, 1>>, <<1, 1>>, <<-1, 1>>, <<2, 2>>, <<1, 3>>}, g \in {-1, 0, 1}}

\* Inputs of two features, in utterances of at most three frames, without a previous
\* state, with one of the same length, or one frame after a longer state.  A previous
\* state comes without padding and is shorter than bptt_.
AttentionCalls ==
  {c \in {[fn |-> "attention", useMask |-> m, nHeads |-> h,
           input |-> Small(<<2, s[2], b, 1>>, 1),
           previous |-> IF s[1] = 0 THEN Failed ELSE Small(<<2, s[1], b, 1>>, 3),
           wq |-> Small(<<2, 2, 1, 1>>, 2), wk |-> Small(<<2, 2, 1, 1>>, 3),
           padMask |-> IF p THEN Array(<<s[2], b, 1, 1>>,
                                       LAMBDA i : IF i[1] + i[2] > 1 THEN NegInfinity ELSE 0)
                       ELSE Failed,
           posEmb |-> IF t = 0 THEN Failed ELSE Small(<<2 * t - 1, 2 \div h, 1, 1>>, 4)] :
            s \in {<<0, 1>>, <<0, 2>>, <<0, 3>>, <<1, 1>>, <<2, 1>>, <<2, 2>>, <<3, 3>>},
            b \in 1..2, p \in BOOLEAN, t \in {0, 1, 2, 4}, m \in BOOLEAN, h \in 1..2} :
     c.previous # Failed =>
       /\ c.padMask = Failed
       /\ c.posEmb # Failed => c.posEmb.dims[1] \div 2 >= c.previous.dims[2]}

FunctionCalls ==
  ElementwiseCalls \cup ReductionCalls \cup ShapeCalls \cup IndexCalls
  \cup ProductCalls \cup CrossEntropyCalls \cup AttentionCalls

\* Letters with a separator after each word, and word pieces with one before it.
Letters == {<<"a">>, <<"b">>, <<"|">>}
Pieces == {<<"a">>, <<"b">>, <<"_">>, <<"_", "a">>, <<"_", "a", "b">>}
LetterSetups ==
  {[criterion |-> k, wordSep |-> <<"|">>, surround |-> s, replabel |-> r,
    usewordpiece |-> FALSE, sample |-> FALSE, tokens |-> Letters,
    lexicon |-> [w \in {<<"a", "b">>} |-> <<<<<<"a">>, <<"b">>, <<"|">>>>>>]] :
     k \in {"ctc", "asg", "s2s"}, s \in {<<>>, <<<<"|">>>>}, r \in 0..2}
PieceSetups ==
  {[criterion |-> k, wordSep |-> <<"_">>, surround |-> s, replabel |-> r,
    usewordpiece |-> TRUE, sample |-> TRUE, tokens |-> Pieces,
    lexicon |-> [w \in {<<"a", "b">>} |-> <<<<<<"_", "a", "b">>>>, <<<<"_", "a">>, <<"b">>>>>>]] :
     k \in {"ctc", "s2s"}, s \in {<<>>, <<<<"_">>>>}, r \in 0..1}

\* Words in the lexicon and not, with repetitions longer than replabels, and one
\* without a known letter.
Vocabulary == {<<"a">>, <<"a", "b">>, <<"b", "a", "a", "a", "a">>, <<"?">>}
Said == UNION {[1..n -> Vocabulary] : n \in 0..2}
Heard == {<<>>, <<<<"a", "b">>>>, <<<<"b", "a", "a">>, <<"a">>>>,
          <<<<"a">>, <<"?">>, <<"a", "b">>, <<"a">>>>}
Sample(w, h, style, pads) ==
  [said |-> w, heard |-> h, style |-> style, padding |-> pads]
Batches ==
  {<<Sample(w, h, p[1], p[2])>> :
     w \in Said, h \in Heard, p \in {<<"short", 1>>, <<"long", 0>>}}
  \cup {<<Sample(w, w, "long", 1), Sample(w, h, "short", 0)>> : w \in Said, h \in Heard}

Evaluations ==
  {[setup |-> c, batch |-> b, done |-> <<>>] :
     c \in LetterSetups \cup PieceSetups, b \in Batches}

\* A beam of two, histories that are cut and batches of one or two states; the second
\* has too little memory for a batch of one.
LmSetups ==
  {[beamSize |-> 2, lmMemory |-> p[1], maxHistory |-> p[2]] :
     p \in {<<2, 2>>, <<2, 3>>, <<6, 3>>}}
NoLm == [beamSize |-> 0, lmMemory |-> 0, maxHistory |-> 0]

\* Two arrays of different sizes.
MCShapes == {<<1, 2>>}

AlgorithmsInit ==
  /\ part \in Parts
  /\ IF part = "hungarian" THEN \E m \in SearchMatrices : hungarian(m) ELSE NoHungarian
  /\ IF part = "alignments" THEN \E c \in ForwardCalls \cup BackwardCalls \cup ViterbiCalls : Calls(c)
     ELSE Calls(NotCalled)
  /\ IF part = "beam" THEN \E j \in Jobs : decodeBegin(j) ELSE NoBeam
  /\ IF part = "datasets" THEN request \in Requests /\ shares = Unshared ELSE NoDataset
  /\ IF part = "functions" THEN \E c \in FunctionCalls : CallsFunction(c)
     ELSE CallsFunction(NoGrads)
  /\ IF part = "transcripts" THEN \E e \in Evaluations : Evaluates(e)
     ELSE Evaluates(<<>>)
  /\ \E c \in IF part = "convlm" THEN LmSetups ELSE {NoLm} : DecodesWith(c)
  /\ IF part = "blob" THEN BlobInit ELSE BlobInit /\ ~onDisk

AlgorithmsNext ==
  \/ /\ part = "hungarian" /\ HungarianStep
     /\ UNCHANGED <<part, alignmentVars, beamVars, datasetVars, functionVars,
                   transcriptVars, convLmVars, blobVars>>
  \/ /\ part = "alignments" /\ AlignmentStep
     /\ UNCHANGED <<part, hungarianVars, beamVars, datasetVars, functionVars,
                   transcriptVars, convLmVars, blobVars>>
  \/ /\ part = "beam" /\ BeamStep
     /\ UNCHANGED <<part, hungarianVars, alignmentVars, datasetVars, functionVars,
                   transcriptVars, convLmVars, blobVars>>
  \/ /\ part = "datasets" /\ MakeDataset
     /\ UNCHANGED <<part, hungarianVars, alignmentVars, beamVars, functionVars,
                   transcriptVars, convLmVars, blobVars>>
  \/ /\ part = "functions" /\ FunctionStep
     /\ UNCHANGED <<part, hungarianVars, alignmentVars, beamVars, datasetVars,
                   transcriptVars, convLmVars, blobVars>>
  \/ /\ part = "transcripts" /\ evalOutput
     /\ UNCHANGED <<part, hungarianVars, alignmentVars, beamVars, datasetVars,
                   functionVars, convLmVars, blobVars>>
  \/ /\ part = "convlm" /\ ConvLmStep
     /\ UNCHANGED <<part, hungarianVars, alignmentVars, beamVars, datasetVars,
                   functionVars, transcriptVars, blobVars>>
  \/ /\ part = "blob" /\ BlobStep
     /\ UNCHANGED <<part, hungarianVars, alignmentVars, beamVars, datasetVars,
                   functionVars, transcriptVars, convLmVars>>

\* The loop of hungarian runs on.
AlgorithmsSpec ==
  AlgorithmsInit /\ [][AlgorithmsNext]_allVars /\ WF_hungarianVars(HungarianStep)

------------------------------------------------------------------------------
(* Decoders *)

\* A bigram model that dislikes repetitions.
MCBigram(before, label) ==
  LET cost == [A |-> 2, AA |-> 1, AB |-> 1, BA |-> 3, a |-> 1, b |-> 2,
               sil |-> 1, eos |-> 1, unk |-> 4] IN
  - cost[label] - (IF before = label THEN 2 ELSE IF before = "start" THEN 0 ELSE 1)

MCTransition(n, m) == IF n = m THEN 0 ELSE IF n = "a" THEN -2 ELSE -1

\* One token of every frame is likely, the others are not.
EmissionsOf(likely, tokens) ==
  LET cost == [a |-> 3, b |-> 4, sil |-> 2, blank |-> 2, eos |-> 3] IN
  [t \in DOMAIN likely |->
     [n \in tokens |-> IF n = likely[t] THEN 0 ELSE - cost[n] - (t % 2)]]

CtcTokens == {"a", "b", "sil", "blank"}
AsgTokens == {"a", "b", "sil"}
S2sTokens == {"a", "b", "eos"}

CtcLexicon == {<<"A", <<"a", "sil">>>>, <<"AA", <<"a", "a", "sil">>>>,
               <<"BA", <<"b", "a", "sil">>>>}
AsgLexicon == {<<"A", <<"a", "sil">>>>, <<"AB", <<"a", "b", "sil">>>>,
               <<"BA", <<"b", "a", "sil">>>>}
S2sLexicon == {<<"A", <<"a">>>>, <<"AB", <<"a", "b">>>>, <<"BA", <<"b", "b">>>>}

\* Decoders with a beam for all hypotheses, for T frames of all likely tokens.
Wide(criterion, tokens, lexicon, lmToken, T) ==
  {[criterion |-> criterion, tokens |-> tokens, lexicon |-> lexicon,
    lmToken |-> lmToken, smearing |-> IF lmToken THEN "none" ELSE "max",
    beamSize |-> 1000, beamThreshold |-> 1000, beamSizeToken |-> 9, exhaustive |-> TRUE,
    silScore |-> -1, wordScore |-> 1, eosScore |-> 1, unkScore |-> kNegativeInfinity,
    lmWeight |-> 2, emissions |-> EmissionsOf(f, tokens)] : f \in [1..T -> tokens]}

\* The same with a beam that forgets, and with unknown words.
Narrow(jobs, unkScore) ==
  {[j EXCEPT !.beamSize = 3, !.beamThreshold = 9, !.beamSizeToken = 2,
             !.exhaustive = FALSE, !.unkScore = unkScore] : j \in jobs}

SearchJobs ==
  LET ctc == Wide("ctc", CtcTokens, CtcLexicon, FALSE, 4)
      s2s == Wide("s2s", S2sTokens, S2sLexicon, FALSE, 4)
      WordLike(j) == /\ \E n \in {"a", "b"} : j.emissions[1][n] = 0
                     /\ \E n \in {"a", "sil"} : j.emissions[4][n] = 0 IN
  {j \in ctc : WordLike(j)} \cup s2s
  \cup Wide("asg", AsgTokens, AsgLexicon, FALSE, 4)
  \cup Wide("ctc", CtcTokens, CtcLexicon, TRUE, 3)
  \cup Wide("ctc", CtcTokens, {}, TRUE, 3)
  \cup Wide("asg", AsgTokens, {}, TRUE, 3)
  \cup Wide("s2s", S2sTokens, S2sLexicon, TRUE, 3)
  \cup Wide("s2s", S2sTokens, {}, TRUE, 3)
  \cup Narrow(ctc, -2) \cup Narrow(s2s, kNegativeInfinity)

\* A word whose last two tokens are the same, as a lexicon of word pieces has.
RepeatJobs ==
  Wide("ctc", CtcTokens, {<<"A", <<"a">>>>, <<"AA", <<"a", "a">>>>}, FALSE, 3)

==============================================================================
