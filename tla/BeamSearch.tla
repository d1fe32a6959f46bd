----------------------------- MODULE BeamSearch -----------------------------
(***************************************************************************)
(* The beam-search decoders of lib/text/decoder: LexiconDecoder,           *)
(* LexiconFreeDecoder and their Seq2Seq variants, used as Decoder.h says:  *)
(* decodeStep any number of times, prune in between, then decodeEnd.       *)
(*                                                                         *)
(* hyp_ is modelled by its last frame: an earlier frame is only reached    *)
(* through parent, so a hypothesis carries the nodes it descends from in   *)
(* path.  prune cuts parent, which is not path but the number of frames    *)
(* that nPrunedFrames_ leaves of it.  A trie node is the sequence of       *)
(* tokens that leads to it, and an LM state the sequence of labels that    *)
(* LMState::child was called with.  Scores are integers, logAdd is off.    *)
(***************************************************************************)
EXTENDS Integers, Sequences, FiniteSets, FiniteSetsExt, SequencesExt

CONSTANTS
  Jobs,               \* decoders with their options, lexicon and emissions
  LookBacks,          \* the arguments of prune
  LookBackLimit,      \* kLookBackLimit
  Bigram(_, _),       \* the language model: the score of a label after another
  Transition(_, _)    \* transitions_, and the state of a Seq2Seq model

VARIABLES
  job,        \* the record of Jobs that is decoded
  hyp,        \* the hypotheses of the last frame
  nDecoded,   \* nDecodedFrames_; for Seq2Seq t
  nPruned,    \* nPrunedFrames_
  ended,      \* decodeEnd has returned
  offset      \* what prune has subtracted from the scores so far

beamVars == <<job, hyp, nDecoded, nPruned, ended, offset>>

Sil == "sil"
Blank == "blank"
Eos == "eos"
Unk == "unk"
None == "none"
kNegativeInfinity == -1000

Ctc == job.criterion = "ctc"
Asg == job.criterion = "asg"
Seq2Seq == job.criterion = "s2s"
Root == <<>>

------------------------------------------------------------------------------
(* Trie and language model *)

Spellings == {e[2] : e \in job.lexicon}

\* The nodes that Trie::insert makes.
TrieNode(node) == \E s \in Spellings : IsPrefix(node, s)
HasChildren(node) == \E s \in Spellings : IsStrictPrefix(node, s)
Labels(node) == {e[1] : e \in {x \in job.lexicon : x[2] = node}}

LastLabel(lmState) == IF lmState = <<>> THEN "start" ELSE lmState[Len(lmState)]
Score(lmState, label) == Bigram(LastLabel(lmState), label)

\* buildTrie inserts every word with the score it has at the start of a sentence.
smear(node) ==
  IF job.smearing = "none" THEN 0
  ELSE Max({Bigram("start", e[1]) : e \in {x \in job.lexicon : IsPrefix(node, x[2])}})

\* Mutant: what was anticipated in a word is not taken back.
LexMaxScoreZero(node) == 0

lexMaxScore(node) == IF node = Root THEN 0 ELSE smear(node)

------------------------------------------------------------------------------
(* Candidates *)

\* The hypothesis that h becomes with token n: its score grows by score, and
\* word, blank, lmState and lex are those of the new node.
Child(h, n, score, am, lm, lmState, lex, word) ==
  [score |-> h.score + score, amScore |-> h.amScore + am, lmScore |-> h.lmScore + lm,
   lmState |-> lmState, lex |-> lex, token |-> n, prevBlank |-> n = Blank /\ Ctc,
   path |-> Append(h.path, [token |-> n, word |-> word])]

Emission(n) == job.emissions[nDecoded + 1][n]
AmScore(h, n) ==
  Emission(n) + IF Asg /\ nDecoded > 0 THEN Transition(n, h.token) ELSE 0
SilScore(n) == IF n = Sil THEN job.silScore ELSE 0

\* The beamSizeToken best tokens by score, in one of the orders of partial_sort.
TokenBeams(score) ==
  LET N == job.tokens IN
  IF Cardinality(N) <= job.beamSizeToken THEN {N}
  ELSE {S \in SUBSET N :
          /\ Cardinality(S) = job.beamSizeToken
          /\ \A n \in S, m \in N \ S : score[n] >= score[m]}

\* A candidate for label, which is a token for a token LM and a word for another.
Advance(h, n, more, lex, label, word) ==
  LET lm == Score(h.lmState, label) - IF job.lmToken THEN 0 ELSE lexMaxScore(h.lex) IN
  Child(h, n, AmScore(h, n) + SilScore(n) + job.lmWeight * lm + more, AmScore(h, n), lm,
        Append(h.lmState, label), lex, word)

\* (1) the token n leads to lex: stay inside of a word, complete one, or give up
\* on it as an unknown one.
EatToken(h, n, lex) ==
  IF ~(~Ctc \/ h.prevBlank \/ n # h.token) \/ ~HasChildren(lex) THEN {}
  ELSE IF job.lmToken THEN {Advance(h, n, 0, lex, n, None)}
  ELSE LET lm == smear(lex) - lexMaxScore(h.lex) IN
       {Child(h, n, AmScore(h, n) + SilScore(n) + job.lmWeight * lm, AmScore(h, n), lm,
              h.lmState, lex, None)}

EmitWords(h, n, lex) ==
  IF h.lex = Root /\ h.token = n THEN {}
  ELSE {Advance(h, n, job.wordScore, Root, IF job.lmToken THEN n ELSE word, word) :
          word \in Labels(lex)}

EmitUnknown(h, n, lex) ==
  IF Labels(lex) # {} \/ job.unkScore = kNegativeInfinity THEN {}
  ELSE {Advance(h, n, job.unkScore, Root, IF job.lmToken THEN n ELSE Unk, Unk)}

\* (2) the same lexicon node again.
SameNode(h) ==
  LET n == IF h.lex = Root THEN Sil ELSE h.token IN
  IF Ctc /\ h.prevBlank /\ h.lex # Root THEN {}
  ELSE {Child(h, n, AmScore(h, n) + SilScore(n), AmScore(h, n), 0, h.lmState, h.lex, None)}

\* (3) a blank.
TryBlank(h) ==
  IF ~Ctc THEN {}
  ELSE {Child(h, Blank, Emission(Blank), Emission(Blank), 0, h.lmState, h.lex, None)}

LexiconCandidates(h, tokens) ==
  UNION {LET lex == Append(h.lex, n) IN
         EatToken(h, n, lex) \cup EmitWords(h, n, lex) \cup EmitUnknown(h, n, lex) :
           n \in {m \in tokens : TrieNode(Append(h.lex, m))}}
  \cup SameNode(h) \cup TryBlank(h)

\* The score leaves the transitions out that amScore has.
FreeCandidates(h, tokens) ==
  {LET new == \/ Asg /\ n # h.token
              \/ Ctc /\ n # Blank /\ (n # h.token \/ h.prevBlank)
       lm == IF new THEN Score(h.lmState, n) ELSE 0 IN
   Child(h, n, Emission(n) + SilScore(n) + job.lmWeight * lm, AmScore(h, n), lm,
         IF new THEN Append(h.lmState, n) ELSE h.lmState, Root, None) : n \in tokens}

------------------------------------------------------------------------------
(* Seq2Seq: a frame is one more token *)

\* amUpdateFunc_: what the acoustic model says of the next token.
AmUpdate(h, n) ==
  Emission(n) + IF h.token = None THEN 0 ELSE Transition(n, h.token)

Finish(h) ==
  LET lm == Score(h.lmState, Eos) IN
  Child(h, Eos, AmUpdate(h, Eos) + job.eosScore + job.lmWeight * lm, AmUpdate(h, Eos), lm,
        Append(h.lmState, Eos), Root, None)

NextToken(h, n, more, lm, lmState, lex, word) ==
  Child(h, n, AmUpdate(h, n) + more + job.lmWeight * lm, AmUpdate(h, n), lm,
        lmState, lex, word)

FreeSeq2SeqCandidates(h, tokens) ==
  {IF n = Eos THEN Finish(h)
   ELSE NextToken(h, n, 0, Score(h.lmState, n), Append(h.lmState, n), Root, None) :
     n \in tokens}

\* With a token LM all words of a node would be the same candidate: only the first
\* is made.
Seq2SeqWords(h, n, lex) ==
  IF job.lmToken
  THEN {NextToken(h, n, job.wordScore, Score(h.lmState, n), Append(h.lmState, n), Root,
                  CHOOSE word \in Labels(lex) : TRUE) : x \in Labels(lex)}
  ELSE {NextToken(h, n, job.wordScore, Score(h.lmState, word) - lexMaxScore(h.lex),
                  Append(h.lmState, word), Root, word) : word \in Labels(lex)}

LexiconSeq2SeqCandidates(h, tokens) ==
  UNION {LET lex == Append(h.lex, n) IN
         (IF job.lmToken
          THEN {NextToken(h, n, 0, Score(h.lmState, n), Append(h.lmState, n), lex, None)}
          ELSE {NextToken(h, n, 0, smear(lex) - lexMaxScore(h.lex), h.lmState, lex, None)})
         \cup Seq2SeqWords(h, n, lex) :
           n \in {m \in tokens \ {Eos} : TrieNode(Append(h.lex, m))}}
  \cup {Finish(h) : x \in {m \in tokens : m = Eos /\ h.lex = Root}}

\* A completed hypothesis is kept as it is.
Completed(h) == [h EXCEPT !.path = Append(@, [token |-> Eos, word |-> None])]

Seq2SeqCandidates(h, tokens) ==
  IF h.token = Eos THEN {Completed(h)}
  ELSE IF job.lexicon = {} THEN FreeSeq2SeqCandidates(h, tokens)
  ELSE LexiconSeq2SeqCandidates(h, tokens)

\* The candidates of all hypotheses: partial_sort orders the tokens for each of them.
AllSeq2SeqCandidates ==
  FoldSet(LAMBDA h, acc :
            {C \cup Seq2SeqCandidates(h, tokens) :
               C \in acc, tokens \in TokenBeams([n \in job.tokens |-> AmUpdate(h, n)])},
          {{}}, hyp)

------------------------------------------------------------------------------
(* The beam *)

\* Whether two candidates are for the same state, whatever their scores.
compareNoScoreStates(c, d) ==
  /\ c.lmState = d.lmState
  /\ \/ Seq2Seq /\ job.lexicon = {}
     \/ c.lex = d.lex /\ c.token = d.token
  /\ Seq2Seq \/ c.prevBlank = d.prevBlank

\* candidatesAdd and the first part of candidatesStore.
AboveThreshold(C) ==
  LET best == Max({c.score : c \in C}) IN
  {c \in C : c.score >= best - job.beamThreshold}

\* Of candidates for the same state a best one is left.
Merged(C) ==
  LET bests == {c \in C : \A d \in C : compareNoScoreStates(c, d) => d.score <= c.score} IN
  FoldSet(LAMBDA S, acc : {A \cup {c} : A \in acc, c \in S}, {{}},
          {{d \in bests : compareNoScoreStates(c, d)} : c \in bests})

\* The beamSize best of M: nth_element chooses between equal scores.
Beams(M) ==
  IF Cardinality(M) <= job.beamSize THEN {M}
  ELSE LET worst == Max({x \in {c.score : c \in M} :
                           Cardinality({c \in M : c.score >= x}) >= job.beamSize})
           sure == {c \in M : c.score > worst} IN
       {sure \cup S : S \in kSubset(job.beamSize - Cardinality(sure),
                                    {c \in M : c.score = worst})}

candidatesStore(C) == UNION {Beams(M) : M \in Merged(AboveThreshold(C))}

------------------------------------------------------------------------------
(* The decoder *)

decodeBegin(j) ==
  /\ job = j
  /\ hyp = {[score |-> 0, amScore |-> 0, lmScore |-> 0, lmState |-> <<>>, lex |-> Root,
             token |-> IF j.criterion = "s2s" THEN None ELSE Sil, prevBlank |-> FALSE,
             path |-> <<[token |-> IF j.criterion = "s2s" THEN None ELSE Sil,
                         word |-> None]>>]}
  /\ nDecoded = 0 /\ nPruned = 0 /\ ended = FALSE /\ offset = 0

\* One frame of decodeStep; a chunk of T frames is T of them.
decodeStep ==
  /\ ~Seq2Seq /\ ~ended /\ nDecoded < Len(job.emissions)
  /\ \E tokens \in TokenBeams(job.emissions[nDecoded + 1]) :
       \E C \in {UNION {IF job.lexicon = {} THEN FreeCandidates(h, tokens)
                        ELSE LexiconCandidates(h, tokens) : h \in hyp}} :
         hyp' \in IF C = {} THEN {{}} ELSE candidatesStore(C)
  /\ nDecoded' = nDecoded + 1
  /\ UNCHANGED <<job, nPruned, ended, offset>>

\* One round of the loop of decodeStep of the Seq2Seq decoders, which ends when no
\* hypothesis is open; without a candidate the last frame that had one is the result.
decodeToken ==
  /\ Seq2Seq /\ ~ended
  /\ IF nDecoded < Len(job.emissions) /\ \E h \in hyp : h.token # Eos
     THEN \E C \in AllSeq2SeqCandidates :
            /\ hyp' \in IF C = {} THEN {hyp} ELSE candidatesStore(C)
            /\ nDecoded' = nDecoded + 1
            /\ ended' = (C = {})
     ELSE ended' = TRUE /\ UNCHANGED <<hyp, nDecoded>>
  /\ UNCHANGED <<job, nPruned, offset>>

Ended(h) ==
  LET lm == Score(h.lmState, Eos) IN
  [Child(h, Sil, job.lmWeight * lm, 0, lm, Append(h.lmState, Eos), h.lex, None)
     EXCEPT !.prevBlank = FALSE]

decodeEnd ==
  /\ ~Seq2Seq /\ ~ended /\ nDecoded = Len(job.emissions)
  /\ LET nice == {h \in hyp : h.lex = Root} IN
     \E C \in {{Ended(h) : h \in IF nice # {} THEN nice ELSE hyp}} :
       hyp' \in IF C = {} THEN {{}} ELSE candidatesStore(C)
  /\ nDecoded' = nDecoded + 1 /\ ended' = TRUE
  /\ UNCHANGED <<job, nPruned, offset>>

------------------------------------------------------------------------------
(* prune *)

InBuffer == nDecoded - nPruned

\* isComplete of the node n frames before the last one of h.
isComplete(h, n) ==
  job.lexicon = {} \/ n = InBuffer \/ h.path[Len(h.path) - n - 1].word # None

\* How far back findBestAncestor ends from h.
findBestAncestor(h, lookBack) ==
  Min({n \in lookBack..InBuffer : isComplete(h, n) \/ n = lookBack + LookBackLimit})

\* Subtracts the largest score of the last frame.
\* Mutant: and keeps the best hypotheses only.
NormalizeBest(hyps, largest) ==
  {[h EXCEPT !.score = @ - largest] : h \in {g \in hyps : g.score = largest}}

pruneAndNormalize(hyps, largest) == {[h EXCEPT !.score = @ - largest] : h \in hyps}

Best == {h \in hyp : \A g \in hyp : g.score <= h.score}

prune(lookBack) ==
  /\ ~Seq2Seq /\ ~ended /\ InBuffer - lookBack >= 1
  /\ \E h \in Best :
       LET n == findBestAncestor(h, lookBack) IN
       /\ InBuffer - n >= 1
       /\ hyp' = pruneAndNormalize(hyp, h.score)
       /\ offset' = offset + h.score
       /\ nPruned' = nDecoded - n
  /\ UNCHANGED <<job, nDecoded, ended>>

BeamStep ==
  decodeStep \/ decodeToken \/ decodeEnd \/ \E n \in LookBacks : prune(n)

------------------------------------------------------------------------------
(* Properties *)

\* The tokens that a CTC or ASG alignment stands for.
Collapse(tokens) ==
  LET pairs == [i \in DOMAIN tokens |-> <<tokens[i], IF i = 1 THEN None ELSE tokens[i - 1]>>]
      new == SelectSeq(pairs, LAMBDA p : p[1] # p[2] /\ p[1] # Blank)
  IN [i \in DOMAIN new |-> new[i][1]]

Without(token, s) == SelectSeq(s, LAMBDA x : x # token)
Spelling(word) == (CHOOSE e \in job.lexicon : e[1] = word)[2]
Spelled(words) == FlattenSeq([i \in DOMAIN words |-> Spelling(words[i])])

\* The tokens of the frames of h, without the nodes of decodeBegin and decodeEnd and
\* the end markers after the first.
TokensOf(h) ==
  LET tokens == [i \in 1..(Len(h.path) - 1) |-> h.path[i + 1].token]
      eos == {i \in DOMAIN tokens : tokens[i] = Eos} IN
  IF ~Seq2Seq THEN IF ended THEN Front(tokens) ELSE tokens
  ELSE IF eos = {} THEN tokens ELSE SubSeq(tokens, 1, Min(eos))

Words(h) == Without(None, [i \in DOMAIN h.path |-> h.path[i].word])

\* AM(W) of an alignment, with or without the transitions.
Am(tokens, transitions) ==
  MapThenSumSet(LAMBDA t : job.emissions[t][tokens[t]]
                  + IF transitions /\ t > 1 THEN Transition(tokens[t], tokens[t - 1]) ELSE 0,
                DOMAIN tokens)

Lm(labels) ==
  MapThenSumSet(LAMBDA i : Bigram(IF i = 1 THEN "start" ELSE labels[i - 1], labels[i]),
                DOMAIN labels)

Count(x, s) == Cardinality({i \in DOMAIN s : s[i] = x})

\* What the comments on the four decoders say that they maximize.
Objective(tokens, words, labels) ==
  Am(tokens, (Asg /\ job.lexicon # {}) \/ Seq2Seq)
  + job.lmWeight * Lm(labels)
  + (IF job.lexicon = {} THEN 0
     ELSE job.wordScore * Len(Without(Unk, words)) + job.unkScore * Count(Unk, words))
  + (IF Seq2Seq THEN job.eosScore * Count(Eos, tokens) ELSE job.silScore * Count(Sil, tokens))

\* The labels that the language model should have seen for h.
LabelsOf(h) ==
  (IF job.lexicon = {}
   THEN IF Seq2Seq THEN Without(Eos, TokensOf(h)) ELSE Tail(Collapse(<<Sil>> \o TokensOf(h)))
   ELSE IF job.lmToken THEN Spelled(Words(h)) \o h.lex
   ELSE Words(h))
  \o (IF (IF Seq2Seq THEN h.token = Eos ELSE ended) THEN <<Eos>> ELSE <<>>)

\* However frames are split into chunks, and wherever prune is called in between, the
\* score of every hypothesis in the beam is, up to what prune subtracted, the objective
\* of its own path, plus what the trie anticipates of its last word: what decodeStep
\* adds at the nodes of a word and takes back at its end cancels out.  The acoustic and
\* the language model score of a DecodeResult are those of the path.
ScoresAddUp ==
  \A h \in hyp :
    LET anticipated == IF job.lmToken THEN 0 ELSE lexMaxScore(h.lex) IN
    /\ (job.lmToken /\ Unk \in ToSet(Words(h))) \/ h.lmState = LabelsOf(h)
    /\ h.lmScore = Lm(h.lmState) + anticipated
    /\ h.amScore = Am(TokensOf(h), Asg \/ Seq2Seq)
    /\ h.score + offset
         = Objective(TokensOf(h), Words(h), h.lmState) + job.lmWeight * anticipated

\* All transcriptions of at most n words.
Transcripts(n) == UNION {[1..k -> {e[1] : e \in job.lexicon}] : k \in 0..n}

\* Whether an alignment reads words, each of which ends in silence, with further
\* silence between them.
Reads(tokens, words) ==
  LET c == Collapse(<<Sil>> \o tokens)
      once == SelectSeq([i \in 1..(Len(c) - 1) |-> <<c[i], c[i + 1]>>],
                        LAMBDA p : p # <<Sil, Sil>>)
  IN [i \in DOMAIN once |-> once[i][2]] = Spelled(words)

\* The values of the objective over all alignments and what they read.
Objectives ==
  LET T == Len(job.emissions)
      letters == job.tokens \ {Eos} IN
  IF Seq2Seq
  THEN LET texts == IF job.lexicon = {} THEN UNION {[1..k -> letters] : k \in 0..(T - 1)}
                    ELSE {w \in Transcripts(T - 1) : Len(Spelled(w)) < T} IN
       {LET s == IF job.lexicon = {} THEN w ELSE Spelled(w) IN
        Objective(Append(s, Eos), w, Append(IF job.lmToken THEN s ELSE w, Eos)) : w \in texts}
  ELSE IF job.lexicon = {}
  THEN {Objective(a, <<>>, Append(Tail(Collapse(<<Sil>> \o a)), Eos)) : a \in [1..T -> letters]}
  ELSE {Objective(p[1], p[2], Append(IF job.lmToken THEN Spelled(p[2]) ELSE p[2], Eos)) :
          p \in {q \in [1..T -> letters] \X Transcripts(T \div 2) : Reads(q[1], q[2])}}

\* With a beam wide enough for all, the decoders return a best transcription: merging
\* the hypotheses of a state, and pruning the history in a streaming decode, lose none.
BestPathFound ==
  ended /\ job.exhaustive =>
    LET complete == {h \in hyp : Seq2Seq => h.token = Eos} IN
    Max({h.score : h \in complete}) + offset = Max(Objectives)

\* The comment in LexiconDecoder::decodeStep on CTC, "where there must be an blank token
\* in between to predict 2 identical tokens consecutively": the words of a hypothesis
\* have no more tokens than its alignment.
BlankBetweenRepeats ==
  \A h \in hyp :
    Ctc /\ job.lexicon # {} =>
      Without(Sil, Spelled(Words(h)) \o h.lex) = Without(Sil, Collapse(TokensOf(h)))

==============================================================================
