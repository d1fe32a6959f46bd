---------------------------- MODULE Transcripts ----------------------------
(***************************************************************************)
(* From a transcript to the target of a criterion, and from a target and   *)
(* the best path of a model back to words and the errors between them:     *)
(* app/asr/data/Utils.cpp and FeatureTransforms.cpp, app/asr/decoder/      *)
(* TranscriptionUtils, lib/text/dictionary/Utils.cpp, evalOutput of        *)
(* app/asr/Train.cpp and fl/meter/EditDistanceMeter.                       *)
(*                                                                         *)
(* A word and a token are sequences of characters.  A token stands for its *)
(* index in the dictionary too, in which every line has one token.         *)
(*                                                                         *)
(* A setup has the flags criterion ("ctc", "asg" or "s2s"), wordSep, a     *)
(* token, surround, a sequence of at most one token, replabel,             *)
(* usewordpiece and sample, the tokens of the dictionary and the lexicon,  *)
(* a function from words to their spellings.                               *)
(***************************************************************************)
EXTENDS Integers, Sequences, FiniteSets, FiniteSetsExt, SequencesExt

kBlankToken == <<"#">>
kEosToken == <<"$">>
kPadToken == <<"<pad>">>
kSilToken == <<"|">>
kTargetPadValue == <<"-1">>
NoToken == <<"none">>
RepLabels == <<<<"<1>">>, <<"<2>">>>>

\* A left fold that evaluates what it has accumulated once for every element.
Fold(op(_, _), base, seq) ==
  LET upTo[n \in 0..Len(seq)] ==
        IF n = 0 THEN base ELSE CHOOSE r \in {op(s, seq[n]) : s \in {upTo[n - 1]}} : TRUE IN
  upTo[Len(seq)]

dedup(in) ==
  Fold(LAMBDA out, x : IF out # <<>> /\ Last(out) = x THEN out ELSE Append(out, x),
           <<>>, in)

splitWrd(word) == [i \in DOMAIN word |-> <<word[i]>>]

------------------------------------------------------------------------------
(* Targets *)

\* A word that the lexicon lacks is spelled with the letters that are tokens; word
\* pieces have the separator before a word, letters after it.
Fallback(word, c) ==
  (IF c.usewordpiece THEN <<c.wordSep>> ELSE <<>>)
  \o SelectSeq(splitWrd(word), LAMBDA t : t \in c.tokens)
  \o (IF c.usewordpiece THEN <<>> ELSE <<c.wordSep>>)

\* The spellings that a word may get: any one, when they are sampled.
SpellingsOf(word, c) ==
  IF word \notin DOMAIN c.lexicon THEN {Fallback(word, c)}
  ELSE IF c.sample THEN {c.lexicon[word][i] : i \in DOMAIN c.lexicon[word]}
  ELSE {c.lexicon[word][1]}

wrd2Target(words, c) ==
  LET upTo[n \in 0..Len(words)] ==
        IF n = 0 THEN {<<>>}
        ELSE {t \o s : t \in upTo[n - 1], s \in SpellingsOf(words[n], c)} IN
  upTo[Len(words)]

\* Mutant: a replabel is written for the last run only.
PackReplabelsEnd(tokens, maxReps) ==
  IF maxReps <= 0 THEN tokens
  ELSE LET Next1(s, token) ==
             IF token = s.prev /\ s.reps < maxReps THEN [s EXCEPT !.reps = s.reps + 1]
             ELSE [out |-> Append(s.out, token), prev |-> token, reps |-> 0]
           end == Fold(Next1, [out |-> <<>>, prev |-> NoToken, reps |-> 0], tokens) IN
       end.out \o IF end.reps > 0 THEN <<RepLabels[end.reps]>> ELSE <<>>

packReplabels(tokens, maxReps) ==
  IF maxReps <= 0 THEN tokens
  ELSE LET Flush(s) == s.out \o IF s.reps > 0 THEN <<RepLabels[s.reps]>> ELSE <<>>
           Step(s, token) ==
             IF token = s.prev /\ s.reps < maxReps THEN [s EXCEPT !.reps = s.reps + 1]
             ELSE [out |-> Append(Flush(s), token), prev |-> token, reps |-> 0] IN
       Flush(Fold(Step, [out |-> <<>>, prev |-> NoToken, reps |-> 0], tokens))

\* A replabel without a token before it, or after another replabel, is dropped.
unpackReplabels(tokens, maxReps) ==
  LET value == [t \in {RepLabels[i] : i \in 1..maxReps} |->
                  CHOOSE i \in 1..maxReps : RepLabels[i] = t]
      Step(s, token) ==
        IF token \notin DOMAIN value THEN [out |-> Append(s.out, token), prev |-> token]
        ELSE IF s.prev = NoToken THEN s
        ELSE [out |-> s.out \o [i \in 1..value[token] |-> s.prev], prev |-> NoToken] IN
  Fold(Step, [out |-> <<>>, prev |-> NoToken], tokens).out

Surround(t, s) ==
  LET back == IF t = <<>> \/ Last(t) # s THEN Append(t, s) ELSE t IN
  IF Len(back) > 1 /\ Head(back) # s THEN <<s>> \o back ELSE back

\* What is done to the tokens of a transcript.
Features(t, c) ==
  LET surrounded == IF c.surround = <<>> THEN t ELSE Surround(t, c.surround[1])
      packed == packReplabels(surrounded, c.replabel)
      single == IF c.criterion = "asg" THEN dedup(packed) ELSE packed IN
  IF c.criterion = "s2s" THEN Append(single, kEosToken) ELSE single

targetFeatures(words, c) == {Features(t, c) : t \in wrd2Target(words, c)}

\* A batch pads its shorter targets.
Padded(target, n, c) ==
  target \o [i \in 1..n |-> IF c.criterion = "s2s" THEN kPadToken ELSE kTargetPadValue]

------------------------------------------------------------------------------
(* Back to letters and words *)

DropLast(t, S) ==
  LET keep == {i \in DOMAIN t : t[i] \notin S} IN
  SubSeq(t, 1, IF keep = {} THEN 0 ELSE Max(keep))

getTargetSize(t) == Len(DropLast(t, {kTargetPadValue}))

\* trimLabels, at most one at each end; tknIdx2Ltr starts at the other end.
Trim(t, x) ==
  LET front == IF t # <<>> /\ Last(t) = x THEN Front(t) ELSE t IN
  IF front # <<>> /\ Head(front) = x THEN Tail(front) ELSE front
TrimFrontFirst(t, x) ==
  LET tail == IF t # <<>> /\ Head(t) = x THEN Tail(t) ELSE t IN
  IF tail # <<>> /\ Last(tail) = x THEN Front(tail) ELSE tail

remapLabels(t, c) ==
  LET bare == DropLast(t, IF c.criterion = "s2s" THEN {kEosToken, kPadToken}
                          ELSE {kTargetPadValue})
      unpacked == IF c.replabel > 0 THEN unpackReplabels(bare, c.replabel) ELSE bare
      silent == IF kSilToken \in c.tokens THEN Trim(unpacked, kSilToken) ELSE unpacked IN
  IF c.surround = <<>> THEN silent ELSE Trim(silent, c.surround[1])

tknIdx2Ltr(t, c) ==
  TrimFrontFirst(IF c.usewordpiece
                 THEN FlattenSeq([i \in DOMAIN t |-> splitWrd(t[i])]) ELSE t, c.wordSep)

tkn2Wrd(letters, wordSep) ==
  LET Step(s, t) ==
        IF t # wordSep THEN [s EXCEPT !.word = s.word \o t]
        ELSE [words |-> IF s.word = <<>> THEN s.words ELSE Append(s.words, s.word),
              word |-> <<>>] IN
  Step(Fold(Step, [words |-> <<>>, word |-> <<>>], letters), wordSep).words

\* The end of sequence at the end is popped before remapLabels pops the others.
tknTarget2Ltr(t, c) ==
  LET bare == IF t # <<>> /\ c.criterion = "s2s" /\ Last(t) = kEosToken
              THEN Front(t) ELSE t IN
  tknIdx2Ltr(remapLabels(bare, c), c)

validateIdx(t) == SelectSeq(t, LAMBDA x : x # kTargetPadValue)

tknPrediction2Ltr(t, c) ==
  LET single == IF c.criterion = "s2s" THEN t ELSE dedup(t)
      spoken == IF c.criterion = "ctc" THEN SelectSeq(single, LAMBDA x : x # kBlankToken)
                ELSE single IN
  tknIdx2Ltr(remapLabels(validateIdx(spoken), c), c)

------------------------------------------------------------------------------
(* EditDistanceMeter *)

ErrSum(e) == e.ndel + e.nins + e.nsub

\* One column for the prefixes of in1, column[y + 1] for the code's column[y].  The
\* lastdiagonal is the old column's element before.
levensteinDistance(in1, in2) ==
  LET Indices(n) == [i \in 1..n |-> i]
      Cell(old, new, y, x) ==
        LET differ == IF in1[y] = in2[x] THEN 0 ELSE 1
            del == ErrSum(old[y + 1]) + 1
            ins == ErrSum(new[y]) + 1
            sub == ErrSum(old[y]) + differ IN
        IF del <= ins /\ del <= sub THEN [old[y + 1] EXCEPT !.ndel = @ + 1]
        ELSE IF ins <= sub THEN [new[y] EXCEPT !.nins = @ + 1]
        ELSE [old[y] EXCEPT !.nsub = @ + differ]
      NextColumn(old, x) ==
        Fold(LAMBDA new, y : Append(new, Cell(old, new, y, x)),
             <<[old[1] EXCEPT !.ndel = x]>>, Indices(Len(in1)))
      first == [i \in 1..(Len(in1) + 1) |-> [ndel |-> 0, nins |-> i - 1, nsub |-> 0]] IN
  Last(Fold(NextColumn, first, Indices(Len(in2))))

addDistance(meter, output, target) ==
  LET e == levensteinDistance(output, target) IN
  [n |-> meter.n + Len(target), ndel |-> meter.ndel + e.ndel,
   nins |-> meter.nins + e.nins, nsub |-> meter.nsub + e.nsub]

NoErrors == [n |-> 0, ndel |-> 0, nins |-> 0, nsub |-> 0]

------------------------------------------------------------------------------
(* Evaluation: the samples of a batch are the pairs of what was said and heard *)

VARIABLES
  evaluated,  \* the setup, and the batch; <<>> if nothing is evaluated
  tknEdit, wrdEdit

transcriptVars == <<evaluated, tknEdit, wrdEdit>>

Evaluates(e) == evaluated = e /\ tknEdit = NoErrors /\ wrdEdit = NoErrors

\* Frames on which a criterion's best path is target t: each token in one or two of
\* them, and for CTC blanks where they are needed or everywhere.
FramesOf(t, style, criterion) ==
  LET frames(i) ==
        (IF criterion = "ctc" /\ (style = "long" \/ (i > 1 /\ t[i] = t[i - 1]))
         THEN <<kBlankToken>> ELSE <<>>)
        \o (IF style = "long" THEN <<t[i], t[i]>> ELSE <<t[i]>>) IN
  IF criterion = "s2s" THEN DropLast(t, {kEosToken})
  ELSE FlattenSeq([i \in DOMAIN t |-> frames(i)])

evalOutput ==
  /\ evaluated # <<>> /\ evaluated.batch # <<>>
  /\ \E c \in {evaluated.setup}, b \in {Head(evaluated.batch)} :
     \E target \in targetFeatures(b.said, c), best \in targetFeatures(b.heard, c) :
     \E tgt \in {Padded(target, b.padding, c)},
        path \in {FramesOf(best, b.style, c.criterion)} :
     \E ltrTgt \in {tknTarget2Ltr(SubSeq(tgt, 1, getTargetSize(tgt)), c)},
        ltrPred \in {tknPrediction2Ltr(path, c)} :
     \E wrdTgt \in {tkn2Wrd(ltrTgt, c.wordSep)}, wrdPred \in {tkn2Wrd(ltrPred, c.wordSep)} :
       /\ tknEdit' = addDistance(tknEdit, ltrPred, ltrTgt)
       /\ wrdEdit' = addDistance(wrdEdit, wrdPred, wrdTgt)
  /\ evaluated' = [evaluated EXCEPT !.batch = Tail(evaluated.batch),
                                    !.done = Append(evaluated.done, Head(evaluated.batch))]

------------------------------------------------------------------------------
(* Properties *)

\* The least number of errors: some elements correspond in order, the others are
\* inserted or deleted.
Sorted(S) == SetToSortSeq(S, LAMBDA i, j : i < j)
Distance(s, t) ==
  Min({LET a == Sorted(A)
           b == Sorted(B) IN
       Len(s) + Len(t) - 2 * Len(a)
         + Cardinality({i \in DOMAIN a : s[a[i]] # t[b[i]]}) :
         <<A, B>> \in {p \in (SUBSET DOMAIN s) \X (SUBSET DOMAIN t) :
                         Cardinality(p[1]) = Cardinality(p[2])}})

\* What can be read back of a transcript: the letters that are tokens.
Readable(words, c) ==
  SelectSeq([i \in DOMAIN words |->
               SelectSeq(words[i], LAMBDA ch : \E t \in c.tokens :
                                                 \E k \in DOMAIN t : t[k] = ch)],
            LAMBDA w : w # <<>>)

Doubled(words) ==
  \E i \in DOMAIN words : \E k \in 2..Len(words[i]) : words[i][k] = words[i][k - 1]

\* The word errors of an evaluation are those between the words that were said and the
\* words that were heard, the fewest edits that turn one into the other, over all
\* samples of the batch: spelling, surrounding, packing, padding, alignment and their
\* reversal lose nothing and add nothing, and the kinds of errors account for the
\* difference in length.  Not so for ASG without replabels, which cannot say a letter
\* twice.
WordErrorsAreTrue ==
  evaluated # <<>> =>
    LET c == evaluated.setup
        done == evaluated.done
        Said(i) == Readable(done[i].said, c)
        Heard(i) == Readable(done[i].heard, c)
        Total(f(_)) == MapThenSumSet(f, DOMAIN done) IN
    (c.criterion = "asg" /\ c.replabel = 0
       => \A i \in DOMAIN done : ~Doubled(done[i].said) /\ ~Doubled(done[i].heard)) =>
      /\ wrdEdit.n = Total(LAMBDA i : Len(Said(i)))
      /\ ErrSum(wrdEdit) = Total(LAMBDA i : Distance(Heard(i), Said(i)))
      /\ wrdEdit.ndel - wrdEdit.nins = Total(LAMBDA i : Len(Said(i)) - Len(Heard(i)))
      /\ (\A i \in DOMAIN done : done[i].said = done[i].heard) => ErrSum(tknEdit) = 0

==============================================================================
