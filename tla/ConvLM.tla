------------------------------- MODULE ConvLM -------------------------------
(***************************************************************************)
(* lib/text/decoder/lm/ConvLM.{h,cpp}, the score function of               *)
(* app/asr/decoder/ConvLmModule.cpp, and the life of the language model    *)
(* states in the decoders that use them.                                   *)
(*                                                                         *)
(* The model keeps the scores of a state under the state's address.  The   *)
(* decoder drops states, and memory is used again: a new state may have    *)
(* the address of any state that is gone.                                  *)
(*                                                                         *)
(* The network is causal, so that its scores at a position depend on the   *)
(* tokens up to there; a row of scores is represented by these tokens.     *)
(***************************************************************************)
EXTENDS Integers, Sequences, FiniteSets, FiniteSetsExt, SequencesExt, Functions

CONSTANTS
  Addresses,  \* of language model states
  UserTokens, \* the decoder's tokens
  LmTokens,   \* the vocabulary of the model, without the special tokens
  MaxFrames, MaxUtterances  \* bounds for TLC

VARIABLES
  lmSetup,   \* beamSize_, lmMemory_, maxHistorySize_
  lm,        \* cacheIndices_, cache_, batchedTokens_, and whether a call threw
  frames,    \* hyp_, a sequence of hypotheses for each frame not pruned
  lmTokens,  \* the tokens of the state at an address
  scored,    \* what was asked and answered in the last step
  decoded,   \* nDecodedFrames_
  utterance  \* how many have begun

convLmVars == <<lmSetup, lm, frames, lmTokens, scored, decoded, utterance>>

kEos == "</s>"
kPad == "<pad>"
kUnk == "<unk>"
NoRow == <<>>
Same == "same"   \* in place of a token: no new state

usrToLmIdxMap(token) == IF token \in LmTokens THEN token ELSE kUnk

------------------------------------------------------------------------------
(* The model *)

\* Each sample of the batch at its last position.
getConvLmScoreFunc(inputs, lastTokenPositions, sampleSize) ==
  [b \in DOMAIN lastTokenPositions |->
     SubSeq(inputs, (b - 1) * sampleSize + 1,
                    (b - 1) * sampleSize + lastTokenPositions[b] + 1)]

NoCache(c) ==
  [indices |-> <<>>, cache |-> [i \in 0..(c.beamSize - 1) |-> NoRow],
   batched |-> [i \in 1..(c.beamSize * c.maxHistory) |-> 0], threw |-> FALSE]

\* Mutant: the next utterance finds the scores of the last one.
StartKeepsCache(m) == m

start(m) == [m EXCEPT !.indices = <<>>]

\* The tokens of the state that scoreWithLmIdx returns.
OutState(tokens, token, c) ==
  IF Len(tokens) = c.maxHistory THEN Append(Tail(tokens), token)
  ELSE Append(tokens, token)

\* The model afterwards; the score of token is then in the row of the state.
scoreWithLmIdx(m, state, tokens, c) ==
  IF state \in DOMAIN m.indices THEN m
  ELSE LET kept == IF Cardinality(DOMAIN m.indices) = c.beamSize THEN <<>> ELSE m.indices
           newIdx == Cardinality(DOMAIN kept) IN
       [m EXCEPT !.indices = kept @@ (state :> newIdx),
                 !.cache = [@ EXCEPT ![newIdx] =
                              getConvLmScoreFunc(tokens, <<Len(tokens) - 1>>, Len(tokens))[1]]]

RowOf(m, state) == m.cache[m.indices[state]]

\* The states that stay move to the front of the cache, in their order.
KeepCached(m, states) ==
  LET kept == {s \in Range(states) : s \in DOMAIN m.indices}
      slots == {m.indices[s] : s \in kept}
      Before(i) == Cardinality({j \in slots : j < i})
      Moved(i) == CHOOSE j \in slots : Before(j) = i IN
  [m EXCEPT !.indices = [s \in kept |-> Before(m.indices[s])],
            !.cache = [i \in DOMAIN @ |-> IF i < Cardinality(slots) THEN @[Moved(i)] ELSE @[i]]]

\* One batch: the states' tokens, padded, over what earlier batches left.
RunBatch(m, batch, tokensOf, longest) ==
  LET size == Cardinality(DOMAIN m.indices)
      Token(k) ==
        LET b == (k - 1) \div longest
            j == (k - 1) % longest
            tokens == tokensOf[batch[b + 1]] IN
        IF b >= Len(batch) THEN m.batched[k]
        ELSE IF j < Len(tokens) THEN tokens[j + 1] ELSE kPad IN
  CHOOSE r \in {[m EXCEPT
      !.batched = tokens,
      !.indices = @ @@ [s \in Range(batch) |->
                          size + (CHOOSE i \in DOMAIN batch : batch[i] = s) - 1],
      !.cache = [i \in DOMAIN @ |->
                   IF i \in size..(size + Len(batch) - 1)
                   THEN getConvLmScoreFunc(tokens,
                          [b \in DOMAIN batch |-> Len(tokensOf[batch[b]]) - 1],
                          longest)[i - size + 1]
                   ELSE @[i]]] : tokens \in {[k \in DOMAIN m.batched |-> Token(k)]}} : TRUE

\* The states that are not cached, once each, in batches that fit into lmMemory_.
updateCache(m, states, tokensOf, c) ==
  LET nStates == Len(states)
      new == SelectSeq(states, LAMBDA s : s \notin DOMAIN m.indices)
      once == [i \in DOMAIN new |-> i = Min({j \in DOMAIN new : new[j] = new[i]})]
      fresh == LET idx == SetToSortSeq({i \in DOMAIN new : once[i]}, <) IN
               [i \in DOMAIN idx |-> new[idx[i]]]
      longest == Max({Len(tokensOf[s]) : s \in Range(new)})
      maxBatch == Min({c.lmMemory \div longest, nStates})
      Batches[n \in 0..Len(fresh)] ==
        IF n = Len(fresh) THEN <<>>
        ELSE LET last == Min({n + maxBatch, Len(fresh)}) IN
             <<SubSeq(fresh, n + 1, last)>> \o Batches[last]
      Run[k \in 0..Len(fresh)] ==
        IF k = 0 THEN KeepCached(m, states)
        ELSE IF k > Len(Batches[0]) THEN Run[k - 1]
        ELSE CHOOSE r \in {RunBatch(p, Batches[0][k], tokensOf, longest) : p \in {Run[k - 1]}} : TRUE IN
  IF nStates > c.beamSize THEN [m EXCEPT !.threw = TRUE]
  ELSE IF new = <<>> THEN KeepCached(m, states)
  ELSE IF maxBatch = 0 THEN [KeepCached(m, states) EXCEPT !.threw = TRUE]
  ELSE Run[Len(fresh)]

------------------------------------------------------------------------------
(* The decoder: a hypothesis is its state and, to compare, all it has said *)

Live(fs) == {h.state : h \in UNION {Range(fs[f]) : f \in DOMAIN fs}}

\* hyp_.clear() and then start: the new state may be where an old one was.
lmDecodeBegin ==
  \E a \in Addresses :
    /\ lm' = start(lm)
    /\ lmTokens' = (a :> <<kEos>>)
    /\ frames' = <<<<[state |-> a, said |-> <<kEos>>]>>>>
    /\ scored' = {}
    /\ decoded' = 0 /\ utterance' = utterance + 1
    /\ UNCHANGED lmSetup

\* The hypotheses ask one after the other; each takes its scores when it asks.
Asked(hyps, asking) ==
  LET Ask(r, h) ==
        CHOOSE q \in {[lm |-> m,
                       answers |-> r.answers \cup
                         {[said |-> h.said, row |-> RowOf(m, h.state)]}] :
                        m \in {scoreWithLmIdx(r.lm, h.state, lmTokens[h.state], lmSetup)}} : TRUE
      After[h \in 0..Len(hyps)] ==
        IF h = 0 THEN [lm |-> lm, answers |-> {}]
        ELSE CHOOSE q \in {IF h \in asking THEN Ask(r, hyps[h]) ELSE r : r \in {After[h - 1]}} :
               TRUE IN
  After[Len(hyps)]

\* A frame: a new hypothesis keeps the state of the one it extends (a blank, a repetition,
\* a letter within a word) or has one that the model made when asked.
lmDecodeStep ==
  /\ frames # <<>> /\ decoded < MaxFrames
  /\ LET hyps == Last(frames) IN
     \E asking \in SUBSET DOMAIN hyps :
     \E choice \in SeqOf({[from |-> h, token |-> t] : h \in DOMAIN hyps, t \in {Same}}
                         \cup {[from |-> h, token |-> t] : h \in asking, t \in UserTokens},
                         lmSetup.beamSize) \ {<<>>} :
     \E places \in [{i \in DOMAIN choice : choice[i].token # Same}
                      -> Addresses \ Live(frames)] :
       /\ IsInjective(places)
       /\ \E r \in {Asked(hyps, asking)},
             made \in {[a \in Range(places) |->
                         LET n == choice[CHOOSE i \in DOMAIN places : places[i] = a] IN
                         OutState(lmTokens[hyps[n.from].state], usrToLmIdxMap(n.token),
                                  lmSetup)]} :
            /\ scored' = r.answers
            /\ frames' = Append(frames, [i \in DOMAIN choice |->
                 LET p == hyps[choice[i].from] IN
                 IF i \notin DOMAIN places THEN p
                 ELSE [state |-> places[i],
                       said |-> Append(p.said, usrToLmIdxMap(choice[i].token))]])
            /\ lmTokens' = made @@ lmTokens
            /\ lm' = updateCache(r.lm, [i \in DOMAIN choice |-> Last(frames')[i].state],
                                 lmTokens', lmSetup)
  /\ decoded' = decoded + 1
  /\ UNCHANGED <<lmSetup, utterance>>

\* prune(lookBack) drops all frames but the last ones, and with them their states.
lmPrune ==
  \E lookBack \in 0..(Len(frames) - 2) :
    /\ frames' = SubSeq(frames, Len(frames) - lookBack, Len(frames))
    /\ lmTokens' = Restrict(lmTokens, Live(frames'))
    /\ UNCHANGED <<lmSetup, lm, scored, decoded, utterance>>

\* All hypotheses ask for the end; the next call is decodeBegin.
lmDecodeEnd ==
  /\ frames # <<>>
  /\ \E r \in {Asked(Last(frames), DOMAIN Last(frames))} :
       lm' = r.lm /\ scored' = r.answers
  /\ frames' = <<>> /\ lmTokens' = <<>> /\ decoded' = 0
  /\ UNCHANGED <<lmSetup, utterance>>

DecodesWith(c) ==
  /\ lmSetup = c /\ lm = NoCache(c)
  /\ frames = <<>> /\ lmTokens = <<>> /\ scored = {}
  /\ decoded = 0 /\ utterance = 0

ConvLmStep ==
  /\ ~lm.threw
  /\ \/ frames = <<>> /\ utterance < MaxUtterances /\ lmDecodeBegin
     \/ lmDecodeStep \/ lmPrune \/ lmDecodeEnd

------------------------------------------------------------------------------
(* Properties *)

\* The scores a hypothesis gets are those of the last maxHistorySize_ tokens it said,
\* wherever its state is in memory, whatever was there before, and however the cache
\* was filled: by a single query, from a batch with longer or shorter states, or moved
\* within the cache.  No call throws if the memory is enough for one state.
ScoresAreOfTheHypothesis ==
  /\ \A a \in scored :
       a.row = SubSeq(a.said, Max({1, Len(a.said) - lmSetup.maxHistory + 1}), Len(a.said))
  /\ lm.threw => lmSetup.lmMemory < lmSetup.maxHistory

==============================================================================
