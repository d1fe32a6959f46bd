----------------------------- MODULE Alignments -----------------------------
(***************************************************************************)
(* The dynamic programs of the ASR criteria, for one utterance of a batch: *)
(* app/asr/criterion/backend/cpu/ConnectionistTemporalClassification-      *)
(* Criterion.cpp and lib/sequence/criterion/cpu.                           *)
(*                                                                         *)
(* A forward pass sums the probabilities of alignments with logSumExp.  It *)
(* is modelled on what it sums: a log-probability is the set of alignments *)
(* it stands for, -inf is the empty set, adding an emission appends to     *)
(* each alignment and logSumExp is union.  A Viterbi pass computes with    *)
(* integer scores.  A backward pass computes with probabilities that are   *)
(* whole numbers; its gradients, which are fractions of the sum of all     *)
(* alignments, are kept as their numerators.                               *)
(*                                                                         *)
(* Tokens are 0..(N - 1) and the blank of CTC is N - 1; positions of a     *)
(* target and frames count from 0 as in the code, so target[i + 1] is the  *)
(* code's target[i].                                                       *)
(***************************************************************************)
EXTENDS Integers, Sequences, FiniteSets, FiniteSetsExt

\* What a buffer holds where the code has not written.
Junk == {<<"junk">>}

countRepeats(labels, len) ==
  Cardinality({i \in 1..(len - 1) : labels[i] = labels[i + 1]})

LastRow(row, T) == row[T - 1]

------------------------------------------------------------------------------
(* CTC forward: state s of 0..2L is label s / 2, or the blank before it *)

\* The predecessors of state s.  Mutant: also a repeated label may be skipped to.
CtcFromRepeats(target, s) ==
  IF s = 0 THEN {0}
  ELSE IF s % 2 = 0 \/ s = 1 THEN {s, s - 1} ELSE {s, s - 1, s - 2}

CtcFrom(target, s) ==
  IF s = 0 THEN {0}
  ELSE IF s % 2 = 0 \/ s = 1 THEN {s, s - 1}
  ELSE IF target[s \div 2 + 1] = target[s \div 2] THEN {s, s - 1}
  ELSE {s, s - 1, s - 2}

\* The first and one past the last state that frame t computes.  L and R are the
\* length of the target and its repeats.
CtcStart(target, T, L, R, t, start) ==
  IF T - t > L + R THEN start
  ELSE IF start % 2 = 1 /\ target[start \div 2 + 1] # target[start \div 2 + 2]
  THEN start + 2 ELSE start + 1

CtcEnd(target, L, R, t, end) ==
  IF t > L + R THEN end
  ELSE IF end % 2 = 0 /\ end < 2 * L
  THEN IF target[end \div 2] # target[end \div 2 + 1] THEN end + 2 ELSE end + 1
  ELSE end + 1

\* The alphas of all frames.  A target that does not fit into T frames is cut, but
\* S stays that of the whole target.
ctcAlphas(T, target) ==
  LET whole == Len(target)
      S == 2 * whole + 1
      cut == countRepeats(target, whole)
      L == Min({whole + cut, T}) - cut
      R == countRepeats(target, L)
      row[t \in 0..(T - 1)] ==
        IF t = 0
        THEN LET start == IF T - (L + R) > 0 THEN 0 ELSE 1 IN
             [start |-> start, end |-> IF S = 1 THEN 1 ELSE 2,
              alpha |-> [s \in 0..(S - 1) |->
                IF s = start \/ s = 1 THEN {<<s>>} ELSE {}]]
        ELSE LET prev == row[t - 1]
                 start == CtcStart(target, T, L, R, t, prev.start)
                 end == CtcEnd(target, L, R, t, prev.end) IN
             [start |-> start, end |-> end,
              alpha |-> [s \in 0..(S - 1) |->
                IF s \notin start..(end - 1) THEN {}
                ELSE {Append(p, s) : p \in UNION {prev.alpha[q] :
                                                 q \in CtcFrom(target, s)}}]] IN
  row

\* The alignments that the loss is the sum of, as sequences of states.
ctcForward(T, target) ==
  LET alpha == LastRow(ctcAlphas(T, target), T).alpha
      S == 2 * Len(target) + 1 IN
  alpha[S - 1] \cup IF S = 1 THEN {} ELSE alpha[S - 2]

\* The token of a state.
CtcLabel(target, s, blank) == IF s % 2 = 1 THEN target[s \div 2 + 1] ELSE blank

------------------------------------------------------------------------------
(* CTC viterbi *)

NegInf == -1000
Plus(x, y) == IF x = NegInf THEN NegInf ELSE x + y

\* s_inc and e_inc without the 1 that each has at one end.
Increments(labels) ==
  LET inc[i \in 1..Max({1, Len(labels)})] ==
        IF i = 1 THEN <<>>
        ELSE inc[i - 1] \o IF labels[i - 1] = labels[i] THEN <<1, 1>> ELSE <<2>>
  IN inc[Max({1, Len(labels)})]

\* The branches of compute_alphas: the step back that is taken.  When the two
\* steps back are equal and better than staying, it stays.
\* Mutant: it prefers to stay.
BackPointerStay(x0, x1, x2) == IF x2 > x1 /\ x2 > x0 THEN 2 ELSE 0

BackPointer(x0, x1, x2) ==
  IF x2 > x1 /\ x2 > x0 THEN 2 ELSE IF x1 > x0 /\ x1 > x2 THEN 1 ELSE 0

\* The best alignment of the target, as tokens, and whether two steps back tied.
ctcViterbi(T, N, target, input) ==
  LET blank == N - 1
      L == Len(target)
      S == 2 * L + 1
      repeats == countRepeats(target, L)
      s_inc == <<1>> \o Increments(target)
      e_inc == Increments(target) \o <<1>>
      label(i) == CtcLabel(target, i, blank)
      row[t \in 0..(T - 1)] ==
        IF t = 0
        THEN LET start == IF S \div 2 + repeats - T < 0 THEN 0 ELSE 1 IN
             [start |-> start, end |-> IF S > 1 THEN 2 ELSE 1, tie |-> FALSE,
              back |-> [i \in 0..(S - 1) |-> 0],
              alpha |-> [i \in 0..(S - 1) |->
                IF i \in start..1 THEN input[0][label(i)] ELSE NegInf]]
        ELSE LET prev == row[t - 1]
                 remain == S \div 2 + repeats - (T - t)
                 start == prev.start + IF remain >= 0 THEN s_inc[remain + 1] ELSE 0
                 end == prev.end + IF t <= S \div 2 + repeats THEN e_inc[t] ELSE 0
                 x(i, k) ==
                   IF k = 2 /\ (label(i) = blank \/ i = 1) THEN NegInf
                   ELSE IF k = 2 /\ label(i) = label(i - 2) THEN NegInf
                   ELSE prev.alpha[i - k]
                 back == [i \in 0..(S - 1) |->
                   IF i = 0 \/ i \notin start..(end - 1) THEN 0
                   ELSE BackPointer(x(i, 0), x(i, 1), x(i, 2))] IN
             [start |-> start, end |-> end, back |-> back,
              tie |-> prev.tie \/ \E i \in start..(end - 1) :
                        i > 0 /\ x(i, 1) = x(i, 2) /\ x(i, 1) > x(i, 0),
              alpha |-> [i \in 0..(S - 1) |->
                IF i \notin start..(end - 1) THEN NegInf
                ELSE Plus(prev.alpha[i - back[i]], input[t][label(i)])]]
      alpha == LastRow(row, T).alpha
      state[t \in 0..(T - 1)] ==
        IF t = T - 1 THEN IF alpha[S - 1] > alpha[S - 2] THEN S - 1 ELSE S - 2
        ELSE state[t + 1] - row[t + 1].back[state[t + 1]] IN
  [path |-> [t \in 0..(T - 1) |-> label(state[t])], tie |-> LastRow(row, T).tie]

------------------------------------------------------------------------------
(* ForceAlignmentCriterion: state i is position i of the target *)

\* The positions low..(high - 1) that have both predecessors.
High(L, t) == IF t < L THEN t ELSE L
Low(T, L, t) == IF T - t < L THEN L - (T - t) ELSE 1

\* The predecessors of position i that frame t reads; none if it writes nothing.
FacFrom(T, L, t, i) ==
  IF i = 0 /\ T - t >= L THEN {0}
  ELSE IF t < L /\ i = High(L, t) THEN {i - 1}
  ELSE IF i \in Low(T, L, t)..(High(L, t) - 1) THEN {i, i - 1} ELSE {}

\* forward.  The workspace is not set to -inf.
facAlphas(T, L) ==
  LET alpha[t \in 0..(T - 1)] ==
        [i \in 0..(L - 1) |->
           IF t = 0 THEN IF i = 0 THEN {<<0>>} ELSE Junk
           ELSE IF FacFrom(T, L, t, i) = {} THEN Junk
           ELSE {Append(p, i) : p \in UNION {alpha[t - 1][q] :
                                            q \in FacFrom(T, L, t, i)}}] IN
  alpha

facForward(T, L) == LastRow(facAlphas(T, L), T)[L - 1]

\* viterbi, where it is.
facViterbi(T, target, input, trans) ==
  LET L == Len(target)
      score(i, q) == trans[<<target[i + 1], target[q + 1]>>]
      alpha[t \in 0..(T - 1)] ==
        [i \in 0..(L - 1) |->
           IF t = 0 THEN IF i = 0 THEN input[0][target[1]] ELSE NegInf
           ELSE IF FacFrom(T, L, t, i) = {} THEN NegInf
           ELSE Plus(Max({Plus(alpha[t - 1][q], score(i, q)) :
                            q \in FacFrom(T, L, t, i)}), input[t][target[i + 1]])]
      position[t \in 0..(T - 1)] ==
        IF t = T - 1 THEN L - 1
        ELSE LET i == position[t + 1] IN
             IF i > 0
             THEN IF Plus(alpha[t][i - 1], score(i, i - 1))
                       > Plus(alpha[t][i], score(i, i)) THEN i - 1 ELSE i
             ELSE i IN
  [t \in 0..(T - 1) |-> target[position[t] + 1]]

------------------------------------------------------------------------------
(* FullConnectionCriterion: the sum over all sequences of tokens *)

fccAlphas(T, N) ==
  LET alpha[t \in 0..(T - 1)] ==
        [m \in 0..(N - 1) |->
           IF t = 0 THEN {<<m>>}
           ELSE {Append(p, m) : p \in UNION {alpha[t - 1][n] : n \in 0..(N - 1)}}] IN
  alpha

fccForward(T, N) ==
  UNION {LastRow(fccAlphas(T, N), T)[n] : n \in 0..(N - 1)}

------------------------------------------------------------------------------
(* Backward passes *)

SumOver(S, f(_)) == MapThenSumSet(f, S)

\* The probability of a sequence of tokens.
Product(input, trans, p) ==
  LET upTo[t \in 1..Len(p)] ==
        IF t = 1 THEN input[0][p[1]]
        ELSE upTo[t - 1] * trans[<<p[t], p[t - 1]>>] * input[t - 1][p[t]] IN
  upTo[Len(p)]

NoTransitions(tokens) == [e \in tokens \X tokens |-> 1]

\* dLogSumExp: what predecessor q gets of gradient g, by the terms of the sum.
dLogSumExp(terms, q, g) ==
  (g * terms[q]) \div SumOver(DOMAIN terms, LAMBDA k : terms[k])

\* The windows of the backward pass of CTC.
CtcBackStart(target, T, L, R, t, start) ==
  IF T - t > L + R + 1 THEN start
  ELSE IF start % 2 = 1 /\ start > 1 /\ target[start \div 2 + 1] # target[start \div 2]
  THEN start - 2 ELSE start - 1

CtcBackEnd(target, L, R, t, end) ==
  IF t >= L + R THEN end
  ELSE IF end % 2 = 0 /\ target[end \div 2] # target[end \div 2 - 1]
  THEN end - 2 ELSE end - 1

\* The gradient of the input, without its sign.
ctcBackward(T, N, target, input) ==
  LET whole == Min({Len(target), T})
      R == countRepeats(target, whole)
      L == Min({whole + R, T}) - R
      S == 2 * L + 1
      sets == ctcAlphas(T, target)
      tokens(p) == [k \in DOMAIN p |-> CtcLabel(target, p[k], N - 1)]
      trans == NoTransitions(0..(N - 1))
      alphas[t \in 0..(T - 1)] ==
        [s \in 0..(S - 1) |->
           SumOver(sets[t].alpha[s], LAMBDA p : Product(input, trans, tokens(p)))]
      last == [s \in {S - 1, Max({0, S - 2})} |-> alphas[T - 1][s]]
      total == SumOver(DOMAIN last, LAMBDA s : last[s])
      row[t \in 0..(T - 1)] ==
        LET after == IF t = T - 1 THEN [start |-> IF S = 1 THEN S ELSE S - 1, end |-> S]
                     ELSE row[t + 1]
            start == CtcBackStart(target, T, L, R, t, after.start)
            end == CtcBackEnd(target, L, R, t, after.end)
            share(s, q) ==
              dLogSumExp([k \in CtcFrom(target, s) |-> alphas[t][k]], q, after.dAlphas[s]) IN
        [start |-> start, end |-> end,
         dAlphas |-> [q \in 0..(S - 1) |->
           IF t = T - 1 THEN IF q \in DOMAIN last THEN dLogSumExp(last, q, total) ELSE 0
           ELSE SumOver({s \in after.start..(after.end - 1) : q \in CtcFrom(target, s)},
                        LAMBDA s : share(s, q))]] IN
  [t \in 0..(T - 1) |-> [n \in 0..(N - 1) |->
     SumOver({s \in row[t].start..(row[t].end - 1) : CtcLabel(target, s, N - 1) = n},
             LAMBDA s : row[t].dAlphas[s])]]

\* The positions whose gradient frame t adds to that of the input.
FacWindow(T, L, t) ==
  IF t = 0 THEN {0}
  ELSE (IF T - t < L THEN L - (T - t) ELSE 0)..((IF t < L THEN t + 1 ELSE L) - 1)

facBackward(T, N, target, input, trans) ==
  LET L == Len(target)
      sets == facAlphas(T, L)
      tokens(p) == [k \in DOMAIN p |-> target[p[k] + 1]]
      alpha(t, i) == SumOver(sets[t][i], LAMBDA p : Product(input, trans, tokens(p)))
      total == alpha(T - 1, L - 1)
      d[t \in 0..(T - 1)] ==
        IF t = T - 1 THEN [grad |-> [i \in 0..(L - 1) |-> IF i = L - 1 THEN total ELSE 0]]
        ELSE LET from(i) == FacFrom(T, L, t + 1, i)
                 moves == {<<i, q>> \in (0..(L - 1)) \X (0..(L - 1)) : q \in from(i)}
                 share == [m \in moves |->
                   dLogSumExp([k \in from(m[1]) |->
                                 alpha(t, k) * trans[<<target[m[1] + 1], target[k + 1]>>]],
                              m[2], d[t + 1].grad[m[1]])] IN
             [share |-> share,
              grad |-> [q \in 0..(L - 1) |->
                SumOver({m \in moves : m[2] = q}, LAMBDA m : share[m])]] IN
  [input |-> [t \in 0..(T - 1) |-> [n \in 0..(N - 1) |->
     SumOver({i \in FacWindow(T, L, t) : target[i + 1] = n}, LAMBDA i : d[t].grad[i])]],
   trans |-> [e \in (0..(N - 1)) \X (0..(N - 1)) |->
     SumOver(0..(T - 2), LAMBDA t :
       SumOver({m \in DOMAIN d[t].share : <<target[m[1] + 1], target[m[2] + 1]>> = e},
               LAMBDA m : d[t].share[m]))]]

fccBackward(T, N, input, trans) ==
  LET tokens == 0..(N - 1)
      sets == fccAlphas(T, N)
      alpha[t \in 0..(T - 1)] ==
        [n \in tokens |-> SumOver(sets[t][n], LAMBDA p : Product(input, trans, p))]
      total == SumOver(tokens, LAMBDA n : alpha[T - 1][n])
      d[t \in 0..(T - 1)] ==
        IF t = T - 1 THEN [grad |-> [n \in tokens |-> dLogSumExp(alpha[t], n, total)]]
        ELSE LET buf == [e \in tokens \X tokens |->
                   dLogSumExp([n \in tokens |-> alpha[t][n] * trans[<<e[1], n>>]],
                              e[2], d[t + 1].grad[e[1]])] IN
             [share |-> buf,
              grad |-> [n \in tokens |-> SumOver(tokens, LAMBDA m : buf[<<m, n>>])]] IN
  [input |-> [t \in 0..(T - 1) |-> d[t].grad],
   trans |-> [e \in tokens \X tokens |->
     SumOver(0..(T - 2), LAMBDA t : d[t].share[e])]]

------------------------------------------------------------------------------
(* ViterbiPath and getLinearTarget *)

\* The first of the best predecessors.
FirstBest(values) == Min({n \in DOMAIN values :
                           \A k \in DOMAIN values : values[k] <= values[n]})

\* alpha has the rows of the last two frames only; the loop runs to t = T, where
\* nothing is added.
viterbiPath(T, N, input, trans) ==
  LET tokens == 0..(N - 1)
      reach(alpha, m) == [n \in tokens |-> alpha[n] + trans[<<m, n>>]]
      row[t \in 0..(T - 1)] ==
        IF t = 0
        THEN [beta |-> [m \in tokens |-> 0],
              alpha |-> [k \in 0..1 |-> [n \in tokens |->
                           IF k = 0 THEN input[0][n] ELSE NegInf]]]
        ELSE LET prev == row[t - 1].alpha[(t - 1) % 2]
                 beta == [m \in tokens |-> FirstBest(reach(prev, m))] IN
             [beta |-> beta,
              alpha |-> [row[t - 1].alpha EXCEPT ![t % 2] =
                [m \in tokens |-> reach(prev, m)[beta[m]] + input[t][m]]]]
      path[t \in 0..(T - 1)] ==
        IF t = T - 1 THEN FirstBest(LastRow(row, T).alpha[(T - 1) % 2])
        ELSE row[t + 1].beta[path[t + 1]] IN
  [t \in 0..(T - 1) |-> path[t]]

\* The position of the target that each frame is given.
getLinearTarget(T, L) ==
  [t \in 0..(T - 1) |-> (t * Min({T, L})) \div T]

------------------------------------------------------------------------------
(* Calls *)

CONSTANTS Frames, Values   \* bounds: lengths of inputs, and scores

VARIABLES call, result   \* a call with its arguments, and what it returned

alignmentVars == <<call, result>>

NotCalled == <<>>
Targets(n, tokens) == UNION {[1..k -> tokens] : k \in 1..n}
Fits(T, target) == Len(target) + countRepeats(target, Len(target)) <= T

\* The Viterbi passes of CTC have two tokens and the blank, the others two tokens.
Inputs(T, N) == [0..(T - 1) -> [0..(N - 1) -> Values]]
Transitions == [(0..1) \X (0..1) -> {0, 1}]
Short == Min(Frames)

ForwardCalls ==
  {[fn |-> "ctc", T |-> T, target |-> y] :
     T \in Frames, y \in {<<>>} \cup Targets(3, 0..1)}
  \cup {[fn |-> fn, T |-> T, target |-> y] :
     fn \in {"fac", "linear", "fcc"}, T \in Frames, y \in {[i \in 1..k |-> 0] : k \in 1..5}}

\* Probabilities 1 and 2, all of them for the shortest input.
Weights(T, N) ==
  IF T = Short /\ N = 2 THEN [0..(T - 1) -> [0..1 -> 1..2]]
  ELSE {[t \in 0..(T - 1) |-> [n \in 0..(N - 1) |-> 1 + (((t * k + n) \div 2) % 2)]] :
          k \in 1..3}
Moves == {[e \in (0..1) \X (0..1) |-> 1 + g[e]] : g \in Transitions}

BackwardCalls ==
  UNION {{[fn |-> "ctcGrad", T |-> T, target |-> y, input |-> x] :
            y \in {z \in {<<>>} \cup Targets(3, 0..1) : Fits(T, z)}, x \in Weights(T, 3)}
         \cup {[fn |-> "facGrad", T |-> T, target |-> y, input |-> x, trans |-> g] :
            y \in {z \in Targets(3, 0..1) : Len(z) <= T}, x \in Weights(T, 2),
            g \in {h \in Moves : h[<<0, 1>>] # h[<<1, 0>>]}}
         \cup {[fn |-> "fccGrad", T |-> T, input |-> x, trans |-> g] :
            x \in Weights(T, 2), g \in Moves} :
           T \in Frames}

ViterbiCalls ==
  {[fn |-> "ctcViterbi", T |-> Short, target |-> y, input |-> x] :
     y \in {z \in Targets(2, 0..1) : Fits(Short, z)}, x \in Inputs(Short, 3)}
  \cup {[fn |-> "facViterbi", T |-> Short, target |-> y, input |-> x, trans |-> g] :
     y \in {<<0>>, <<0, 1>>, <<1, 0, 1>>}, x \in Inputs(Short, 2), g \in Transitions}
  \cup {[fn |-> "viterbi", T |-> Short, input |-> x, trans |-> g] :
     x \in Inputs(Short, 2), g \in Transitions}

Calls(c) == call = c /\ result = NotCalled

Returns(fn, value) ==
  /\ call # NotCalled /\ call.fn = fn /\ result = NotCalled
  /\ result' = value /\ UNCHANGED call

AlignmentStep ==
  \/ Returns("ctc", <<ctcForward(call.T, call.target)>>)
  \/ Returns("ctcViterbi", <<ctcViterbi(call.T, 3, call.target, call.input)>>)
  \/ Returns("fac", <<facForward(call.T, Min({call.T, Len(call.target)}))>>)
  \/ Returns("fcc", <<fccForward(call.T, 2)>>)
  \/ Returns("ctcGrad", <<ctcBackward(call.T, 3, call.target, call.input)>>)
  \/ Returns("facGrad",
             <<facBackward(call.T, 2, call.target, call.input, call.trans)>>)
  \/ Returns("fccGrad", <<fccBackward(call.T, 2, call.input, call.trans)>>)
  \/ Returns("facViterbi",
             <<facViterbi(call.T, call.target, call.input, call.trans)>>)
  \/ Returns("viterbi", <<viterbiPath(call.T, 2, call.input, call.trans)>>)
  \/ Returns("linear", <<getLinearTarget(call.T, Len(call.target))>>)

------------------------------------------------------------------------------
(* Properties *)

\* A path of tokens spells a target once repeats and then blanks are removed.
Spells(path, target, blank) ==
  LET keep == {t \in DOMAIN path :
                 path[t] # blank /\ (t = 0 \/ path[t] # path[t - 1])} IN
  /\ Cardinality(keep) = Len(target)
  /\ \A t \in keep : path[t] = target[Cardinality({u \in keep : u <= t})]

Paths(T, n) == [0..(T - 1) -> 0..(n - 1)]
CtcAlignments(T, N, target) == {p \in Paths(T, N) : Spells(p, target, N - 1)}
FacAlignments(T, L) ==
  {p \in Paths(T, L) : /\ p[0] = 0 /\ p[T - 1] = L - 1
                       /\ \A t \in 1..(T - 1) : p[t] - p[t - 1] \in {0, 1}}

InputScore(path, input) ==
  MapThenSumSet(LAMBDA t : input[t][path[t]], DOMAIN path)
TransScore(path, trans) ==
  MapThenSumSet(LAMBDA t : trans[<<path[t], path[t - 1]>>], DOMAIN path \ {0})

ToTokens(p, target) == [t \in DOMAIN p |-> target[p[t] + 1]]

\* spelled gives each alignment its tokens.  The alignments with token n in frame t,
\* and how often they make a move, each counted with its probability.
Weight(p, input, trans) == Product(input, trans, [k \in 1..Cardinality(DOMAIN p) |-> p[k - 1]])
Through(spelled, input, trans) ==
  [t \in DOMAIN input |-> [n \in DOMAIN input[0] |->
     SumOver({a \in DOMAIN spelled : spelled[a][t] = n},
             LAMBDA a : Weight(spelled[a], input, trans))]]
Moving(spelled, input, trans) ==
  [e \in DOMAIN trans |->
     SumOver(DOMAIN spelled, LAMBDA a :
       Weight(spelled[a], input, trans)
         * Cardinality({t \in DOMAIN input \ {0} :
                          e = <<spelled[a][t], spelled[a][t - 1]>>}))]
GradientOf(spelled, input, trans) ==
  [input |-> Through(spelled, input, trans), trans |-> Moving(spelled, input, trans)]

\* A forward pass sums every alignment of its target exactly once and nothing else:
\* the windows start..end and low..high leave none out and let no value be read that
\* was not written.  A backward pass, whose windows are worked out once more from the
\* other end, gives each token of a frame and each transition the share of the sum
\* that belongs to the alignments with it.  Not so for a target that does not fit
\* into the input, for which CTC sums nothing and its loss is infinite.
SumsAreExact ==
  result # NotCalled =>
    LET T == call.T
        y == call.target
        r == result[1] IN
    CASE call.fn = "ctcGrad" ->
           r = Through([p \in CtcAlignments(T, 3, y) |-> p], call.input,
                       NoTransitions(0..2))
      [] call.fn = "facGrad" ->
           r = GradientOf([p \in FacAlignments(T, Len(y)) |-> ToTokens(p, y)],
                          call.input, call.trans)
      [] call.fn = "fccGrad" ->
           r = GradientOf([p \in Paths(T, 2) |-> p], call.input, call.trans)
      [] call.fn = "fcc" -> {[t \in 0..(T - 1) |-> p[t + 1]] : p \in r} = Paths(T, 2)
      [] call.fn = "ctc" /\ Fits(T, y) ->
           LET tokens == {[t \in 0..(T - 1) |-> CtcLabel(y, p[t + 1], 2)] : p \in r}
           IN /\ tokens = CtcAlignments(T, 3, y)
              /\ Cardinality(tokens) = Cardinality(r)
      [] call.fn = "fac" ->
           {[t \in 0..(T - 1) |-> p[t + 1]] : p \in r}
             = FacAlignments(T, Min({T, Len(y)}))
      [] call.fn = "linear" /\ Len(y) <= T -> r \in FacAlignments(T, Len(y))
      [] OTHER -> TRUE

\* A Viterbi pass returns an alignment that none exceeds.  Not so for CTC when the
\* two steps back of a state are equal and better than staying.
BestAlignmentFound ==
  result # NotCalled =>
    LET r == result[1]
        Full(p) == InputScore(p, call.input) + TransScore(p, call.trans) IN
    CASE call.fn = "ctcViterbi" /\ ~r.tie ->
           LET all == CtcAlignments(call.T, 3, call.target) IN
           /\ r.path \in all
           /\ \A p \in all :
                InputScore(p, call.input) <= InputScore(r.path, call.input)
      [] call.fn = "facViterbi" ->
           LET all == {ToTokens(p, call.target) :
                         p \in FacAlignments(call.T, Len(call.target))} IN
           r \in all /\ \A p \in all : Full(p) <= Full(r)
      [] call.fn = "viterbi" -> \A p \in Paths(call.T, 2) : Full(p) <= Full(r)
      [] OTHER -> TRUE

==============================================================================
