------------------------- MODULE AutogradFunctions -------------------------
(***************************************************************************)
(* The functions of fl/autograd/Functions.cpp, and the indexing of         *)
(* fl/autograd/Variable.cpp, that are polynomial or piecewise linear: what *)
(* each computes, and what its gradFunc hands to addGrad.                  *)
(*                                                                         *)
(* An array has four dims and its elements in column-major order, as       *)
(* ArrayFire keeps them.  Dimensions and coordinates count from 0 in the   *)
(* code: the code's dims[i] is dims[i + 1].  Numbers are integers; inputs  *)
(* are multiples of Unit, which every division in the calls below divides. *)
(* A function that throws returns Failed.                                  *)
(***************************************************************************)
EXTENDS Integers, Sequences, FiniteSets, FiniteSetsExt

Unit == 24

------------------------------------------------------------------------------
(* ArrayFire *)

Elements(dims) == dims[1] * dims[2] * dims[3] * dims[4]
Strides(dims) == <<1, dims[1], dims[1] * dims[2], dims[1] * dims[2] * dims[3]>>
Coord(dims, k) == LET s == Strides(dims) IN
                  [i \in 1..4 |-> ((k - 1) \div s[i]) % dims[i]]
Place(dims, c) == LET s == Strides(dims) IN
                  1 + c[1] + c[2] * s[2] + c[3] * s[3] + c[4] * s[4]
At(a, c) == a.at[Place(a.dims, c)]

Array(dims, Value(_)) ==
  [dims |-> dims, at |-> [k \in 1..Elements(dims) |-> Value(Coord(dims, k))]]
Failed == [dims |-> <<0, 0, 0, 0>>, at |-> <<>>]

Constant(value, dims) == [dims |-> dims, at |-> [k \in 1..Elements(dims) |-> value]]
Each(a, Op(_)) == [a EXCEPT !.at = [k \in DOMAIN a.at |-> Op(a.at[k])]]
Both(a, b, Op(_, _)) == [a EXCEPT !.at = [k \in DOMAIN a.at |-> Op(a.at[k], b.at[k])]]

afSum(a, d) ==
  Array([a.dims EXCEPT ![d + 1] = 1],
        LAMBDA c : MapThenSumSet(LAMBDA j : At(a, [c EXCEPT ![d + 1] = j]),
                                 0..(a.dims[d + 1] - 1)))
afTile(a, reps) ==
  Array([i \in 1..4 |-> a.dims[i] * reps[i]],
        LAMBDA c : At(a, [i \in 1..4 |-> c[i] % a.dims[i]]))
afReorder(a, p) ==
  Array([i \in 1..4 |-> a.dims[p[i] + 1]],
        LAMBDA c : At(a, [d \in 1..4 |-> c[CHOOSE i \in 1..4 : p[i] + 1 = d]]))
afTranspose(a) == afReorder(a, <<1, 0, 2, 3>>)
afMatmul(a, b) ==
  Array([a.dims EXCEPT ![2] = b.dims[2]],
        LAMBDA c : MapThenSumSet(LAMBDA j : At(a, [c EXCEPT ![2] = j])
                                            * At(b, [c EXCEPT ![1] = j]),
                                 0..(a.dims[2] - 1)))
afMatmulTN(a, b) == afMatmul(afTranspose(a), b)
afMatmulNT(a, b) == afMatmul(a, afTranspose(b))
afModdims(a, dims) == [a EXCEPT !.dims = dims]

\* An index has for each dimension the coordinates it selects.
afSeq(first, last) == [k \in 1..(last - first + 1) |-> first + k - 1]
Spans(dims) == [i \in 1..4 |-> afSeq(0, dims[i] - 1)]
afIndex(a, idx) ==
  Array([i \in 1..4 |-> Len(idx[i])],
        LAMBDA c : At(a, [i \in 1..4 |-> idx[i][c[i] + 1]]))
\* a(idx) = b, where no coordinate is selected twice.
afAssign(a, idx, b) ==
  Array(a.dims,
        LAMBDA c :
          IF \A i \in 1..4 : \E k \in DOMAIN idx[i] : idx[i][k] = c[i]
          THEN At(b, [i \in 1..4 |-> (CHOOSE k \in DOMAIN idx[i] : idx[i][k] = c[i]) - 1])
          ELSE At(a, c))
afJoin(a, b) ==
  Array([a.dims EXCEPT ![1] = @ + b.dims[1]],
        LAMBDA c : IF c[1] < a.dims[1] THEN At(a, c)
                   ELSE At(b, [c EXCEPT ![1] = @ - a.dims[1]]))

------------------------------------------------------------------------------
(* Elementwise functions *)

plus(l, r) == Both(l, r, LAMBDA x, y : x + y)
negate(a) == Each(a, LAMBDA x : 0 - x)
minus(l, r) == Both(l, r, LAMBDA x, y : x - y)
times(l, r) == Both(l, r, LAMBDA x, y : x * y)
timesScalar(a, v) == Each(a, LAMBDA x : x * v)
overScalar(a, v) == Each(a, LAMBDA x : x \div v)
scalarMinus(v, a) == Each(a, LAMBDA x : v - x)

\* Multiplying with a mask of 0 and 1.
Where(a, mask, b) == [a EXCEPT !.at = [k \in DOMAIN a.at |->
                                         IF mask[k] THEN a.at[k] ELSE b]]

maxOf(l, r) == Both(l, r, LAMBDA x, y : IF x > y THEN x ELSE y)
maxGrad(l, r, g) ==
  LET mask == [k \in DOMAIN l.at |-> l.at[k] > r.at[k]] IN
  <<Where(g, mask, 0), Where(g, [k \in DOMAIN mask |-> ~mask[k]], 0)>>
minOf(l, r) == Both(l, r, LAMBDA x, y : IF x < y THEN x ELSE y)
minGrad(l, r, g) ==
  LET mask == [k \in DOMAIN l.at |-> l.at[k] < r.at[k]] IN
  <<Where(g, mask, 0), Where(g, [k \in DOMAIN mask |-> ~mask[k]], 0)>>
maxScalar(a, v) == Each(a, LAMBDA x : IF x > v THEN x ELSE v)
maxScalarGrad(a, v, g) == <<Where(g, [k \in DOMAIN a.at |-> a.at[k] > v], 0)>>
minScalar(a, v) == Each(a, LAMBDA x : IF x < v THEN x ELSE v)
minScalarGrad(a, v, g) == <<Where(g, [k \in DOMAIN a.at |-> a.at[k] < v], 0)>>

clamp(a, lo, hi) == Each(a, LAMBDA x : IF x < lo THEN lo ELSE IF x > hi THEN hi ELSE x)
clampGrad(a, lo, hi, g) ==
  LET result == clamp(a, lo, hi) IN
  <<Where(g, [k \in DOMAIN a.at |-> result.at[k] > lo /\ result.at[k] < hi], 0)>>

abs(a) == Each(a, LAMBDA x : IF x < 0 THEN 0 - x ELSE x)
absGrad(a, g) == <<Both(a, g, LAMBDA x, y : IF x < 0 THEN 0 - y ELSE y)>>

------------------------------------------------------------------------------
(* Sums and tiles *)

detailTileAs(a, rdims) ==
  IF \E i \in 1..4 : rdims[i] % a.dims[i] # 0 THEN Failed
  ELSE afTile(a, [i \in 1..4 |-> rdims[i] \div a.dims[i]])

detailSumAs(a, rdims) ==
  LET result[i \in 0..4] ==
        IF i = 0 THEN a
        ELSE IF a.dims[i] = rdims[i] \/ result[i - 1] = Failed THEN result[i - 1]
        ELSE IF rdims[i] # 1 THEN Failed ELSE afSum(result[i - 1], i - 1)
  IN result[4]

tileAsGrad(a, g) == <<detailSumAs(g, a.dims)>>
sumAsGrad(a, g) == <<detailTileAs(g, a.dims)>>
tile(a, reps) == afTile(a, reps)
tileGrad(a, g) == <<detailSumAs(g, a.dims)>>

\* axes is a sequence of dimensions.
OverAxes(a, axes, Reduce(_, _)) ==
  LET result[i \in 0..Len(axes)] ==
        IF i = 0 THEN a ELSE Reduce(result[i - 1], axes[i])
  IN result[Len(axes)]

sum(a, axes) == OverAxes(a, axes, afSum)
sumGrad(a, g) == <<detailTileAs(g, a.dims)>>

afMean(a, d) == overScalar(afSum(a, d), a.dims[d + 1])
mean(a, axes) == OverAxes(a, axes, afMean)
meanGrad(a, g) ==
  LET ratio == [i \in 1..4 |-> a.dims[i] \div g.dims[i]] IN
  <<overScalar(detailTileAs(g, a.dims), Elements(ratio))>>

\* n counts the elements of the axes, and val is 1 / VarDivisor.
VarCount(a, axes) ==
  LET n[i \in 0..Len(axes)] == IF i = 0 THEN 1 ELSE n[i - 1] * a.dims[axes[i] + 1]
  IN n[Len(axes)]
VarDivisor(a, axes, isbiased) ==
  IF isbiased THEN VarCount(a, axes) ELSE VarCount(a, axes) - 1
var(a, axes, isbiased) ==
  LET n == VarCount(a, axes)
      avg == mean(a, axes) IN
  IF ~isbiased /\ n = 1 THEN Failed
  ELSE overScalar(minus(sum(times(a, a), axes), timesScalar(times(avg, avg), n)),
                  VarDivisor(a, axes, isbiased))
varGrad(a, axes, isbiased, g) ==
  LET tiledims == [i \in 1..4 |-> IF \E k \in DOMAIN axes : axes[k] + 1 = i
                                  THEN a.dims[i] ELSE 1] IN
  <<overScalar(timesScalar(times(tile(g, tiledims),
                                 minus(a, tile(mean(a, axes), tiledims))), 2),
               VarDivisor(a, axes, isbiased))>>

------------------------------------------------------------------------------
(* Shapes *)

transposeGrad(g) == <<afTranspose(g)>>
flat(a) == afModdims(a, <<Elements(a.dims), 1, 1, 1>>)

\* 0 takes the size of the input, -1 what is left.  The quotient is negated, as the
\* product of the dims has the sign of the -1.
moddims(a, dims) ==
  LET named == [i \in 1..4 |-> IF dims[i] = 0 THEN a.dims[i] ELSE dims[i]]
      infer == {i \in 1..4 : named[i] = -1}
      left == Elements(a.dims) \div (0 - Elements(named))
      inferred == [i \in 1..4 |-> IF i \in infer THEN left ELSE named[i]] IN
  IF Cardinality(infer) > 1 THEN Failed
  ELSE IF Elements(inferred) # Elements(a.dims) THEN Failed
  ELSE afModdims(a, inferred)
moddimsGrad(a, g) == <<moddims(g, a.dims)>>
flatGrad(a, g) == <<moddims(g, a.dims)>>

reorder(a, p) == afReorder(a, p)
\* dimgrad is sorted by the dimension that each dimension came from.
reorderGrad(p, g) ==
  <<afReorder(g, [i \in 1..4 |-> (CHOOSE k \in 1..4 : p[k] = i - 1) - 1])>>

\* Where input i of a concatenation starts.
ConcatStart(ins, d, i) ==
  MapThenSumSet(LAMBDA k : ins[k].dims[d + 1], 1..(i - 1))
ConcatSlice(ins, d, i, dims) ==
  LET start == ConcatStart(ins, d, i) IN
  [Spans(dims) EXCEPT ![d + 1] = afSeq(start, start + ins[i].dims[d + 1] - 1)]
concatenate(ins, d) ==
  LET dims == [ins[1].dims EXCEPT ![d + 1] = ConcatStart(ins, d, Len(ins) + 1)]
      result[i \in 0..Len(ins)] ==
        IF i = 0 THEN Constant(0, dims)
        ELSE afAssign(result[i - 1], ConcatSlice(ins, d, i, dims), ins[i]) IN
  IF ins = <<>> \/ d \notin 0..3 THEN Failed
  ELSE IF \E i \in DOMAIN ins : \E k \in 1..4 :
            k # d + 1 /\ ins[i].dims[k] # ins[1].dims[k]
  THEN Failed ELSE result[Len(ins)]
concatenateGrad(ins, d, g) ==
  [i \in DOMAIN ins |-> afIndex(g, ConcatSlice(ins, d, i, g.dims))]

\* The index of the part of a split, and the gradient that operator() gives it.
splitSizesOf(dimSize, splitSize) ==
  [i \in 1..(dimSize \div splitSize) |-> splitSize]
  \o IF dimSize % splitSize > 0 THEN <<dimSize % splitSize>> ELSE <<>>
SplitIndex(a, sizes, d, i) ==
  LET start == MapThenSumSet(LAMBDA k : sizes[k], 1..(i - 1)) IN
  [Spans(a.dims) EXCEPT ![d + 1] = afSeq(start, start + sizes[i] - 1)]
split(a, sizes, d) ==
  IF (\E i \in DOMAIN sizes : sizes[i] <= 0)
     \/ MapThenSumSet(LAMBDA k : sizes[k], DOMAIN sizes) # a.dims[d + 1]
  THEN <<>>
  ELSE [i \in DOMAIN sizes |-> afIndex(a, SplitIndex(a, sizes, d, i))]

padIndex(a, pad) ==
  [i \in 1..4 |-> IF i \in DOMAIN pad
                  THEN afSeq(pad[i][1], pad[i][1] + a.dims[i] - 1)
                  ELSE afSeq(0, a.dims[i] - 1)]
padding(a, pad, val) ==
  LET opDims == [i \in 1..4 |-> a.dims[i] + IF i \in DOMAIN pad
                                            THEN pad[i][1] + pad[i][2] ELSE 0] IN
  afAssign(Constant(val, opDims), padIndex(a, pad), a)
paddingGrad(a, pad, g) == <<afIndex(g, padIndex(a, pad))>>

\* Row t of the result is shifted down by t.
relativePositionEmbeddingRotate(a) ==
  LET d0 == a.dims[1]
      d1 == a.dims[2]
      d2 == a.dims[3]
      d3 == a.dims[4]
      joined == afJoin(a, Constant(0, <<d1, d1, d2, d3>>))
      column == afModdims(joined, <<(d0 + d1) * d1, 1, d2, d3>>)
      cut == afIndex(column, [Spans(column.dims) EXCEPT
                                ![1] = afSeq(0, (d1 + d0 - 1) * d1 - 1)]) IN
  afModdims(cut, <<d0 + d1 - 1, d1, d2, d3>>)
rotateGrad(a, g) ==
  LET d0 == a.dims[1]
      d1 == a.dims[2]
      d2 == a.dims[3]
      d3 == a.dims[4]
      column == afModdims(g, <<(d0 + d1 - 1) * d1, 1, d2, d3>>)
      joined == afModdims(afJoin(column, Constant(0, <<d1, 1, d2, d3>>)),
                          <<d0 + d1, d1, d2, d3>>) IN
  <<afIndex(joined, [Spans(joined.dims) EXCEPT ![1] = afSeq(0, d0 - 1)])>>

------------------------------------------------------------------------------
(* Indexing: fl/autograd/Variable.cpp *)

\* gradOutput assigned into zeros: col, cols, row, rows, slice and slices.
ZeroAssign(a, idx, g) == <<afAssign(Constant(0, a.dims), idx, g)>>
row(a, first, last) == [Spans(a.dims) EXCEPT ![1] = afSeq(first, last)]
col(a, first, last) == [Spans(a.dims) EXCEPT ![2] = afSeq(first, last)]
slice(a, first, last) == [Spans(a.dims) EXCEPT ![3] = afSeq(first, last)]

\* The kernel of gradAdvancedIndex: a thread for each element of inp adds it to the
\* element of out it was taken from.
gradAdvancedIndex(g, idxDims, outDims, idx) ==
  LET outIdx(tid) ==
        Place(outDims, [i \in 1..4 |-> idx[i][Coord(idxDims, tid)[i] + 1]]) IN
  [dims |-> outDims,
   at |-> [k \in 1..Elements(outDims) |->
             MapThenSumSet(LAMBDA tid : g.at[tid],
                           {tid \in 1..Elements(idxDims) : outIdx(tid) = k})]]

\* operator(): kinds says which indices are arrays.  An array may select a coordinate
\* several times unless the caller says unique.
\* Mutant: arrays are indexed like sequences.
IndexGradAssigns(a, idx, kinds, unique, g) ==
  <<afAssign(Constant(0, a.dims), idx, g)>>

indexGrad(a, idx, kinds, unique, g) ==
  IF (\A i \in 1..4 : kinds[i] # "array") \/ unique
  THEN <<afAssign(Constant(0, a.dims), idx, g)>>
  ELSE <<gradAdvancedIndex(g, [i \in 1..4 |-> Len(idx[i])], a.dims, idx)>>

\* Each column of the result is the column of embeddings that the input names.
EmbeddingIndex(input, embeddings) ==
  [Spans(embeddings.dims) EXCEPT ![2] = input.at]
embedding(input, embeddings) ==
  IF input.dims[4] > 1 THEN Failed
  ELSE afModdims(afIndex(embeddings, EmbeddingIndex(input, embeddings)),
                 <<embeddings.dims[1], input.dims[1], input.dims[2], input.dims[3]>>)
\* sp has a 1 in row r at the column that input r names.
embeddingGrad(input, w, g) ==
  LET n == Elements(input.dims)
      deltas == afModdims(g, <<w.dims[1], n, 1, 1>>)
      sp == Array(<<n, w.dims[2], 1, 1>>,
                  LAMBDA c : IF input.at[c[1] + 1] = c[2] THEN 1 ELSE 0) IN
  afTranspose(afMatmulTN(sp, afTranspose(deltas)))

------------------------------------------------------------------------------
(* Products *)

matmulGrad(l, r, g) == <<afMatmulNT(g, r), afMatmulTN(l, g)>>
matmulTNGrad(l, r, g) == <<afMatmulNT(r, g), afMatmul(l, g)>>
matmulNTGrad(l, r, g) == <<afMatmul(g, r), afMatmulTN(g, l)>>

\* bias is Failed, which has no elements, for a layer without one.
linear(in, weight, bias) ==
  LET to2d == <<in.dims[1], Elements(in.dims) \div in.dims[1], 1, 1>>
      to4d == [in.dims EXCEPT ![1] = weight.dims[1]]
      output == afModdims(afMatmul(weight, afModdims(in, to2d)), to4d) IN
  IF bias = Failed THEN output
  ELSE plus(output, tile(bias, [to4d EXCEPT ![1] = 1]))
linearGrad(in, wt, bias, g) ==
  LET nframes == Elements(in.dims) \div in.dims[1]
      out == moddims(g, <<wt.dims[1], nframes, 1, 1>>) IN
  <<moddims(afMatmulTN(wt, out), in.dims),
    afMatmulNT(out, moddims(in, <<wt.dims[2], nframes, 1, 1>>)),
    IF bias = Failed THEN Failed ELSE detailSumAs(g, bias.dims)>>

------------------------------------------------------------------------------
(* Cross entropy *)

CrossEntropyDims(in, targets) ==
  (\A i \in 2..4 : in.dims[i] = targets.dims[i - 1]) /\ targets.dims[4] = 1

\* Element (c, i) of a [C, X] array is -x where c is the target of i, and 0 elsewhere.
TargetMask(C, y, x) ==
  Array(<<C, Elements(y.dims), 1, 1>>,
        LAMBDA c : IF y.at[c[2] + 1] = c[1]
                   THEN 0 - x.at[c[1] + 1 + c[2] * C] ELSE 0)

categoricalCrossEntropy(in, targets, reduction, ignoreIndex) ==
  LET C == in.dims[1]
      X == Elements(targets.dims)
      ignoreMask == [i \in 1..X |-> targets.at[i] # ignoreIndex]
      result == Where(flat(afSum(TargetMask(C, targets, in), 0)), ignoreMask, 0)
      denominator == Cardinality({i \in 1..X : ignoreMask[i]}) IN
  IF ~CrossEntropyDims(in, targets) THEN Failed
  ELSE IF \E i \in 1..X : targets.at[i] \notin 0..(C - 1) /\ targets.at[i] # ignoreIndex
  THEN Failed
  ELSE CASE reduction = "NONE" -> afModdims(result, targets.dims)
         [] reduction = "MEAN" -> overScalar(afSum(result, 0), denominator)
         [] reduction = "SUM" -> afSum(result, 0)
categoricalCrossEntropyGrad(in, targets, reduction, ignoreIndex, g) ==
  LET C == in.dims[1]
      X == Elements(targets.dims)
      ignoreMask == [i \in 1..X |-> targets.at[i] # ignoreIndex]
      denominator == Cardinality({i \in 1..X : ignoreMask[i]})
      each == CASE reduction = "NONE" -> afModdims(g, <<X, 1, 1, 1>>)
                [] reduction = "MEAN" -> tile(overScalar(g, denominator), <<X, 1, 1, 1>>)
                [] reduction = "SUM" -> tile(g, <<X, 1, 1, 1>>)
      grad == afModdims(Where(each, ignoreMask, 0), <<1, X, 1, 1>>) IN
  <<afModdims(TargetMask(C, targets, tile(grad, <<C, 1, 1, 1>>)), in.dims)>>

\* weight is an array of C elements.  The denominator counts ignored targets too.
WeightSum(C, targets, weight) ==
  MapThenSumSet(LAMBDA i : weight.at[targets.at[i] + 1], DOMAIN targets.at)
ByWeight(a, weight) ==
  [a EXCEPT !.at = [k \in DOMAIN a.at |->
                      a.at[k] * weight.at[((k - 1) % weight.dims[1]) + 1]]]

weightedCategoricalCrossEntropy(in, targets, weight, ignoreIndex) ==
  LET C == in.dims[1]
      X == Elements(targets.dims)
      ignoreMask == [i \in 1..X |-> targets.at[i] # ignoreIndex]
      result == Where(afSum(ByWeight(TargetMask(C, targets, in), weight), 0),
                      ignoreMask, 0) IN
  IF ~CrossEntropyDims(in, targets) \/ weight.dims[1] # C THEN Failed
  ELSE IF \E i \in 1..X : targets.at[i] \notin 0..(C - 1) THEN Failed
  ELSE overScalar(afSum(result, 1), WeightSum(C, targets, weight))
weightedCategoricalCrossEntropyGrad(in, targets, weight, ignoreIndex, g) ==
  LET C == in.dims[1]
      X == Elements(targets.dims)
      ignoreMask == [i \in 1..X |-> targets.at[i] # ignoreIndex]
      each == Where(tile(overScalar(g, WeightSum(C, targets, weight)), <<1, X, 1, 1>>),
                    ignoreMask, 0)
      grad == TargetMask(C, targets, tile(each, <<C, 1, 1, 1>>)) IN
  <<ByWeight(afModdims(grad, in.dims), weight)>>

------------------------------------------------------------------------------
(* Attention: multiheadAttention up to its softmax, and Transformer.cpp *)

NegInfinity == -1000000

\* Scores are multiplied by sqrt(headDim) in place of dividing q by it; the masks,
\* which are 0 or -inf, are not changed by that.
AttentionScores(query, key, posEmb, mask, padMask, nHeads, offset) ==
  LET bsz == query.dims[3]
      headDim == query.dims[2] \div nHeads
      q == moddims(query, <<-1, headDim, nHeads * bsz, 1>>)
      k == moddims(key, <<-1, headDim, nHeads * bsz, 1>>)
      n == (posEmb.dims[1] \div 2) - offset
      positions == relativePositionEmbeddingRotate(afMatmulNT(posEmb, q))
      rows == afIndex(positions, row(positions, n, n + k.dims[1] - 1))
      T == padMask.dims[1]
      padTile == detailTileAs(moddims(padMask, <<1, T, 1, bsz>>), <<T, T, nHeads, bsz>>)
      scores == afMatmulNT(q, k)
      placed == IF posEmb = Failed THEN scores ELSE plus(scores, afTranspose(rows))
      masked == IF mask = Failed THEN placed
                ELSE plus(placed, detailTileAs(mask, placed.dims)) IN
  IF padMask = Failed THEN masked
  ELSE IF T # query.dims[1] THEN Failed
  ELSE plus(masked, moddims(padTile, <<T, T, nHeads * bsz, 1>>))

\* Mutant: also the current position is hidden.
GetMaskStrict(n, cache) ==
  Array(<<n, IF cache THEN 2 * n ELSE n, 1, 1>>,
        LAMBDA c : LET j == IF cache THEN c[2] - n ELSE c[2] IN
                   IF j < 0 THEN IF c[2] >= c[1] THEN 0 ELSE NegInfinity
                   ELSE IF j < c[1] THEN 0 ELSE NegInfinity)

\* The lower triangle, after the upper one for the previous state.
getMask(n, cache) ==
  Array(<<n, IF cache THEN 2 * n ELSE n, 1, 1>>,
        LAMBDA c : LET j == IF cache THEN c[2] - n ELSE c[2] IN
                   IF j < 0 THEN IF c[2] >= c[1] THEN 0 ELSE NegInfinity
                   ELSE IF j <= c[1] THEN 0 ELSE NegInfinity)

\* The scores of selfAttention.  previous is Failed without a previous state, posEmb
\* without positions (bptt_ is 0); a padMask has the size of the input.
selfAttention(previous, input, padMask, wq, wk, posEmb, useMask, nHeads) ==
  LET states == IF previous = Failed THEN <<input>> ELSE <<previous, input>>
      n == states[1].dims[2]
      bsz == states[1].dims[3]
      q == afTranspose(linear(input, wq, Failed))
      k == afTranspose(linear(concatenate(states, 1), wk, Failed))
      positions == IF posEmb = Failed THEN Failed
                   ELSE tile(posEmb, <<1, 1, nHeads * bsz, 1>>)
      mask == IF useMask /\ input.dims[2] > 1 THEN getMask(n, previous # Failed)
              ELSE Failed IN
  AttentionScores(q, k, positions, mask, padMask, nHeads,
                  IF previous = Failed THEN 0 ELSE n)

------------------------------------------------------------------------------
(* Calls *)

VARIABLES fnCall,   \* a function with its inputs and other arguments
          gradOut,  \* the gradient its result got
          grads     \* what its gradFunc gave to each of the inputs

functionVars == <<fnCall, gradOut, grads>>

NoGrads == <<>>

\* What a call c returns for the inputs in.
Forward(c, in) ==
  CASE c.fn = "plus" -> plus(in[1], in[2])
    [] c.fn = "minus" -> minus(in[1], in[2])
    [] c.fn = "times" -> times(in[1], in[2])
    [] c.fn = "scalars" ->
         scalarMinus(c.arg, overScalar(timesScalar(negate(in[1]), c.arg), 2))
    [] c.fn = "max" -> maxOf(in[1], in[2])
    [] c.fn = "min" -> minOf(in[1], in[2])
    [] c.fn = "maxScalar" -> maxScalar(in[1], c.arg)
    [] c.fn = "minScalar" -> minScalar(in[1], c.arg)
    [] c.fn = "clamp" -> clamp(in[1], c.arg[1], c.arg[2])
    [] c.fn = "abs" -> abs(in[1])
    [] c.fn = "transpose" -> afTranspose(in[1])
    [] c.fn = "tileAs" -> detailTileAs(in[1], c.arg)
    [] c.fn = "sumAs" -> detailSumAs(in[1], c.arg)
    [] c.fn = "tile" -> tile(in[1], c.arg)
    [] c.fn = "sum" -> sum(in[1], c.arg)
    [] c.fn = "mean" -> mean(in[1], c.arg)
    [] c.fn = "var" -> var(in[1], c.arg[1], c.arg[2])
    [] c.fn = "flat" -> flat(in[1])
    [] c.fn = "moddims" -> moddims(in[1], c.arg)
    [] c.fn = "reorder" -> reorder(in[1], c.arg)
    [] c.fn = "concatenate" -> concatenate(in, c.arg)
    [] c.fn = "split" -> LET parts == split(in[1], c.arg.sizes, c.arg.dim) IN
                         IF parts = <<>> THEN Failed ELSE parts[c.arg.part]
    [] c.fn = "padding" -> padding(in[1], c.arg, Unit)
    [] c.fn = "rotate" -> relativePositionEmbeddingRotate(in[1])
    [] c.fn \in {"rows", "cols", "slices", "index"} -> afIndex(in[1], c.arg.idx)
    [] c.fn = "embedding" -> embedding(c.arg, in[1])
    [] c.fn = "matmul" -> afMatmul(in[1], in[2])
    [] c.fn = "matmulTN" -> afMatmulTN(in[1], in[2])
    [] c.fn = "matmulNT" -> afMatmulNT(in[1], in[2])
    [] c.fn = "linear" -> linear(in[1], in[2], IF Len(in) = 3 THEN in[3] ELSE Failed)
    [] c.fn = "crossEntropy" ->
         categoricalCrossEntropy(in[1], c.arg.targets, c.arg.reduction, c.arg.ignore)
    [] c.fn = "weightedCrossEntropy" ->
         weightedCategoricalCrossEntropy(in[1], c.arg.targets, c.arg.weight, c.arg.ignore)

\* What the gradFunc of c does with gradOutput g.
Backward(c, in, g) ==
  CASE c.fn = "plus" -> <<g, g>>
    [] c.fn = "minus" -> <<g, negate(g)>>
    [] c.fn = "times" -> <<times(g, in[2]), times(g, in[1])>>
    [] c.fn = "scalars" -> <<negate(timesScalar(overScalar(negate(g), 2), c.arg))>>
    [] c.fn = "max" -> maxGrad(in[1], in[2], g)
    [] c.fn = "min" -> minGrad(in[1], in[2], g)
    [] c.fn = "maxScalar" -> maxScalarGrad(in[1], c.arg, g)
    [] c.fn = "minScalar" -> minScalarGrad(in[1], c.arg, g)
    [] c.fn = "clamp" -> clampGrad(in[1], c.arg[1], c.arg[2], g)
    [] c.fn = "abs" -> absGrad(in[1], g)
    [] c.fn = "transpose" -> transposeGrad(g)
    [] c.fn = "tileAs" -> tileAsGrad(in[1], g)
    [] c.fn = "sumAs" -> sumAsGrad(in[1], g)
    [] c.fn = "tile" -> tileGrad(in[1], g)
    [] c.fn = "sum" -> sumGrad(in[1], g)
    [] c.fn = "mean" -> meanGrad(in[1], g)
    [] c.fn = "var" -> varGrad(in[1], c.arg[1], c.arg[2], g)
    [] c.fn = "flat" -> flatGrad(in[1], g)
    [] c.fn = "moddims" -> moddimsGrad(in[1], g)
    [] c.fn = "reorder" -> reorderGrad(c.arg, g)
    [] c.fn = "concatenate" -> concatenateGrad(in, c.arg, g)
    [] c.fn = "split" ->
         indexGrad(in[1], SplitIndex(in[1], c.arg.sizes, c.arg.dim, c.arg.part),
                   <<"seq", "seq", "seq", "seq">>, FALSE, g)
    [] c.fn = "padding" -> paddingGrad(in[1], c.arg, g)
    [] c.fn = "rotate" -> rotateGrad(in[1], g)
    [] c.fn \in {"rows", "cols", "slices"} -> ZeroAssign(in[1], c.arg.idx, g)
    [] c.fn = "index" -> indexGrad(in[1], c.arg.idx, c.arg.kinds, c.arg.unique, g)
    [] c.fn = "embedding" -> <<embeddingGrad(c.arg, in[1], g)>>
    [] c.fn = "matmul" -> matmulGrad(in[1], in[2], g)
    [] c.fn = "matmulTN" -> matmulTNGrad(in[1], in[2], g)
    [] c.fn = "matmulNT" -> matmulNTGrad(in[1], in[2], g)
    [] c.fn = "linear" -> linearGrad(in[1], in[2], IF Len(in) = 3 THEN in[3] ELSE Failed, g)
    [] c.fn = "crossEntropy" ->
         categoricalCrossEntropyGrad(in[1], c.arg.targets, c.arg.reduction,
                                     c.arg.ignore, g)
    [] c.fn = "weightedCrossEntropy" ->
         weightedCategoricalCrossEntropyGrad(in[1], c.arg.targets, c.arg.weight,
                                             c.arg.ignore, g)

OneHot(dims, k) == [dims |-> dims, at |-> [i \in 1..Elements(dims) |->
                                             IF i = k THEN Unit ELSE 0]]

CallsFunction(c) == fnCall = c /\ gradOut = Failed /\ grads = NoGrads

\* The result of the call gets a gradient in one of its elements.
CallGradFunc ==
  /\ fnCall # NoGrads /\ fnCall.fn # "attention" /\ grads = NoGrads
  /\ \E result \in {Forward(fnCall, fnCall.in)} :
       /\ result # Failed
       /\ \E k \in 1..Elements(result.dims) :
            /\ gradOut' = OneHot(result.dims, k)
            /\ grads' = Backward(fnCall, fnCall.in, gradOut')
  /\ UNCHANGED fnCall

\* The scores of selfAttention are kept in place of gradients.
Attend ==
  /\ fnCall # NoGrads /\ fnCall.fn = "attention" /\ grads = NoGrads
  /\ grads' = <<selfAttention(fnCall.previous, fnCall.input, fnCall.padMask, fnCall.wq,
                              fnCall.wk, fnCall.posEmb, fnCall.useMask, fnCall.nHeads)>>
  /\ UNCHANGED <<fnCall, gradOut>>

FunctionStep == CallGradFunc \/ Attend

------------------------------------------------------------------------------
(* Properties *)

\* The inputs with element e of input i moved by h.
Moved(in, i, e, h) == [in EXCEPT ![i].at[e] = @ + h]

PiecewiseLinear == {"max", "min", "maxScalar", "minScalar", "clamp", "abs"}

\* tile and tileAs can repeat a dimension that has more than one element; their
\* gradients then throw.
RepeatsElements(c) ==
  c.fn \in {"tile", "tileAs"}
  /\ LET in == c.in[1].dims
         out == Forward(c, c.in).dims IN
     \E i \in 1..4 : in[i] > 1 /\ out[i] # in[i]

\* A gradFunc gives every input an array of the dims of the input, and in each element
\* the derivative of the element of the result that got the gradient: the difference
\* quotient, which is exact for a polynomial of degree two, and for a function with kinks
\* the slope of one side.
GradientsAreExact ==
  (grads # NoGrads /\ fnCall.fn # "attention" /\ ~RepeatsElements(fnCall)) =>
    LET in == fnCall.in
        k == CHOOSE j \in DOMAIN gradOut.at : gradOut.at[j] # 0
        Out(i, e, h) == Forward(fnCall, Moved(in, i, e, h)).at[k] IN
    \A i \in DOMAIN in :
      /\ grads[i].dims = in[i].dims
      /\ \A e \in DOMAIN in[i].at :
           IF fnCall.fn \in PiecewiseLinear
           THEN LET right == Out(i, e, Unit) - Out(i, e, 0)
                    left == Out(i, e, 0) - Out(i, e, 0 - Unit) IN
                grads[i].at[e] \in {right, left}
           ELSE Out(i, e, Unit) - Out(i, e, 0 - Unit) = 2 * grads[i].at[e]

\* The score of a key for a query is the product of the query with the key and with the
\* embedding of the distance between their positions, of the same head and utterance;
\* distances beyond bptt_ have no embedding.  A query sees no padding and with a mask no
\* later position, but itself and as many positions before it as the state has.
AttentionIsRelative ==
  (grads # NoGrads /\ fnCall.fn = "attention") =>
    LET c == fnCall
        T == c.input.dims[2]
        n == IF c.previous = Failed THEN 0 ELSE c.previous.dims[2]
        headDim == c.wq.dims[1] \div c.nHeads
        bptt == (c.posEmb.dims[1] + 1) \div 2
        State(ch, j, b) == IF j < n THEN At(c.previous, <<ch, j, b, 0>>)
                           ELSE At(c.input, <<ch, j - n, b, 0>>)
        Project(w, f, j, b) ==
          MapThenSumSet(LAMBDA ch : At(w, <<f, ch, 0, 0>>) * State(ch, j, b),
                        0..(w.dims[2] - 1))
        Distance(delta, d) ==
          IF c.posEmb = Failed \/ delta \notin (1 - bptt)..(bptt - 1) THEN 0
          ELSE At(c.posEmb, <<bptt - 1 + delta, d, 0, 0>>)
        Hidden(i, j, b) ==
          \/ c.useMask /\ T > 1 /\ (j > n + i \/ (n > 0 /\ j < i))
          \/ c.padMask # Failed /\ At(c.padMask, <<j, b, 0, 0>>) # 0 IN
    \A i \in 0..(T - 1), j \in 0..(n + T - 1), h \in 0..(c.nHeads - 1),
       b \in 0..(c.input.dims[3] - 1) :
      LET score == At(grads[1], <<i, j, h + c.nHeads * b, 0>>) IN
      IF Hidden(i, j, b) THEN score < NegInfinity \div 2
      ELSE score = MapThenSumSet(
             LAMBDA d : Project(c.wq, h * headDim + d, n + i, b)
                        * (Project(c.wk, h * headDim + d, j, b)
                           + Distance(j - n - i, d)),
             0..(headDim - 1))

==============================================================================
