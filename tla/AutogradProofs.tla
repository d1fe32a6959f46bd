---------------------------- MODULE AutogradProofs ---------------------------
(***************************************************************************)
(* Proofs about the backward pass, for any number of variables, any types  *)
(* and any number of calls.                                                *)
(*                                                                         *)
(* build is shown to list the variables below its argument in an order     *)
(* that has every variable after its inputs (BuildLists).  So when a       *)
(* variable is visited, all that use it have been, its gradient is         *)
(* complete (GradComplete), and no later visit changes it.  Between two    *)
(* visits the gradient of u is what it was before the pass and what the    *)
(* visited variables have passed on, each as often as u is an input of it  *)
(* and times the derivative by it (GradsInv).  The derivative is the sum   *)
(* of these over all variables (DerivSum), which is what is left when the  *)
(* list is empty.                                                          *)
(*                                                                         *)
(* recurse of build and paths of Derivative are recursive functions.  What *)
(* they compute is shown for a least, or greatest, variable for which it   *)
(* would be wrong.                                                         *)
(***************************************************************************)
EXTENDS Autograd, FiniteSums

------------------------------------------------------------------------------
(* The graph *)

\* What a variable can be made by.
Ops == {"none", "sum", "product", "index", "as"}

NodeType == [calcGrad : BOOLEAN, type : Types, op : Ops, inputs : Seq(Nat),
             kept : SUBSET (1..2), grad : Nat, hook : BOOLEAN]

\* Inputs were made before what is made from them.
Inputs(ns, v) ==
  /\ ns[v].inputs \in Seq(1..(v - 1))
  /\ Len(ns[v].inputs) \in 0..2

\* A variable's operation, its gradient and its inputs fit.
Sound(ns, v) ==
  /\ ns[v].op # "none" \/ ns[v].grad # 0 => ns[v].calcGrad
  /\ ns[v].inputs # <<>> => ns[v].op # "none"
  /\ ns[v].op = "product" => Len(ns[v].inputs) \in {0, 2}
  /\ ns[v].op # "as" =>
       \A k \in 1..Len(ns[v].inputs) : ns[ns[v].inputs[k]].type = ns[v].type

\* A graph of variables, made one after the other.
IsGraph(ns) ==
  /\ ns \in Seq(NodeType)
  /\ \A v \in DOMAIN ns : Inputs(ns, v) /\ Sound(ns, v)

\* The variables of d are different and come after their inputs.
IsOrder(ns, d, r) ==
  /\ d \in Seq(1..r)
  /\ \A j, k \in 1..Len(d) : d[j] = d[k] => j = k
  /\ \A k \in 1..Len(d) : \A w \in Range(ns[d[k]].inputs) :
       \E j \in 1..(k - 1) : d[j] = w

\* How often u is an input of c.
Times(ns, c, u) == Cardinality({k \in DOMAIN ns[c].inputs : ns[c].inputs[k] = u})

------------------------------------------------------------------------------
(* What build computes *)

\* The loop of recurse(u) over the inputs of u, where R is recurse.
BelowFn(R, u, seen) ==
  CHOOSE b : b = [k \in 0..Len(nodes[u].inputs) |->
                    IF k = 0 THEN seen ELSE R[nodes[u].inputs[k]][b[k - 1]]]

Into(R, u, v) ==
  [seen \in Seq(1..v) |->
     IF u \in Range(seen) THEN seen
     ELSE Append(BelowFn(R, u, seen)[Len(nodes[u].inputs)], u)]

IsRecurse(R, n, v) == R = [u \in 1..n |-> Into(R, u, v)]

\* The loop over at most two inputs.
After(R, u, seen) ==
  LET ins == nodes[u].inputs
  IN  IF Len(ins) = 0 THEN seen
      ELSE IF Len(ins) = 1 THEN R[ins[1]][seen]
      ELSE R[ins[2]][R[ins[1]][seen]]

Listed(R, u, v) ==
  [seen \in Seq(1..v) |->
     IF u \in Range(seen) THEN seen ELSE Append(After(R, u, seen), u)]

AgreeBelow(R, S, u) == \A w \in 1..(u - 1) : R[w] = S[w]

\* t lists what is below the variables of S and is not in seen, after seen.
Extends(t, seen, v, S) ==
  /\ IsOrder(nodes, t, v)
  /\ Len(seen) <= Len(t)
  /\ \A k \in 1..Len(seen) : t[k] = seen[k]
  /\ \A k \in (Len(seen) + 1)..Len(t) :
       \/ t[k] \in S
       \/ \E j \in (k + 1)..Len(t) : t[k] \in Range(nodes[t[j]].inputs)

NewBelow(t, seen, n) == \A k \in (Len(seen) + 1)..Len(t) : t[k] \in 1..n

Result(t, seen, u, v) ==
  Extends(t, seen, v, {u}) /\ NewBelow(t, seen, u) /\ u \in Range(t)

\* recurse(u), called with any list seen that is in order.
Lists(R, u, v) ==
  \A seen : IsOrder(nodes, seen, v) => Result(R[u][seen], seen, u, v)

\* Every variable of t but the last is an input of a later one.
Ends(t, v) ==
  /\ Len(t) \in Nat \ {0} /\ t[Len(t)] = v
  /\ \A k \in 1..Len(t) : k = Len(t) \/
       \E j \in (k + 1)..Len(t) : t[k] \in Range(nodes[t[j]].inputs)

\* build lists the variables below its argument, each once, after its inputs,
\* and before a variable that needs it (Variable::build).
LEMMA BuildLists ==
  IsGraph(nodes) => \A v \in Vars : IsOrder(nodes, build(v), v) /\ Ends(build(v), v)
\* build, as the function that recurse is.
<1>BuildIs.
    ASSUME NEW v
    PROVE  build(v) = (CHOOSE R : IsRecurse(R, v, v))[v][<<>>]
  BY Zenon DEF build, IsRecurse, Into, BelowFn
\* The loop of recurse over at most two inputs.
<1>BelowIs.
    ASSUME NEW R, NEW u, NEW seen, Len(nodes[u].inputs) \in 0..2
    PROVE  BelowFn(R, u, seen)[Len(nodes[u].inputs)] = After(R, u, seen)
  <2> USE <1>BelowIs
  <2> DEFINE ins == nodes[u].inputs
             n == Len(ins)
             IsBelow(b) == b = [k \in 0..n |->
                                  IF k = 0 THEN seen ELSE R[ins[k]][b[k - 1]]]
             x1 == R[ins[1]][seen]
             x2 == R[ins[2]][x1]
             w == [k \in 0..n |-> IF k = 0 THEN seen ELSE IF k = 1 THEN x1 ELSE x2]
  <2>1. BelowFn(R, u, seen) = CHOOSE b : IsBelow(b)
    BY Zenon DEF BelowFn
  <2>2. IsBelow(w)
    <3> HIDE DEF x1, x2
    <3>1. ASSUME NEW k \in 0..n PROVE w[k] = IF k = 0 THEN seen ELSE R[ins[k]][w[k - 1]]
      <4>1. CASE k = 0
        BY <4>1
      <4>2. CASE k = 1
        BY <4>2 DEF x1
      <4>3. CASE k = 2
        BY <4>3 DEF x2
      <4>4. n \in 0..2 /\ k \in 0..n
        BY Zenon
      <4> HIDE DEF n
      <4>5. k = 0 \/ k = 1 \/ k = 2
        BY <4>4
      <4> HIDE DEF w
      <4> QED
        BY <4>1, <4>2, <4>3, <4>5, Zenon
    <3> QED
      BY <3>1, Zenon
  <2>3. IsBelow(BelowFn(R, u, seen))
    <3> HIDE DEF IsBelow, w
    <3> QED
      BY <2>1, <2>2, Zenon
  <2> DEFINE b == BelowFn(R, u, seen)
  <2>4. b = [k \in 0..n |-> IF k = 0 THEN seen ELSE R[ins[k]][b[k - 1]]]
    BY <2>3, Zenon
  <2> HIDE DEF b
  <2>5. b[0] = seen
    BY <2>4
  <2>6. \A k \in 0..n : k # 0 => b[k] = R[ins[k]][b[k - 1]]
    BY <2>4, Zenon
  <2>7. 1 # 0 /\ 2 # 0 /\ 2 # 1 /\ 1 - 1 = 0 /\ 2 - 1 = 1
    OBVIOUS
  <2>8. CASE n = 0
    <3>1. After(R, u, seen) = seen
      BY <2>8, Zenon DEF After
    <3> QED
      BY <3>1, <2>5, <2>8, Zenon DEF b
  <2>9. CASE n = 1
    <3>1. 1 \in 0..n
      <4> HIDE DEF n
      <4> QED
        BY <2>9
    <3>2. b[1] = R[ins[1]][seen]
      BY <3>1, <2>5, <2>6, <2>7, Zenon
    <3>3. After(R, u, seen) = R[ins[1]][seen]
      BY <2>7, <2>9, Zenon DEF After
    <3> QED
      BY <3>2, <3>3, <2>9, Zenon DEF b
  <2>10. CASE n = 2
    <3>1. 1 \in 0..n /\ 2 \in 0..n
      <4> HIDE DEF n
      <4> QED
        BY <2>10
    <3>2. b[2] = R[ins[2]][R[ins[1]][seen]]
      BY <3>1, <2>5, <2>6, <2>7, Zenon
    <3>3. After(R, u, seen) = R[ins[2]][R[ins[1]][seen]]
      BY <2>7, <2>10, Zenon DEF After
    <3> QED
      BY <3>2, <3>3, <2>10, Zenon DEF b
  <2>11. n = 0 \/ n = 1 \/ n = 2
    <3>1. n \in 0..2
      BY Zenon
    <3> HIDE DEF n
    <3> QED
      BY <3>1
  <2> QED
    BY <2>8, <2>9, <2>10, <2>11, Zenon
\* One level of recurse.
<1>IntoIs.
    ASSUME NEW R, NEW u, NEW v, Len(nodes[u].inputs) \in 0..2
    PROVE  Into(R, u, v) = Listed(R, u, v)
  BY <1>IntoIs, <1>BelowIs, Zenon DEF Into, Listed
\* recurse(u) depends on recurse of earlier variables only.
<1>IntoAgree.
    ASSUME NEW R, NEW S, NEW v, NEW u \in Nat, Inputs(nodes, u), AgreeBelow(R, S, u)
    PROVE  Into(R, u, v) = Into(S, u, v)
  <2> USE <1>IntoAgree
  <2>1. nodes[u].inputs \in Seq(1..(u - 1)) /\ Len(nodes[u].inputs) \in 0..2
    BY Zenon DEF Inputs
  <2>2. ASSUME NEW seen PROVE After(R, u, seen) = After(S, u, seen)
    <3> DEFINE ins == nodes[u].inputs
    <3>1. \A k \in 1..Len(ins) : ins[k] \in 1..(u - 1)
      BY <2>1
    <3>2. \A k \in 1..Len(ins) : R[ins[k]] = S[ins[k]]
      BY <3>1, Zenon DEF AgreeBelow
    <3>3. Len(ins) # 0 => R[ins[1]] = S[ins[1]]
      BY <2>1, <3>2
    <3>4. Len(ins) # 0 /\ Len(ins) # 1 => R[ins[2]] = S[ins[2]]
      BY <2>1, <3>2
    <3> QED
      BY <3>3, <3>4, Zenon DEF After
  <2>3. Listed(R, u, v) = Listed(S, u, v)
    BY <2>2, Zenon DEF Listed
  <2>4. Into(R, u, v) = Listed(R, u, v) /\ Into(S, u, v) = Listed(S, u, v)
    BY <2>1, <1>IntoIs, Zenon
  <2> QED
    BY <2>3, <2>4, Zenon
\* recurse is defined, since the inputs of a variable were made before it: a
\* least variable for which it would not be has recurse for all earlier ones.
<1>RecurseExists.
    ASSUME NEW v \in Nat, \A u \in 1..v : Inputs(nodes, u)
    PROVE  \E R : IsRecurse(R, v, v)
  <2> USE <1>RecurseExists
  <2> DEFINE P(n) == \E R : IsRecurse(R, n, v)
             Bad == {n \in 0..v : ~P(n)}
  <2> SUFFICES ASSUME Bad # {} PROVE FALSE
    <3>1. v \in 0..v
      OBVIOUS
    <3> QED
      BY <3>1, Zenon
  <2>1. PICK n \in Bad : \A m \in Bad : n <= m
    <3>1. Bad \in SUBSET Nat
      OBVIOUS
    <3> HIDE DEF Bad
    <3> QED
      BY <3>1, LeastNat, Zenon
  <2>2. n \in 0..v /\ ~P(n)
    BY Zenon
  <2>3. n # 0
    <3> DEFINE R == [u \in 1..0 |-> u]
    <3>1. \A u \in 1..0 : FALSE
      OBVIOUS
    <3>2. R = [u \in 1..0 |-> Into(R, u, v)]
      <4>1. \A u \in 1..0 : R[u] = Into(R, u, v)
        BY <3>1, Zenon
      <4> QED
        BY <4>1, Zenon
    <3>3. P(0)
      BY <3>2, Zenon DEF IsRecurse
    <3> QED
      BY <2>2, <3>3, Zenon
  <2>4. n - 1 \in 0..v /\ n - 1 \notin Bad
    <3>1. n - 1 \in 0..v /\ ~ (n <= n - 1)
      BY <2>2, <2>3
    <3> QED
      BY <2>1, <3>1, Zenon
  <2>5. PICK R : IsRecurse(R, n - 1, v)
    BY <2>4, Zenon
  <2> DEFINE S == [u \in 1..n |-> IF u < n THEN R[u] ELSE Into(R, n, v)]
  <2>6. \A u \in 1..(n - 1) : R[u] = S[u] /\ R[u] = Into(R, u, v)
    <3>1. ASSUME NEW u \in 1..(n - 1) PROVE R[u] = S[u]
      <4>1. u \in 1..n /\ u < n
        BY <2>2
      <4> QED
        BY <4>1, Zenon
    <3>2. \A u \in 1..(n - 1) : R[u] = Into(R, u, v)
      BY <2>5, Zenon DEF IsRecurse
    <3> QED
      BY <3>1, <3>2, Zenon
  <2>7. ASSUME NEW u \in 1..n PROVE S[u] = Into(S, u, v)
    <3>1. u \in Nat /\ u \in 1..v /\ \A w \in 1..(u - 1) : w \in 1..(n - 1)
      BY <2>2
    <3>2. AgreeBelow(R, S, u)
      BY <3>1, <2>6, Zenon DEF AgreeBelow
    <3>3. Inputs(nodes, u)
      BY <3>1, Zenon
    <3>4. Into(R, u, v) = Into(S, u, v)
      <4> HIDE DEF S
      <4> QED
        BY <3>1, <3>2, <3>3, <1>IntoAgree
    <3>5. CASE u = n
      <4>1. ~ (n < n) /\ n \in 1..n
        BY <2>2, <2>3
      <4>2. S[n] = Into(R, n, v)
        BY <4>1, Zenon
      <4> QED
        BY <4>2, <3>4, <3>5, Zenon
    <3>6. CASE u # n
      <4>1. u \in 1..(n - 1)
        BY <2>2, <3>6
      <4> QED
        BY <4>1, <3>4, <2>6, Zenon
    <3> QED
      BY <3>5, <3>6, Zenon
  <2>8. S = [u \in 1..n |-> Into(S, u, v)]
    BY <2>7, Zenon
  <2> QED
    BY <2>2, <2>8, Zenon DEF IsRecurse
\* build returns what recurse gives for its argument.
<1>BuildRecurses.
    ASSUME NEW v \in Nat, v # 0, \A u \in 1..v : Inputs(nodes, u)
    PROVE  \E R : IsRecurse(R, v, v) /\ build(v) = R[v][<<>>]
  BY <1>BuildRecurses, <1>RecurseExists, <1>BuildIs, Zenon
\* A list extends itself.
<1>ExtendsSelf.
    ASSUME NEW v, NEW seen, IsOrder(nodes, seen, v), NEW S, NEW n
    PROVE  Extends(seen, seen, v, S) /\ NewBelow(seen, seen, n)
  <2> USE <1>ExtendsSelf
  <2>1. Len(seen) \in Nat
    BY DEF IsOrder
  <2>2. Len(seen) <= Len(seen) /\ \A k \in (Len(seen) + 1)..Len(seen) : FALSE
    BY <2>1
  <2> QED
    BY <2>2, Zenon DEF Extends, NewBelow
\* recurse of an input extends the list further.
<1>ExtendsMore.
    ASSUME NEW v, NEW seen, IsOrder(nodes, seen, v),
           NEW S, NEW n \in Nat, NEW s, Extends(s, seen, v, S), NewBelow(s, seen, n),
           NEW w \in S, w \in 1..n, NEW t, Result(t, s, w, v)
    PROVE  /\ Extends(t, seen, v, S) /\ NewBelow(t, seen, n)
           /\ w \in Range(t) /\ Range(s) \subseteq Range(t)
  <2> USE <1>ExtendsMore
  <2> DEFINE a == Len(seen)
             b == Len(s)
             c == Len(t)
  <2>1. seen \in Seq(1..v) /\ s \in Seq(1..v) /\ t \in Seq(1..v)
    BY Zenon DEF Result, Extends, IsOrder
  <2>2. a \in Nat /\ b \in Nat /\ c \in Nat /\ a <= b /\ b <= c
    <3>1. a <= b /\ b <= c
      BY Zenon DEF Result, Extends
    <3> QED
      BY <2>1, <3>1
  <2>3. (\A k \in 1..a : s[k] = seen[k]) /\ (\A k \in 1..b : t[k] = s[k])
    BY Zenon DEF Result, Extends
  <2>4. \A k \in 1..a : t[k] = seen[k]
    <3>1. \A k \in 1..a : k \in 1..b
      BY <2>2
    <3> QED
      BY <3>1, <2>3, Zenon
  <2>5. ASSUME NEW k \in (a + 1)..c
        PROVE  /\ t[k] \in 1..n
               /\ \/ t[k] \in S
                  \/ \E j \in (k + 1)..c : t[k] \in Range(nodes[t[j]].inputs)
    <3>1. CASE k <= b
      <4>1. k \in (a + 1)..b /\ k \in 1..b /\ \A j \in (k + 1)..b : j \in (k + 1)..c /\ j \in 1..b
        BY <3>1, <2>2
      <4>2. t[k] = s[k] /\ \A j \in (k + 1)..b : t[j] = s[j]
        BY <4>1, <2>3, Zenon
      <4>3. s[k] \in 1..n
        BY <4>1, Zenon DEF NewBelow
      <4>4. s[k] \in S \/ \E j \in (k + 1)..b : s[k] \in Range(nodes[s[j]].inputs)
        BY <4>1, Zenon DEF Extends
      <4>5. ASSUME NEW j \in (k + 1)..b, s[k] \in Range(nodes[s[j]].inputs)
            PROVE  j \in (k + 1)..c /\ t[k] \in Range(nodes[t[j]].inputs)
        BY <4>1, <4>2, <4>5, Zenon
      <4> QED
        BY <4>2, <4>3, <4>4, <4>5, Zenon
    <3>2. CASE b < k
      <4>1. k \in (b + 1)..c
        BY <3>2, <2>2
      <4>2. t[k] \in 1..w
        BY <4>1, Zenon DEF Result, NewBelow
      <4>3. t[k] = w \/ \E j \in (k + 1)..c : t[k] \in Range(nodes[t[j]].inputs)
        BY <4>1, Zenon DEF Result, Extends
      <4>4. t[k] \in 1..n
        BY <4>2
      <4> QED
        BY <4>3, <4>4, Zenon
    <3> QED
      BY <3>1, <3>2, <2>2
  <2>6. Range(s) \subseteq Range(t)
    <3>1. DOMAIN s = 1..b /\ DOMAIN t = 1..c /\ \A k \in 1..b : k \in 1..c
      BY <2>1, <2>2
    <3> QED
      BY <3>1, <2>3, Zenon DEF Range
  <2>7. IsOrder(nodes, t, v) /\ w \in Range(t)
    BY Zenon DEF Result, Extends
  <2>8. a <= c
    BY <2>2
  <2> QED
    BY <2>4, <2>5, <2>6, <2>7, <2>8, Zenon DEF Extends, NewBelow
\* recurse ends with the variable itself, after its inputs.
<1>ExtendsAppend.
    ASSUME NEW v \in Nat, NEW u \in 1..v, NEW seen, IsOrder(nodes, seen, v),
           u \notin Range(seen), NEW s, Extends(s, seen, v, Range(nodes[u].inputs)),
           NewBelow(s, seen, u - 1), Range(nodes[u].inputs) \subseteq Range(s),
           NEW t, t = Append(s, u)
    PROVE  Result(t, seen, u, v) /\ Len(t) \in Nat \ {0} /\ t[Len(t)] = u
  <2> USE <1>ExtendsAppend
  <2> DEFINE a == Len(seen)
             b == Len(s)
  <2>1. seen \in Seq(1..v) /\ s \in Seq(1..v)
    BY Zenon DEF Extends, IsOrder
  <2>2. a \in Nat /\ b \in Nat /\ a <= b
    <3>1. a <= b
      BY Zenon DEF Extends
    <3> QED
      BY <2>1, <3>1
  <2>3. /\ t \in Seq(1..v) /\ Len(t) = b + 1 /\ t[b + 1] = u
        /\ \A k \in 1..b : t[k] = s[k]
    BY <2>1
  <2>4. \A k \in 1..b : s[k] # u
    <3> SUFFICES ASSUME NEW k \in 1..b, s[k] = u PROVE FALSE
      BY Zenon
    <3>1. CASE k <= a
      <4>1. k \in 1..a /\ k \in DOMAIN seen
        BY <3>1, <2>1, <2>2
      <4>2. s[k] = seen[k]
        BY <4>1, Zenon DEF Extends
      <4> QED
        BY <4>1, <4>2, Zenon DEF Range
    <3>2. CASE a < k
      <4>1. k \in (a + 1)..b
        BY <3>2, <2>2
      <4>2. s[k] \in 1..(u - 1)
        BY <4>1, Zenon DEF NewBelow
      <4> QED
        BY <4>2
    <3> QED
      BY <3>1, <3>2, <2>2
  <2>5. \A j, k \in 1..b : s[j] = s[k] => j = k
    BY Zenon DEF Extends, IsOrder
  <2>6. \A j, k \in 1..Len(t) : t[j] = t[k] => j = k
    <3> SUFFICES ASSUME NEW j \in 1..(b + 1), NEW k \in 1..(b + 1), t[j] = t[k] PROVE j = k
      BY <2>3, Zenon
    <3>1. (j \in 1..b \/ j = b + 1) /\ (k \in 1..b \/ k = b + 1)
      BY <2>2
    <3> QED
      BY <3>1, <2>3, <2>4, <2>5, Zenon
  <2>7. ASSUME NEW k \in 1..Len(t), NEW w \in Range(nodes[t[k]].inputs)
        PROVE  \E j \in 1..(k - 1) : t[j] = w
    <3>1. CASE k \in 1..b
      <4>1. t[k] = s[k] /\ \A j \in 1..(k - 1) : j \in 1..b
        BY <3>1, <2>2, <2>3
      <4>2. \E j \in 1..(k - 1) : s[j] = w
        BY <3>1, <4>1, Zenon DEF Extends, IsOrder
      <4> QED
        BY <4>1, <4>2, <2>3, Zenon
    <3>2. CASE k = b + 1
      <4>1. w \in Range(s)
        BY <3>2, <2>3, Zenon
      <4>2. DOMAIN s = 1..b /\ b = k - 1
        BY <2>1, <2>2, <3>2
      <4>3. PICK j \in 1..b : s[j] = w
        BY <4>1, <4>2, Zenon DEF Range
      <4> QED
        BY <4>2, <4>3, <2>3, Zenon
    <3> QED
      BY <3>1, <3>2, <2>2, <2>3
  <2>8. IsOrder(nodes, t, v)
    BY <2>3, <2>6, <2>7, Zenon DEF IsOrder
  <2>9. a <= Len(t) /\ \A k \in 1..a : t[k] = seen[k]
    <3>1. a <= Len(t) /\ \A k \in 1..a : k \in 1..b
      BY <2>2, <2>3
    <3>2. \A k \in 1..a : s[k] = seen[k]
      BY Zenon DEF Extends
    <3> QED
      BY <3>1, <3>2, <2>3, Zenon
  <2>10. ASSUME NEW k \in (a + 1)..Len(t)
         PROVE  /\ t[k] \in 1..u
                /\ \/ t[k] \in {u}
                   \/ \E j \in (k + 1)..Len(t) : t[k] \in Range(nodes[t[j]].inputs)
    <3>1. CASE k = b + 1
      <4>1. u \in 1..u
        OBVIOUS
      <4> QED
        BY <3>1, <4>1, <2>3, Zenon
    <3>2. CASE k # b + 1
      <4>1. /\ k \in (a + 1)..b /\ k \in 1..b /\ b + 1 \in (k + 1)..Len(t)
            /\ \A j \in (k + 1)..b : j \in (k + 1)..Len(t) /\ j \in 1..b
        BY <3>2, <2>2, <2>3
      <4>2. s[k] \in 1..(u - 1)
        BY <4>1, Zenon DEF NewBelow
      <4>3. t[k] \in 1..u
        BY <4>1, <4>2, <2>3
      <4>4. \/ s[k] \in Range(nodes[u].inputs)
            \/ \E j \in (k + 1)..b : s[k] \in Range(nodes[s[j]].inputs)
        BY <4>1, Zenon DEF Extends
      <4> QED
        BY <4>1, <4>3, <4>4, <2>3, Zenon
    <3> QED
      BY <3>1, <3>2, Zenon
  <2>11. u \in Range(t)
    <3>1. b + 1 \in DOMAIN t
      BY <2>2, <2>3
    <3> QED
      BY <3>1, <2>3, Zenon DEF Range
  <2>12. Len(t) \in Nat \ {0} /\ t[Len(t)] = u
    BY <2>2, <2>3
  <2> QED
    BY <2>8, <2>9, <2>10, <2>11, <2>12, Zenon DEF Result, Extends, NewBelow
\* The loop of recurse over the inputs of u.
<1>AfterExtends.
    ASSUME NEW v \in Nat, NEW u \in 1..v, Inputs(nodes, u), NEW R,
           \A w \in 1..(u - 1) : Lists(R, w, v),
           NEW seen, IsOrder(nodes, seen, v), NEW s, s = After(R, u, seen)
    PROVE  /\ Extends(s, seen, v, Range(nodes[u].inputs)) /\ NewBelow(s, seen, u - 1)
           /\ Range(nodes[u].inputs) \subseteq Range(s)
  <2> USE <1>AfterExtends
  <2> DEFINE ins == nodes[u].inputs
             S == Range(ins)
  <2>1. ins \in Seq(1..(u - 1)) /\ Len(ins) \in 0..2
    BY Zenon DEF Inputs
  <2>2. u - 1 \in Nat /\ DOMAIN ins = 1..Len(ins)
    BY <2>1
  <2>3. \A k \in 1..Len(ins) : ins[k] \in 1..(u - 1)
    BY <2>1
  <2>4. Extends(seen, seen, v, S) /\ NewBelow(seen, seen, u - 1)
    BY <1>ExtendsSelf, Zenon
  <2>5. CASE Len(ins) = 0
    <3>1. s = seen /\ \A k \in 1..Len(ins) : FALSE
      BY <2>5 DEF After
    <3>2. S \subseteq Range(s)
      BY <3>1, <2>2, Zenon DEF Range
    <3> QED
      BY <3>1, <3>2, <2>4, Zenon
  <2> DEFINE s1 == R[ins[1]][seen]
  <2>6. ASSUME Len(ins) # 0
        PROVE  /\ ins[1] \in S /\ ins[1] \in 1..(u - 1)
               /\ Extends(s1, seen, v, S) /\ NewBelow(s1, seen, u - 1)
               /\ ins[1] \in Range(s1)
    <3>1. 1 \in 1..Len(ins)
      BY <2>1, <2>6
    <3>2. ins[1] \in S /\ ins[1] \in 1..(u - 1)
      BY <3>1, <2>2, <2>3, Zenon DEF Range
    <3>3. Result(s1, seen, ins[1], v)
      BY <3>2, Zenon DEF Lists
    <3> DEFINE n == u - 1
               m == ins[1]
    <3>4. n \in Nat /\ m \in S /\ m \in 1..n /\ Result(s1, seen, m, v)
      BY <3>2, <3>3, <2>2, Zenon
    <3>5. Extends(seen, seen, v, S) /\ NewBelow(seen, seen, n)
      BY <2>4, Zenon
    <3> HIDE DEF s1, S, n, m
    <3>6. Extends(s1, seen, v, S) /\ NewBelow(s1, seen, n) /\ m \in Range(s1)
      BY <3>4, <3>5, <1>ExtendsMore, Zenon
    <3> QED
      BY <3>2, <3>6, Zenon DEF n, m
  <2>7. CASE Len(ins) = 1
    <3>1. s = s1 /\ 1..Len(ins) = {1} /\ Len(ins) # 0
      BY <2>7 DEF After
    <3>2. S = {ins[1]}
      BY <3>1, <2>2, Zenon DEF Range
    <3> QED
      BY <3>1, <3>2, <2>6, Zenon
  <2>8. CASE Len(ins) = 2
    <3> DEFINE s2 == R[ins[2]][s1]
    <3>1. s = s2 /\ 1..Len(ins) = {1, 2} /\ Len(ins) # 0
      BY <2>8 DEF After
    <3>2. S = {ins[1], ins[2]} /\ ins[2] \in 1..(u - 1)
      BY <3>1, <2>2, <2>3, Zenon DEF Range
    <3>3. IsOrder(nodes, s1, v)
      BY <3>1, <2>6, Zenon DEF Extends
    <3>4. Result(s2, s1, ins[2], v)
      BY <3>2, <3>3, Zenon DEF Lists
    <3>5. ins[2] \in S
      BY <3>2, Zenon
    <3>6. /\ Extends(s2, seen, v, S) /\ NewBelow(s2, seen, u - 1)
          /\ ins[2] \in Range(s2) /\ Range(s1) \subseteq Range(s2)
      <4> DEFINE n == u - 1
                 m == ins[2]
      <4>1. n \in Nat /\ m \in S /\ m \in 1..n /\ Result(s2, s1, m, v)
        BY <3>2, <3>4, <3>5, <2>2, Zenon
      <4>2. Extends(s1, seen, v, S) /\ NewBelow(s1, seen, n)
        BY <3>1, <2>6, Zenon
      <4> HIDE DEF s1, s2, S, n, m
      <4>3. /\ Extends(s2, seen, v, S) /\ NewBelow(s2, seen, n)
            /\ m \in Range(s2) /\ Range(s1) \subseteq Range(s2)
        BY <4>1, <4>2, <1>ExtendsMore, Zenon
      <4> QED
        BY <4>3, Zenon DEF n, m
    <3> QED
      BY <3>1, <3>2, <3>6, <2>6, Zenon
  <2> QED
    BY <2>1, <2>5, <2>7, <2>8
\* recurse(u) lists what is below u: a least u for which it would not is an
\* operation on variables for which it does.
<1>RecurseLists.
    ASSUME NEW v \in Nat, \A u \in 1..v : Inputs(nodes, u),
           NEW R, IsRecurse(R, v, v), NEW u \in 1..v
    PROVE  Lists(R, u, v)
  <2> USE <1>RecurseLists
  <2> DEFINE Bad == {w \in 1..v : ~ Lists(R, w, v)}
  <2> SUFFICES ASSUME Bad # {} PROVE FALSE
    BY Zenon
  <2>1. PICK w \in Bad : \A x \in Bad : w <= x
    <3>1. Bad \in SUBSET Nat
      OBVIOUS
    <3> HIDE DEF Bad
    <3> QED
      BY <3>1, LeastNat, Zenon
  <2>2. w \in 1..v /\ ~ Lists(R, w, v)
    BY Zenon
  <2>3. \A x \in 1..(w - 1) : Lists(R, x, v)
    <3>1. \A x \in 1..(w - 1) : x \in 1..v /\ ~ (w <= x)
      BY <2>2
    <3> QED
      BY <3>1, <2>1, Zenon
  <2>4. PICK seen : IsOrder(nodes, seen, v) /\ ~ Result(R[w][seen], seen, w, v)
    BY <2>2, Zenon DEF Lists
  <2> DEFINE s == After(R, w, seen)
             t == Append(s, w)
  <2>5. R[w][seen] = IF w \in Range(seen) THEN seen ELSE t
    <3>1. R[w] = Into(R, w, v)
      BY <2>2, Zenon DEF IsRecurse
    <3>2. Into(R, w, v) = Listed(R, w, v)
      BY <2>2, <1>IntoIs, Zenon DEF Inputs
    <3>3. seen \in Seq(1..v)
      BY <2>4, Zenon DEF IsOrder
    <3> QED
      BY <3>1, <3>2, <3>3, Zenon DEF Listed
  <2>6. CASE w \in Range(seen)
    <3>1. Extends(seen, seen, v, {w}) /\ NewBelow(seen, seen, w)
      BY <2>4, <1>ExtendsSelf, Zenon
    <3> QED
      BY <3>1, <2>4, <2>5, <2>6, Zenon DEF Result
  <2>7. CASE w \notin Range(seen)
    <3>1. Inputs(nodes, w)
      BY <2>2, Zenon
    <3> HIDE DEF s, t, Bad
    <3>2. /\ Extends(s, seen, v, Range(nodes[w].inputs)) /\ NewBelow(s, seen, w - 1)
          /\ Range(nodes[w].inputs) \subseteq Range(s)
      BY <3>1, <2>2, <2>3, <2>4, <1>AfterExtends, Zenon DEF s
    <3>3. Result(t, seen, w, v)
      BY <3>2, <2>2, <2>4, <2>7, <1>ExtendsAppend, Zenon DEF t
    <3> QED
      BY <3>3, <2>4, <2>5, <2>7, Zenon
  <2> QED
    BY <2>6, <2>7, Zenon
\* build lists the variables below its argument, each once, after its inputs,
\* and before a variable that needs it (Variable::build).
<1>BuildOrders.
    ASSUME IsGraph(nodes), NEW v \in Vars, NEW t, t = build(v)
    PROVE  IsOrder(nodes, t, v) /\ Ends(t, v)
  <2> USE <1>BuildOrders
  <2>1. v \in Nat /\ v # 0 /\ v \in 1..v /\ (\A u \in 1..v : u \in Vars)
    BY DEF IsGraph, Vars
  <2>2. \A u \in 1..v : Inputs(nodes, u)
    BY <2>1, Zenon DEF IsGraph, Vars
  <2>3. PICK R : IsRecurse(R, v, v) /\ t = R[v][<<>>]
    BY <2>1, <2>2, <1>BuildRecurses, Zenon
  <2> DEFINE e == <<>>
             s == After(R, v, e)
  <2>4. IsOrder(nodes, e, v) /\ v \notin Range(e)
    <3>1. e \in Seq(1..v) /\ (\A k \in 1..Len(e) : FALSE) /\ (\A k \in DOMAIN e : FALSE)
      OBVIOUS
    <3> HIDE DEF e
    <3> QED
      BY <3>1, Zenon DEF IsOrder, Range
  <2>5. Len(e) = 0
    OBVIOUS
  <2>6. t = Append(s, v)
    <3>1. R[v] = Into(R, v, v)
      BY <2>1, <2>3, Zenon DEF IsRecurse
    <3>2. Into(R, v, v) = Listed(R, v, v)
      BY <2>1, <2>2, <1>IntoIs, Zenon DEF Inputs
    <3>3. e \in Seq(1..v) /\ t = R[v][e]
      BY <2>3, <2>4, Zenon DEF IsOrder
    <3> HIDE DEF e, s
    <3> QED
      BY <3>1, <3>2, <3>3, <2>4, Zenon DEF Listed, s
  <2> HIDE DEF e, s
  <2>7. \A w \in 1..(v - 1) : Lists(R, w, v)
    <3>1. \A w \in 1..(v - 1) : w \in 1..v
      BY <2>1
    <3>2. \A w \in 1..v : Lists(R, w, v)
      BY <2>1, <2>2, <2>3, <1>RecurseLists, Zenon
    <3> QED
      BY <3>1, <3>2, Zenon
  <2>8. /\ Extends(s, e, v, Range(nodes[v].inputs)) /\ NewBelow(s, e, v - 1)
        /\ Range(nodes[v].inputs) \subseteq Range(s)
    BY <2>1, <2>2, <2>4, <2>7, <1>AfterExtends, Zenon DEF s
  <2>9. Result(t, e, v, v) /\ Len(t) \in Nat \ {0} /\ t[Len(t)] = v
    <3>1. Lists(R, v, v)
      BY <2>1, <2>2, <2>3, <1>RecurseLists, Zenon
    <3>2. t = R[v][e]
      BY <2>3, Zenon DEF e
    <3>3. Result(t, e, v, v)
      BY <3>1, <3>2, <2>4, Zenon DEF Lists
    <3>4. s \in Seq(1..v)
      BY <2>8, Zenon DEF Extends, IsOrder
    <3>5. Len(t) \in Nat \ {0} /\ t[Len(t)] = v
      BY <3>4, <2>1, <2>6
    <3> QED
      BY <3>3, <3>5, Zenon
  <2>10. IsOrder(nodes, t, v)
    BY <2>9, Zenon DEF Result, Extends
  <2>11. ASSUME NEW k \in 1..Len(t)
         PROVE  k = Len(t) \/
                  \E j \in (k + 1)..Len(t) : t[k] \in Range(nodes[t[j]].inputs)
    <3>1. k \in (Len(e) + 1)..Len(t) /\ Len(t) \in 1..Len(t)
      BY <2>5, <2>9
    <3>2. t[k] \in {v} \/ \E j \in (k + 1)..Len(t) : t[k] \in Range(nodes[t[j]].inputs)
      BY <3>1, <2>9, Zenon DEF Result, Extends
    <3>3. \A i, j \in 1..Len(t) : t[i] = t[j] => i = j
      BY <2>10, Zenon DEF IsOrder
    <3>4. t[k] = v => k = Len(t)
      BY <3>1, <3>3, <2>9
    <3> QED
      BY <3>2, <3>4, Zenon
  <2> QED
    BY <2>9, <2>10, <2>11, Zenon DEF Ends
<1> QED
  BY <1>BuildOrders, Zenon


------------------------------------------------------------------------------
(* How often a variable is an input of another *)

Hit(x, u) == IF x = u THEN 1 ELSE 0

\* Times, for at most two inputs.
Hits(ins, u) ==
  IF Len(ins) = 0 THEN 0
  ELSE IF Len(ins) = 1 THEN Hit(ins[1], u) ELSE Hit(ins[1], u) + Hit(ins[2], u)

\* Times, counted.
LEMMA TimesIs ==
  ASSUME NEW ns, NEW c, NEW u, Inputs(ns, c)
  PROVE  /\ Times(ns, c, u) = Hits(ns[c].inputs, u) /\ Times(ns, c, u) \in Nat
         /\ u \notin Range(ns[c].inputs) => Times(ns, c, u) = 0
         /\ u \in Range(ns[c].inputs) => Times(ns, c, u) \in {1, 2}
<1> DEFINE ins == ns[c].inputs
           K == {k \in DOMAIN ins : ins[k] = u}
<1>1. ins \in Seq(1..(c - 1)) /\ Len(ins) \in 0..2
  BY Zenon DEF Inputs
<1>2. DOMAIN ins = 1..Len(ins)
  BY <1>1
<1>3. Times(ns, c, u) = Cardinality(K)
  BY Zenon DEF Times
<1>4. Cardinality({}) = 0 /\ Cardinality({1}) = 1 /\ Cardinality({2}) = 1
  BY FS_EmptySet, FS_Singleton, Zenon
<1>5. Cardinality({1, 2}) = 2
  <2>1. IsFiniteSet({1}) /\ 2 \notin {1} /\ {1} \cup {2} = {1, 2}
    BY FS_Singleton, SMTT(30)
  <2>2. Cardinality({1} \cup {2}) = IF 2 \in {1} THEN Cardinality({1}) ELSE Cardinality({1}) + 1
    BY <2>1, FS_AddElement, Zenon
  <2> QED
    BY <2>1, <2>2, <1>4
<1> HIDE DEF ins
<1>6. Cardinality(K) = Hits(ins, u)
  <2>1. CASE Len(ins) = 0
    <3>1. K = {}
      BY <2>1, <1>2
    <3> QED
      BY <2>1, <3>1, <1>4, Zenon DEF Hits
  <2>2. CASE Len(ins) = 1
    <3>1. 1..Len(ins) = {1} /\ Len(ins) # 0
      BY <2>2
    <3>2. K = IF ins[1] = u THEN {1} ELSE {}
      BY <3>1, <1>2, Zenon
    <3> QED
      BY <2>2, <3>1, <3>2, <1>4, Zenon DEF Hits, Hit
  <2>3. CASE Len(ins) = 2
    <3>1. DOMAIN ins = {1, 2}
      BY <2>3, <1>2
    <3>2. ins[1] = u /\ ins[2] = u => K = {1, 2}
      BY <3>1, Zenon
    <3>3. ins[1] = u /\ ins[2] # u => K = {1}
      BY <3>1, Zenon
    <3>4. ins[1] # u /\ ins[2] = u => K = {2}
      BY <3>1, Zenon
    <3>5. ins[1] # u /\ ins[2] # u => K = {}
      BY <3>1, Zenon
    <3> HIDE DEF K
    <3> QED
      BY <2>3, <3>2, <3>3, <3>4, <3>5, <1>4, <1>5 DEF Hits, Hit
  <2> QED
    BY <1>1, <2>1, <2>2, <2>3
<1>7. Hits(ins, u) \in Nat
  BY DEF Hits, Hit
<1>8. u \notin Range(ins) => K = {}
  BY Zenon DEF Range
<1>9. u \in Range(ins) => Hits(ins, u) \in {1, 2}
  <2> SUFFICES ASSUME u \in Range(ins) PROVE Hits(ins, u) \in {1, 2}
    BY Zenon
  <2>1. PICK k \in 1..Len(ins) : ins[k] = u
    BY <1>2, Zenon DEF Range
  <2> DEFINE m == Len(ins)
  <2>4. m \in 0..2 /\ k \in 1..m
    BY <1>1, Zenon
  <2>2. k \in 1..2 /\ (m = 1 \/ m = 2)
    <3> HIDE DEF m
    <3> QED
      BY <2>4
  <2>3. k = 1 \/ (k = 2 /\ Len(ins) = 2)
    BY <2>2
  <2> QED
    BY <2>1, <2>2, <2>3 DEF Hits, Hit
<1> HIDE DEF K
<1> QED
  BY <1>3, <1>4, <1>6, <1>7, <1>8, <1>9, Zenon DEF ins

------------------------------------------------------------------------------
(* Numbers of paths *)

\* SumFunction is the sum over the domain.
LEMMA SumFunctionIs ==
  ASSUME NEW f
  PROVE  SumFunction(f) = Total(f, DOMAIN f)
BY Zenon DEF SumFunction, SumFunctionOnSet, FoldFunctionOnSet, Total, MapThenSumSet,
             MapThenFoldSet

FromAbove(ns, r, p, w) == [c \in (w + 1)..r |-> Times(ns, c, w) * p[c]]

PathsFrom(ns, r, p, w) == IF w = r THEN 1 ELSE SumFunction(FromAbove(ns, r, p, w))

IsPaths(p, ns, r) == p = [w \in 1..r |-> PathsFrom(ns, r, p, w)]

Deriv(ns, r, u) == IF u > r THEN 0 ELSE (CHOOSE p : IsPaths(p, ns, r))[u]

\* Derivative, with the graph and the root as parameters.
LEMMA DerivativeIs ==
  ASSUME NEW u
  PROVE  Derivative(u) = Deriv(before, pass.root, u)
BY Zenon DEF Derivative, Deriv, IsPaths, PathsFrom, FromAbove, Times

\* Derivative after a step.
LEMMA DerivativePrimeIs ==
  ASSUME NEW u
  PROVE  Derivative(u)' = Deriv(before', pass'.root, u)
BY Zenon DEF Derivative, Deriv, IsPaths, PathsFrom, FromAbove, Times

AgreeAbove(p, q, w, r) == \A c \in (w + 1)..r : p[c] = q[c]

\* The number of paths to w depends on those to later variables only.
LEMMA PathsAgree ==
  ASSUME NEW ns, NEW r, NEW p, NEW q, NEW w, AgreeAbove(p, q, w, r)
  PROVE  PathsFrom(ns, r, p, w) = PathsFrom(ns, r, q, w)
<1>1. FromAbove(ns, r, p, w) = FromAbove(ns, r, q, w)
  BY Zenon DEF FromAbove, AgreeAbove
<1> QED
  BY <1>1, Zenon DEF PathsFrom

PathsDownTo(p, ns, r, a) == p = [w \in a..r |-> PathsFrom(ns, r, p, w)]

\* The number of paths is defined, from the root downwards.
LEMMA PathsExist ==
  ASSUME NEW ns, NEW r \in Nat
  PROVE  \E p : IsPaths(p, ns, r)
<1> DEFINE P(a) == \E p : PathsDownTo(p, ns, r, a)
           Bad == {a \in 1..(r + 1) : ~P(a)}
<1> SUFFICES ASSUME Bad # {} PROVE FALSE
  <2>1. 1 \in 1..(r + 1)
    OBVIOUS
  <2>2. P(1)
    BY <2>1, Zenon
  <2> QED
    BY <2>2, Zenon DEF PathsDownTo, IsPaths
<1>1. PICK a \in Bad : \A b \in Bad : b <= a
  <2>1. Bad \in SUBSET Nat /\ r + 1 \in Nat
    OBVIOUS
  <2>2. \A x \in Bad : x <= r + 1
    OBVIOUS
  <2> HIDE DEF Bad
  <2> QED
    BY <2>1, <2>2, Greatest, Zenon
<1>2. a \in 1..(r + 1) /\ ~P(a)
  BY Zenon
<1>3. a # r + 1
  <2> DEFINE p == [w \in (r + 1)..r |-> w]
  <2>1. \A w \in (r + 1)..r : FALSE
    OBVIOUS
  <2>2. p = [w \in (r + 1)..r |-> PathsFrom(ns, r, p, w)]
    <3>1. \A w \in (r + 1)..r : p[w] = PathsFrom(ns, r, p, w)
      BY <2>1, Zenon
    <3> QED
      BY <3>1, Zenon
  <2>3. P(r + 1)
    BY <2>2, Zenon DEF PathsDownTo
  <2> QED
    BY <1>2, <2>3, Zenon
<1>4. a + 1 \in 1..(r + 1) /\ a + 1 \notin Bad
  <2>1. a + 1 \in 1..(r + 1) /\ ~ (a + 1 <= a)
    BY <1>2, <1>3
  <2> QED
    BY <1>1, <2>1, Zenon
<1>5. PICK p : PathsDownTo(p, ns, r, a + 1)
  BY <1>4, Zenon
<1> DEFINE q == [w \in a..r |-> IF w = a THEN PathsFrom(ns, r, p, a) ELSE p[w]]
<1>6. \A w \in (a + 1)..r : p[w] = q[w] /\ p[w] = PathsFrom(ns, r, p, w)
  <2>1. \A w \in (a + 1)..r : w \in a..r /\ w # a
    BY <1>2
  <2>2. \A w \in (a + 1)..r : p[w] = PathsFrom(ns, r, p, w)
    BY <1>5, Zenon DEF PathsDownTo
  <2> QED
    BY <2>1, <2>2, Zenon
<1>7. ASSUME NEW w \in a..r PROVE q[w] = PathsFrom(ns, r, q, w)
  <2>1. \A c \in (w + 1)..r : c \in (a + 1)..r
    BY <1>2
  <2>2. AgreeAbove(p, q, w, r)
    BY <2>1, <1>6, Zenon DEF AgreeAbove
  <2>3. PathsFrom(ns, r, p, w) = PathsFrom(ns, r, q, w)
    <3> HIDE DEF q
    <3> QED
      BY <2>2, PathsAgree, ZenonT(30)
  <2>4. CASE w = a
    <3>1. q[w] = PathsFrom(ns, r, p, w)
      BY <2>4, Zenon
    <3> QED
      BY <3>1, <2>3, Zenon
  <2>5. CASE w # a
    <3>1. w \in (a + 1)..r
      BY <1>2, <2>5
    <3> QED
      BY <3>1, <2>3, <1>6, Zenon
  <2> QED
    BY <2>4, <2>5, Zenon
<1>8. q = [w \in a..r |-> PathsFrom(ns, r, q, w)]
  BY <1>7, Zenon
<1> QED
  BY <1>2, <1>8, Zenon DEF PathsDownTo

AllInputs(ns, r) == \A c \in 1..r : Inputs(ns, c)

NatAbove(p, w, r) == \A c \in (w + 1)..r : p[c] \in Nat

\* D holds r and all inputs of its variables.
IsClosed(ns, D, r) == r \in D /\ \A c \in D : Range(ns[c].inputs) \subseteq D

Below(ns, r, p, u) == [c \in 1..r |-> Times(ns, c, u) * p[c]]

\* What p counts.
PathsAre(p, ns, r) ==
  /\ \A u \in 1..r : p[u] \in Nat
  /\ \A u \in 1..r : p[u] = Hit(u, r) + Total(Below(ns, r, p, u), 1..r)
  /\ \A u \in Nat : /\ NatOn(Below(ns, r, p, u), 1..r)
                     /\ \A c \in 1..r : c <= u => Below(ns, r, p, u)[c] = 0
  /\ \A D : IsClosed(ns, D, r) => \A u \in 1..r : u \notin D => p[u] = 0

\* p counts the paths from r: they end with a use of a variable as an input,
\* and none leaves a closed set of variables.
LEMMA PathsCounted ==
  \A ns : \A r \in Nat : \A p :
    AllInputs(ns, r) /\ IsPaths(p, ns, r) => PathsAre(p, ns, r)
\* The terms of paths[w] are numbers if those above w are.
<1>FromAboveSum.
    ASSUME NEW ns, NEW r \in Nat, AllInputs(ns, r),
           NEW p, NEW w \in 1..r, NEW f, f = FromAbove(ns, r, p, w), NatAbove(p, w, r)
    PROVE  /\ DOMAIN f = (w + 1)..r /\ IsFiniteSet((w + 1)..r)
           /\ SumFunction(f) = Total(f, (w + 1)..r)
           /\ NatOn(f, (w + 1)..r)
  <2> USE <1>FromAboveSum
  <2>1. DOMAIN f = (w + 1)..r
    BY Zenon DEF FromAbove
  <2>2. w + 1 \in Int /\ r \in Int
    OBVIOUS
  <2>3. IsFiniteSet((w + 1)..r)
    BY <2>2, FS_Interval, Zenon
  <2>4. SumFunction(f) = Total(f, (w + 1)..r)
    BY <2>1, SumFunctionIs, Zenon
  <2>5. ASSUME NEW c \in (w + 1)..r PROVE f[c] \in Nat
    <3>1. c \in 1..r
      OBVIOUS
    <3>2. Times(ns, c, w) \in Nat
      BY <3>1, TimesIs, Zenon DEF AllInputs
    <3>3. f[c] = Times(ns, c, w) * p[c]
      BY Zenon DEF FromAbove
    <3>4. p[c] \in Nat
      BY Zenon DEF NatAbove
    <3> QED
      BY <3>2, <3>3, <3>4
  <2> QED
    BY <2>1, <2>3, <2>4, <2>5, Zenon DEF NatOn
\* It is a number.
<1>PathsNat.
    ASSUME NEW ns, NEW r \in Nat, AllInputs(ns, r),
           NEW p, IsPaths(p, ns, r), NEW u \in 1..r
    PROVE  p[u] \in Nat
  <2> USE <1>PathsNat
  <2> DEFINE Bad == {w \in 1..r : p[w] \notin Nat}
  <2> SUFFICES ASSUME Bad # {} PROVE FALSE
    BY Zenon
  <2>1. PICK w \in Bad : \A b \in Bad : b <= w
    <3>1. Bad \in SUBSET Nat
      OBVIOUS
    <3>2. \A x \in Bad : x <= r
      OBVIOUS
    <3> HIDE DEF Bad
    <3> QED
      BY <3>1, <3>2, Greatest, Zenon
  <2>2. w \in 1..r /\ p[w] \notin Nat
    BY Zenon
  <2>3. NatAbove(p, w, r)
    <3>1. \A c \in (w + 1)..r : c \in 1..r /\ ~ (c <= w)
      BY <2>2
    <3> QED
      BY <3>1, <2>1, Zenon DEF NatAbove
  <2> DEFINE f == FromAbove(ns, r, p, w)
  <2>4. p[w] = IF w = r THEN 1 ELSE SumFunction(f)
    BY <2>2, Zenon DEF IsPaths, PathsFrom
  <2> HIDE DEF Bad
  <2>5. /\ IsFiniteSet((w + 1)..r) /\ SumFunction(f) = Total(f, (w + 1)..r)
        /\ NatOn(f, (w + 1)..r)
    <3>1. f = FromAbove(ns, r, p, w)
      BY Zenon
    <3> HIDE DEF f
    <3> QED
      BY <3>1, <2>2, <2>3, <1>FromAboveSum
  <2> HIDE DEF f
  <2>6. SumFunction(f) \in Nat
    BY <2>5, SumNat, Zenon
  <2> QED
    BY <2>2, <2>4, <2>6
\* No path leads to a variable outside a closed set of variables.
<1>PathsUnreached.
    ASSUME NEW ns, NEW r \in Nat, AllInputs(ns, r), NEW p, IsPaths(p, ns, r),
           NEW D, IsClosed(ns, D, r), NEW u \in 1..r, u \notin D
    PROVE  p[u] = 0
  <2> USE <1>PathsUnreached
  <2> DEFINE Bad == {w \in 1..r : w \notin D /\ p[w] # 0}
  <2> SUFFICES ASSUME Bad # {} PROVE FALSE
    BY Zenon
  <2>1. PICK w \in Bad : \A b \in Bad : b <= w
    <3>1. Bad \in SUBSET Nat
      OBVIOUS
    <3>2. \A x \in Bad : x <= r
      OBVIOUS
    <3> HIDE DEF Bad
    <3> QED
      BY <3>1, <3>2, Greatest, Zenon
  <2>2. w \in 1..r /\ w \notin D /\ p[w] # 0 /\ w # r
    BY Zenon DEF IsClosed
  <2>3. \A c \in (w + 1)..r : c \in 1..r /\ (c \in D \/ p[c] = 0)
    <3>1. \A c \in (w + 1)..r : c \in 1..r /\ ~ (c <= w)
      BY <2>2
    <3> QED
      BY <3>1, <2>1, Zenon
  <2>4. NatAbove(p, w, r)
    BY <2>3, <1>PathsNat, Zenon DEF NatAbove
  <2> DEFINE f == FromAbove(ns, r, p, w)
             W == (w + 1)..r
  <2>5. p[w] = SumFunction(f)
    BY <2>2, Zenon DEF IsPaths, PathsFrom
  <2> HIDE DEF Bad
  <2>6. IsFiniteSet(W) /\ SumFunction(f) = Total(f, W)
    <3>1. f = FromAbove(ns, r, p, w)
      BY Zenon
    <3> HIDE DEF f
    <3> QED
      BY <3>1, <2>2, <2>4, <1>FromAboveSum
  <2>7. ASSUME NEW c \in W PROVE f[c] = 0
    <3>1. f[c] = Times(ns, c, w) * p[c]
      BY Zenon DEF FromAbove
    <3>2. p[c] \in Nat /\ Inputs(ns, c) /\ (c \in D \/ p[c] = 0)
      BY <2>3, <2>4, Zenon DEF NatAbove, AllInputs
    <3>3. Times(ns, c, w) \in Nat /\ (w \notin Range(ns[c].inputs) => Times(ns, c, w) = 0)
      BY <3>2, TimesIs, Zenon
    <3>4. c \in D => w \notin Range(ns[c].inputs)
      BY <2>2, Zenon DEF IsClosed
    <3>5. Times(ns, c, w) = 0 \/ p[c] = 0
      BY <3>2, <3>3, <3>4, Zenon
    <3> HIDE DEF f
    <3> QED
      BY <3>1, <3>2, <3>3, <3>5
  <2>8. ZeroOn(f, W)
    BY <2>7, Zenon DEF ZeroOn
  <2> HIDE DEF f, W
  <2>9. Total(f, W) = 0
    BY <2>6, <2>8, SumZero, Zenon
  <2> QED
    BY <2>2, <2>5, <2>6, <2>9, Zenon
\* A variable is no input of itself or of an earlier one.
<1>BelowNat.
    ASSUME NEW ns, NEW r \in Nat, AllInputs(ns, r), NEW p, IsPaths(p, ns, r),
           NEW u \in Nat, NEW g, g = Below(ns, r, p, u)
    PROVE  /\ IsFiniteSet(1..r) /\ NatOn(g, 1..r)
           /\ \A c \in 1..r : c <= u => g[c] = 0
  <2> USE <1>BelowNat
  <2>1. IsFiniteSet(1..r)
    <3>1. 1 \in Int /\ r \in Int
      OBVIOUS
    <3> QED
      BY <3>1, FS_Interval, Zenon
  <2>2. ASSUME NEW c \in 1..r PROVE g[c] \in Nat /\ (c <= u => g[c] = 0)
    <3>1. g[c] = Times(ns, c, u) * p[c]
      BY Zenon DEF Below
    <3>2. p[c] \in Nat /\ Inputs(ns, c)
      BY <1>PathsNat, Zenon DEF AllInputs
    <3>3. Times(ns, c, u) \in Nat /\ (u \notin Range(ns[c].inputs) => Times(ns, c, u) = 0)
      BY <3>2, TimesIs, Zenon
    <3>4. Range(ns[c].inputs) \subseteq 1..(c - 1)
      <4>1. ns[c].inputs \in Seq(1..(c - 1))
        BY <3>2, Zenon DEF Inputs
      <4> QED
        BY <4>1 DEF Range
    <3>5. c <= u => u \notin 1..(c - 1)
      OBVIOUS
    <3>6. c <= u => Times(ns, c, u) = 0
      BY <3>3, <3>4, <3>5, Zenon
    <3> QED
      BY <3>1, <3>2, <3>3, <3>6
  <2> QED
    BY <2>1, <2>2, Zenon DEF NatOn
\* The paths to u end with a use of u as an input.
<1>PathsSum.
    ASSUME NEW ns, NEW r \in Nat, AllInputs(ns, r), NEW p, IsPaths(p, ns, r),
           NEW u \in 1..r, NEW g, g = Below(ns, r, p, u)
    PROVE  p[u] = Hit(u, r) + Total(g, 1..r)
  <2> USE <1>PathsSum
  <2> DEFINE f == FromAbove(ns, r, p, u)
             W == (u + 1)..r
             A == 1..r
  <2>1. u \in Nat /\ W \in SUBSET A /\ \A c \in A \ W : c <= u
    OBVIOUS
  <2>2. IsFiniteSet(A) /\ NatOn(g, A) /\ \A c \in A : c <= u => g[c] = 0
    BY <2>1, <1>BelowNat, Zenon
  <2>3. ZeroOn(g, A \ W)
    BY <2>1, <2>2, Zenon DEF ZeroOn
  <2>4. Total(g, A) = Total(g, W) /\ Total(g, A) \in Nat
    <3> HIDE DEF W, A
    <3> QED
      BY <2>1, <2>2, <2>3, SumOfPart, SumNat, Zenon
  <2>5. NatAbove(p, u, r)
    <3>1. \A c \in (u + 1)..r : c \in 1..r
      OBVIOUS
    <3> QED
      BY <3>1, <1>PathsNat, Zenon DEF NatAbove
  <2>6. IsFiniteSet(W) /\ SumFunction(f) = Total(f, W)
    <3>1. f = FromAbove(ns, r, p, u)
      BY Zenon
    <3> HIDE DEF f
    <3> QED
      BY <3>1, <2>5, <1>FromAboveSum
  <2>7. \A c \in W : f[c] = g[c]
    BY <2>1, Zenon DEF FromAbove, Below
  <2>8. Total(f, W) = Total(g, W)
    <3> HIDE DEF f, W
    <3> QED
      BY <2>6, <2>7, SumAgree
  <2>9. p[u] = IF u = r THEN 1 ELSE SumFunction(f)
    BY Zenon DEF IsPaths, PathsFrom
  <2>10. u = r => Total(g, W) = 0
    <3>1. u = r => W = {}
      OBVIOUS
    <3> HIDE DEF W
    <3> QED
      BY <3>1, SumEmpty, Zenon
  <2> HIDE DEF f, W, A
  <2>11. Total(g, 1..r) = Total(g, A)
    BY Zenon DEF A
  <2> QED
    BY <2>4, <2>6, <2>8, <2>9, <2>10, <2>11 DEF Hit
<1> SUFFICES ASSUME NEW ns, NEW r \in Nat, NEW p, AllInputs(ns, r), IsPaths(p, ns, r)
             PROVE  PathsAre(p, ns, r)
  BY Zenon
<1>1. \A u \in 1..r : p[u] \in Nat
  BY <1>PathsNat, Zenon
<1>2. ASSUME NEW u \in 1..r PROVE p[u] = Hit(u, r) + Total(Below(ns, r, p, u), 1..r)
  <2>1. PICK g : g = Below(ns, r, p, u)
    BY Zenon
  <2>2. p[u] = Hit(u, r) + Total(g, 1..r)
    BY <2>1, <1>PathsSum, SMTT(30)
  <2> QED
    BY <2>1, <2>2, Zenon
<1>3. ASSUME NEW u \in Nat
      PROVE  /\ NatOn(Below(ns, r, p, u), 1..r)
             /\ \A c \in 1..r : c <= u => Below(ns, r, p, u)[c] = 0
  BY <1>BelowNat, Zenon
<1>4. ASSUME NEW D, IsClosed(ns, D, r), NEW u \in 1..r, u \notin D PROVE p[u] = 0
  BY <1>4, <1>PathsUnreached, Zenon
<1> QED
  BY <1>1, <1>2, <1>3, <1>4, Zenon DEF PathsAre


------------------------------------------------------------------------------
(* Derivatives *)

Via(ns, r, u) == [c \in 1..r |-> Times(ns, c, u) * Deriv(ns, r, c)]

\* The derivative of r by u is the sum, over what u is an input of, of the
\* derivatives of r by that.
LEMMA DerivSum ==
  ASSUME NEW ns, IsGraph(ns), NEW r \in DOMAIN ns, NEW u \in DOMAIN ns,
         NEW g, g = Via(ns, r, u)
  PROVE  /\ Deriv(ns, r, u) \in Nat /\ IsFiniteSet(1..r) /\ NatOn(g, 1..r)
         /\ Deriv(ns, r, u) = Hit(u, r) + Total(g, 1..r)
<1>1. r \in Nat /\ u \in Nat /\ u # 0 /\ \A c \in 1..r : c \in DOMAIN ns
  BY DEF IsGraph
<1>2. AllInputs(ns, r)
  BY <1>1, Zenon DEF AllInputs, IsGraph
<1> DEFINE p == CHOOSE q : IsPaths(q, ns, r)
<1>3. IsPaths(p, ns, r)
  BY <1>1, PathsExist, Zenon
<1>4. \A c : Deriv(ns, r, c) = IF c > r THEN 0 ELSE p[c]
  BY Zenon DEF Deriv
<1> HIDE DEF p
<1>5. \A c \in 1..r : Deriv(ns, r, c) = p[c]
  <2>1. \A c \in 1..r : ~ (c > r)
    BY <1>1
  <2> QED
    BY <2>1, <1>4, Zenon
<1>6. g = Below(ns, r, p, u)
  BY <1>5, Zenon DEF Via, Below
<1>a. PathsAre(p, ns, r)
  BY <1>1, <1>2, <1>3, PathsCounted, Zenon
<1>7. IsFiniteSet(1..r) /\ NatOn(g, 1..r) /\ \A c \in 1..r : c <= u => g[c] = 0
  <2>1. IsFiniteSet(1..r)
    BY <1>1, FS_Interval
  <2> QED
    BY <2>1, <1>1, <1>6, <1>a, Zenon DEF PathsAre
<1>8. CASE u > r
  <2>1. \A c \in 1..r : c <= u
    BY <1>1, <1>8
  <2>2. ZeroOn(g, 1..r)
    BY <2>1, <1>7, Zenon DEF ZeroOn
  <2>3. Total(g, 1..r) = 0
    BY <2>2, <1>7, SumZero, Zenon
  <2>4. Deriv(ns, r, u) = 0
    BY <1>4, <1>8, Zenon
  <2>5. Hit(u, r) = 0
    BY <1>1, <1>8 DEF Hit
  <2> QED
    BY <2>3, <2>4, <2>5, <1>7
<1>9. CASE ~ (u > r)
  <2>1. u \in 1..r
    BY <1>1, <1>9
  <2>2. p[u] \in Nat
    BY <2>1, <1>a, Zenon DEF PathsAre
  <2>3. p[u] = Hit(u, r) + Total(g, 1..r)
    BY <2>1, <1>6, <1>a, Zenon DEF PathsAre
  <2> QED
    BY <2>1, <2>2, <2>3, <1>5, <1>7, Zenon
<1> QED
  BY <1>8, <1>9, Zenon

\* The derivative by a variable that the root does not need is 0.
LEMMA DerivUnreached ==
  ASSUME NEW ns, IsGraph(ns), NEW r \in DOMAIN ns, NEW u \in DOMAIN ns,
         NEW D, IsClosed(ns, D, r), u \notin D
  PROVE  Deriv(ns, r, u) = 0
<1>1. r \in Nat /\ u \in Nat /\ u # 0 /\ \A c \in 1..r : c \in DOMAIN ns
  BY DEF IsGraph
<1>2. AllInputs(ns, r)
  BY <1>1, Zenon DEF AllInputs, IsGraph
<1> DEFINE p == CHOOSE q : IsPaths(q, ns, r)
<1>3. IsPaths(p, ns, r) /\ Deriv(ns, r, u) = IF u > r THEN 0 ELSE p[u]
  <2>1. Deriv(ns, r, u) = IF u > r THEN 0 ELSE p[u]
    BY Zenon DEF Deriv
  <2>2. IsPaths(p, ns, r)
    BY <1>1, PathsExist, Zenon
  <2> QED
    BY <2>1, <2>2, Zenon
<1> HIDE DEF p
<1>4. CASE ~ (u > r)
  <2>1. u \in 1..r
    BY <1>1, <1>4
  <2>2. PathsAre(p, ns, r)
    BY <1>1, <1>2, <1>3, PathsCounted, Zenon
  <2>3. p[u] = 0
    BY <2>1, <2>2, Zenon DEF PathsAre
  <2> QED
    BY <2>3, <1>3, <1>4, Zenon
<1> QED
  BY <1>3, <1>4, Zenon

------------------------------------------------------------------------------
(* Changes of the graph *)

\* All fields but the gradient.
SameNode(a, b) ==
  /\ a.calcGrad = b.calcGrad /\ a.type = b.type /\ a.op = b.op
  /\ a.inputs = b.inputs /\ a.kept = b.kept /\ a.hook = b.hook

\* The gradients of t are those of ns and what gain adds where one is needed.
Gains(t, ns, gain) ==
  /\ t \in Seq(NodeType) /\ DOMAIN t = DOMAIN ns
  /\ \A u \in DOMAIN ns :
       /\ SameNode(t[u], ns[u])
       /\ t[u].grad = ns[u].grad + (IF ns[u].calcGrad THEN gain[u] ELSE 0)

\* The fields of a variable.
LEMMA NodeOf ==
  ASSUME NEW ns \in Seq(NodeType), NEW u \in DOMAIN ns
  PROVE  ns[u] \in NodeType /\ ns[u].grad \in Nat /\ u \in Nat
<1>1. ns[u] \in NodeType /\ u \in Nat
  OBVIOUS
<1> QED
  BY <1>1 DEF NodeType

\* addGrad adds a gradient to one variable (Variable::addGrad).
LEMMA AddGradGains ==
  ASSUME NEW ns \in Seq(NodeType), NEW v \in DOMAIN ns, NEW g \in Nat,
         NEW t, t = addGrad(ns, v, g)
  PROVE  Gains(t, ns, [u \in DOMAIN ns |-> Hit(v, u) * g])
<1>1. ns[v] \in NodeType
  OBVIOUS
<1>2. ASSUME NEW u \in DOMAIN ns
      PROVE  Hit(v, u) * g = IF u = v THEN g ELSE 0
  BY DEF Hit
<1>3. CASE ns[v].calcGrad
  <2>1. t = [ns EXCEPT ![v].grad = ns[v].grad + g]
    BY <1>3 DEF addGrad
  <2>2. ns[v].grad + g \in Nat
    BY <1>1 DEF NodeType
  <2>3. [ns[v] EXCEPT !.grad = ns[v].grad + g] \in NodeType
    BY <1>1, <2>2, Zenon DEF NodeType
  <2>4. t = [ns EXCEPT ![v] = [ns[v] EXCEPT !.grad = ns[v].grad + g]]
    BY <2>1
  <2>5. t \in Seq(NodeType) /\ DOMAIN t = DOMAIN ns
    BY <2>3, <2>4
  <2>6. ASSUME NEW u \in DOMAIN ns
        PROVE  /\ SameNode(t[u], ns[u])
               /\ t[u].grad = ns[u].grad + (IF ns[u].calcGrad THEN Hit(v, u) * g ELSE 0)
    <3>1. ns[u] \in NodeType
      OBVIOUS
    <3>2. CASE u = v
      <4>1. t[u] = [ns[v] EXCEPT !.grad = ns[v].grad + g]
        BY <3>2, <2>4
      <4>2. t[u].grad = ns[u].grad + g
        BY <4>1, <1>1, <3>2 DEF NodeType
      <4>3. SameNode(t[u], ns[u])
        BY <4>1, <1>1, <3>2 DEF NodeType, SameNode
      <4> QED
        BY <4>2, <4>3, <3>2, <1>2, <1>3
    <3>3. CASE u # v
      <4>1. t[u] = ns[u]
        BY <3>3, <2>4
      <4>2. ns[u].grad \in Nat
        BY <3>1 DEF NodeType
      <4> QED
        BY <4>1, <4>2, <3>3, <1>2 DEF SameNode
    <3> QED
      BY <3>2, <3>3
  <2> QED
    BY <2>5, <2>6, Zenon DEF Gains
<1>4. CASE ~ns[v].calcGrad
  <2>1. t = ns
    BY <1>4, Zenon DEF addGrad
  <2>2. ASSUME NEW u \in DOMAIN ns
        PROVE  /\ SameNode(t[u], ns[u])
               /\ t[u].grad = ns[u].grad + (IF ns[u].calcGrad THEN Hit(v, u) * g ELSE 0)
    <3>1. ns[u].grad \in Nat
      BY NodeOf, Zenon
    <3> QED
      BY <3>1, <2>1, <1>2, <1>4 DEF SameNode
  <2> QED
    BY <2>1, <2>2, Zenon DEF Gains
<1> QED
  BY <1>3, <1>4, Zenon

\* gradFunc hands the gradient of v to u as often as u is an input of v.
LEMMA GradFuncHands ==
  \A ns : IsGraph(ns) => \A v \in DOMAIN ns : ns[v].inputs # <<>> =>
    Gains(gradFunc(ns, ns[v]), ns, [u \in DOMAIN ns |-> Times(ns, v, u) * ns[v].grad])
\* Gradients that are added one after the other.
<1>GainsTwice.
    ASSUME NEW ns \in Seq(NodeType), NEW a \in [DOMAIN ns -> Nat], NEW b \in [DOMAIN ns -> Nat],
           NEW s, Gains(s, ns, a), NEW t, Gains(t, s, b),
           NEW c, \A u \in DOMAIN ns : c[u] = a[u] + b[u]
    PROVE  Gains(t, ns, c)
  <2> USE <1>GainsTwice
  <2>1. t \in Seq(NodeType) /\ DOMAIN s = DOMAIN ns /\ DOMAIN t = DOMAIN ns
    BY Zenon DEF Gains
  <2>2. ASSUME NEW u \in DOMAIN ns
        PROVE  /\ SameNode(t[u], ns[u])
               /\ t[u].grad = ns[u].grad + (IF ns[u].calcGrad THEN c[u] ELSE 0)
    <3>1. SameNode(s[u], ns[u]) /\ SameNode(t[u], s[u])
      BY <2>1, Zenon DEF Gains
    <3>2. SameNode(t[u], ns[u]) /\ s[u].calcGrad = ns[u].calcGrad
      BY <3>1, Zenon DEF SameNode
    <3>3. /\ s[u].grad = ns[u].grad + (IF ns[u].calcGrad THEN a[u] ELSE 0)
          /\ t[u].grad = s[u].grad + (IF s[u].calcGrad THEN b[u] ELSE 0)
      BY <2>1, Zenon DEF Gains
    <3>4. ns[u].grad \in Nat /\ a[u] \in Nat /\ b[u] \in Nat /\ c[u] = a[u] + b[u]
      BY NodeOf, Zenon
    <3>5. t[u].grad = ns[u].grad + (IF ns[u].calcGrad THEN c[u] ELSE 0)
      BY <3>2, <3>3, <3>4
    <3> QED
      BY <3>2, <3>5, Zenon
  <2> QED
    BY <2>1, <2>2, Zenon DEF Gains
\* gradFunc hands the gradient of v to u as often as u is an input of v.
<1>GradFuncGains.
    ASSUME NEW ns, IsGraph(ns), NEW v \in DOMAIN ns, ns[v].inputs # <<>>,
           NEW t, t = gradFunc(ns, ns[v])
    PROVE  Gains(t, ns, [u \in DOMAIN ns |-> Times(ns, v, u) * ns[v].grad])
  <2> USE <1>GradFuncGains
  <2> DEFINE ins == ns[v].inputs
             g == ns[v].grad
             D == DOMAIN ns
             one == addGrad(ns, ins[1], g)
  <2>1. ns \in Seq(NodeType) /\ Inputs(ns, v)
    BY Zenon DEF IsGraph
  <2>2. v \in Nat /\ g \in Nat /\ \A w \in 1..(v - 1) : w \in D
    <3>1. v \in Nat /\ g \in Nat
      BY <2>1, NodeOf, Zenon
    <3>2. \A w \in 1..(v - 1) : w \in D
      BY <2>1
    <3> QED
      BY <3>1, <3>2, Zenon
  <2>3. ins \in Seq(1..(v - 1)) /\ Len(ins) \in 0..2
    BY <2>1, Zenon DEF Inputs
  <2>4. Len(ins) # 0 /\ ins[1] \in 1..(v - 1) /\ (Len(ins) = 2 => ins[2] \in 1..(v - 1))
    BY <2>3
  <2>5. ins[1] \in D /\ (Len(ins) = 2 => ins[2] \in D)
    BY <2>2, <2>4, Zenon
  <2>6. \A u \in D : Times(ns, v, u) = Hits(ins, u)
    BY <2>1, TimesIs, Zenon
  <2> DEFINE h(k) == [u \in D |-> Hit(ins[k], u) * g]
             all == [u \in D |-> Times(ns, v, u) * g]
  <2> HIDE DEF ins, g, D
  <2>7. Gains(one, ns, h(1))
    BY <2>1, <2>2, <2>5, AddGradGains, Zenon DEF D
  <2>8. CASE Len(ins) = 1
    <3>1. t = one
      BY <2>8, Zenon DEF gradFunc, ins, g
    <3>2. h(1) = all
      BY <2>4, <2>6, <2>8, Zenon DEF Hits
    <3> QED
      BY <3>1, <3>2, <2>7, Zenon DEF D, g
  <2>9. CASE Len(ins) = 2
    <3>1. t = addGrad(one, ins[2], g)
      <4>1. Len(ins) # 1
        BY <2>9
      <4> QED
        BY <4>1, Zenon DEF gradFunc, ins, g
    <3>2. one \in Seq(NodeType) /\ DOMAIN one = D
      BY <2>7, Zenon DEF Gains, D
    <3>3. Gains(t, one, h(2))
      <4> HIDE DEF one
      <4> QED
        BY <3>1, <3>2, <2>2, <2>5, <2>9, AddGradGains
    <3>4. h(1) \in [D -> Nat] /\ h(2) \in [D -> Nat]
      BY <2>2 DEF Hit
    <3>5. \A u \in D : all[u] = h(1)[u] + h(2)[u]
      <4>1. \A u \in D : Times(ns, v, u) = Hit(ins[1], u) + Hit(ins[2], u)
        BY <2>6, <2>9 DEF Hits
      <4> QED
        BY <4>1, <2>2 DEF Hit
    <3>6. Gains(t, ns, all)
      <4> DEFINE h1 == h(1)
                 h2 == h(2)
      <4>1. /\ h1 \in [DOMAIN ns -> Nat] /\ h2 \in [DOMAIN ns -> Nat]
            /\ Gains(one, ns, h1) /\ Gains(t, one, h2)
            /\ \A u \in DOMAIN ns : all[u] = h1[u] + h2[u]
        BY <2>7, <3>3, <3>4, <3>5, Zenon DEF D
      <4> HIDE DEF h1, h2, one, all
      <4> QED
        BY <4>1, <2>1, <1>GainsTwice, Zenon
    <3> QED
      BY <3>6, Zenon DEF D, g
  <2> QED
    BY <2>3, <2>4, <2>8, <2>9
<1> QED
  BY <1>GradFuncGains


\* What the operations on a variable that is there leave of it.
Kin(a, b) ==
  /\ a.type = b.type
  /\ (a.op = b.op /\ a.inputs = b.inputs) \/ a.inputs = <<>>
  /\ a.op # "none" \/ a.grad # 0 => a.calcGrad

\* A graph stays one when operations lose their inputs or functions.
LEMMA GraphKept ==
  ASSUME NEW ns, IsGraph(ns), NEW t \in Seq(NodeType), DOMAIN t = DOMAIN ns,
         \A u \in DOMAIN ns : Kin(t[u], ns[u])
  PROVE  IsGraph(t)
<1> SUFFICES ASSUME NEW v \in DOMAIN t PROVE Inputs(t, v) /\ Sound(t, v)
  BY Zenon DEF IsGraph
<1>1. Inputs(ns, v) /\ Sound(ns, v) /\ Kin(t[v], ns[v]) /\ ns \in Seq(NodeType)
  BY Zenon DEF IsGraph
<1>2. CASE t[v].inputs = <<>>
  <2>1. Inputs(t, v)
    BY <1>2 DEF Inputs
  <2>2. Len(t[v].inputs) = 0 /\ \A k \in 1..Len(t[v].inputs) : FALSE
    BY <1>2
  <2>3. Sound(t, v)
    BY <1>1, <1>2, <2>2, Zenon DEF Sound, Kin
  <2> QED
    BY <2>1, <2>3, Zenon
<1>3. CASE t[v].inputs # <<>>
  <2>1. t[v].inputs = ns[v].inputs /\ t[v].op = ns[v].op /\ t[v].type = ns[v].type
    BY <1>1, <1>3, Zenon DEF Kin
  <2>2. Inputs(t, v)
    BY <2>1, <1>1, Zenon DEF Inputs
  <2>3. ASSUME NEW k \in 1..Len(t[v].inputs)
        PROVE  t[t[v].inputs[k]].type = ns[ns[v].inputs[k]].type
    <3>1. t[v].inputs \in Seq(1..(v - 1))
      BY <2>2, Zenon DEF Inputs
    <3>2. t[v].inputs[k] \in 1..(v - 1)
      BY <3>1
    <3>3. t[v].inputs[k] \in DOMAIN ns
      BY <3>2, <1>1
    <3> QED
      BY <3>3, <2>1, Zenon DEF Kin
  <2>4. Sound(t, v)
    BY <2>1, <2>3, <1>1, Zenon DEF Sound, Kin
  <2> QED
    BY <2>2, <2>4, Zenon
<1> QED
  BY <1>2, <1>3, Zenon

\* What a new variable is.
Fits(ns, n) ==
  /\ n \in NodeType /\ n.inputs \in Seq(DOMAIN ns) /\ Len(n.inputs) \in 0..2
  /\ n.op # "none" \/ n.grad # 0 => n.calcGrad
  /\ n.inputs # <<>> <=> n.op # "none"
  /\ n.op = "product" => Len(n.inputs) = 2
  /\ n.op # "as" => \A k \in 1..Len(n.inputs) : ns[n.inputs[k]].type = n.type

Grown(t, ns, n, e) ==
  /\ DOMAIN t = DOMAIN ns \cup {e} /\ t[e] = n
  /\ \A u \in DOMAIN ns : t[u] = ns[u]
  /\ \A u \in DOMAIN ns : \A k \in 1..Len(ns[u].inputs) :
       ns[u].inputs[k] \in DOMAIN ns

------------------------------------------------------------------------------
(* The invariant *)

\* The kinds of calls that are counted.
Kinds == {"new", "other", "switch", "backward"}

\* What gradFunc needs of the inputs of n is there.
CanPass(ns, n) ==
  n.inputs # <<>> =>
    /\ n.op = "index" => ns[n.inputs[1]].calcGrad
    /\ n.op = "product" => \A k \in 1..2 :
         ns[n.inputs[k]].calcGrad => 3 - k \in n.kept

\* The gradient of every variable of d has come, or will come.
Comes(ns, d) ==
  \A k \in 1..Len(d) :
    \/ ~ns[d[k]].calcGrad \/ ns[d[k]].grad # 0
    \/ \E j \in (k + 1)..Len(d) : d[k] \in Range(ns[d[j]].inputs)

\* What a pass changes: gradients, and the inputs of what it has visited.
SamePass(old, ns, d) ==
  /\ DOMAIN old = DOMAIN ns
  /\ \A u \in DOMAIN ns :
       /\ old[u].calcGrad = ns[u].calcGrad /\ old[u].op = ns[u].op
       /\ old[u].hook = ns[u].hook
       /\ u \in Range(d) => old[u].inputs = ns[u].inputs

\* What each variable passes on to u in the whole pass.
Through(u) == [c \in 1..pass.root |-> Times(before, c, u) * Derivative(c)]

Visited == (1..pass.root) \ Range(dag)

\* What the visited variables have passed on to u.
Passed(u) == (IF u = pass.root THEN 1 ELSE 0) + Total(Through(u), Visited)

\* The hypothesis of GradientsAreDerivatives.
Fresh == \A v \in DOMAIN before : before[v].op # "none" => before[v].grad = 0

\* The gradients between two visits.
GradsInv ==
  Fresh => \A u \in Vars :
    nodes[u].grad = before[u].grad + (IF before[u].calcGrad THEN Passed(u) ELSE 0)

\* The hooks of the visited variables have been called, the others not yet.
HooksInv ==
  /\ DOMAIN hooked = Vars
  /\ \A u \in Vars :
       /\ u \in Range(dag) => hooked[u] = <<>>
       /\ before[u].hook /\ Derivative(u) > 0 /\ u \notin Range(dag) =>
            Len(hooked[u]) = 1

\* What holds while a pass runs.
PassInv ==
  /\ pass.root \in Vars /\ pass.retain \in BOOLEAN
  /\ IsOrder(nodes, dag, pass.root) /\ Comes(nodes, dag)
  /\ IsGraph(before) /\ SamePass(before, nodes, dag)
  /\ HooksInv /\ GradsInv

\* Before a second pass, only the variables that the first has visited can have
\* lost their inputs.
Cleared ==
  calls["backward"] <= 1 => \A v \in Vars :
    nodes[v].op # "none" /\ nodes[v].inputs = <<>> =>
      calls["backward"] = 1 /\ v \notin Range(dag)

\* What holds unless an exception has been thrown.
GraphInv ==
  /\ calls \in [Kinds -> Nat]
  /\ IsGraph(nodes)
  /\ calls["switch"] = 0 => \A v \in Vars : CanPass(nodes, nodes[v])
  /\ Cleared
  /\ dag # <<>> => calls["backward"] # 0 /\ PassInv

\* The inductive invariant.
Inv == FailsOnlyOnMisuse /\ (error = "none" => GraphInv)

------------------------------------------------------------------------------
(* The calls of the program *)

\* A call, while no pass runs.
LEMMA CallCounts ==
  ASSUME Inv, NEW kind \in Kinds, Call(kind)
  PROVE  /\ GraphInv /\ error = "none" /\ dag = <<>>
         /\ calls' \in [Kinds -> Nat]
         /\ \A k \in Kinds : calls'[k] = calls[k] + (IF k = kind THEN 1 ELSE 0)
<1>1. GraphInv /\ error = "none" /\ dag = <<>>
  BY Zenon DEF Inv, Call
<1>2. calls \in [Kinds -> Nat] /\ calls' = [calls EXCEPT ![kind] = calls[kind] + 1]
  BY <1>1, Zenon DEF GraphInv, Call
<1>3. calls' \in [Kinds -> Nat]
  BY <1>2
<1>4. \A k \in Kinds : calls'[k] = calls[k] + (IF k = kind THEN 1 ELSE 0)
  BY <1>2
<1> QED
  BY <1>1, <1>3, <1>4, Zenon

Node(c, t, op, ins, kept) ==
  [calcGrad |-> c, type |-> t, op |-> op, inputs |-> ins, kept |-> kept, grad |-> 0,
   hook |-> FALSE]

\* Inv and a call while the program runs.
LEMMA CallFrom ==
  ASSUME Inv, error = "none"
  PROVE  IsGraph(nodes)
BY Zenon DEF Inv, GraphInv

\* What zeroGrad, the hooks and setCalcGrad may make of a node.
Changed(m, n, kind) ==
  /\ m \in NodeType /\ Kin(m, n)
  /\ m.op # "none" /\ m.inputs = <<>> => n.op # "none" /\ n.inputs = <<>>
  /\ kind # "switch" =>
       m.calcGrad = n.calcGrad /\ m.op = n.op /\ m.inputs = n.inputs /\ m.kept = n.kept

\* The calls that make a variable or change one keep the invariant.
LEMMA CallsKeep ==
  Inv /\ (\/ Leaf \/ Sum \/ Product \/ Index \/ As
          \/ zeroGrad \/ setCalcGrad \/ GradHook) => Inv'
\* A graph stays one when a variable is made from others.
<1>GraphGrown.
    ASSUME NEW ns, IsGraph(ns), NEW n, Fits(ns, n), NEW t, t = Append(ns, n),
           NEW e, e = Len(ns) + 1
    PROVE  IsGraph(t) /\ Grown(t, ns, n, e)
  <2> USE <1>GraphGrown
  <2>1. ns \in Seq(NodeType) /\ n \in NodeType
    BY Zenon DEF IsGraph, Fits
  <2>2. /\ t \in Seq(NodeType) /\ DOMAIN t = DOMAIN ns \cup {e} /\ t[e] = n
        /\ DOMAIN ns = 1..(e - 1) /\ e \in Nat
        /\ \A u \in DOMAIN ns : t[u] = ns[u]
    BY <2>1
  <2>3. ASSUME NEW u \in DOMAIN ns
        PROVE  \A k \in 1..Len(ns[u].inputs) : ns[u].inputs[k] \in DOMAIN ns
    <3>1. ns[u].inputs \in Seq(1..(u - 1))
      BY Zenon DEF IsGraph, Inputs
    <3> DEFINE S == 1..(u - 1)
               ins == ns[u].inputs
    <3>a. ins \in Seq(S)
      BY <3>1, Zenon
    <3> HIDE DEF S, ins
    <3>b. \A k \in 1..Len(ins) : ins[k] \in S
      BY <3>a
    <3>2. \A k \in 1..Len(ns[u].inputs) : ns[u].inputs[k] \in 1..(u - 1)
      BY <3>b, Zenon DEF S, ins
    <3>3. \A w \in 1..(u - 1) : w \in DOMAIN ns
      BY <2>2
    <3> QED
      BY <3>2, <3>3, Zenon
  <2>4. ASSUME NEW u \in DOMAIN ns PROVE Inputs(t, u) /\ Sound(t, u)
    <3>1. Inputs(ns, u) /\ Sound(ns, u) /\ t[u] = ns[u]
      BY <2>2, Zenon DEF IsGraph
    <3>2. \A k \in 1..Len(ns[u].inputs) : t[ns[u].inputs[k]] = ns[ns[u].inputs[k]]
      BY <2>2, <2>3, Zenon
    <3> QED
      BY <3>1, <3>2, ZenonT(30) DEF Inputs, Sound
  <2>5. Inputs(t, e) /\ Sound(t, e)
    <3>1. n.inputs \in Seq(1..(e - 1)) /\ Len(n.inputs) \in 0..2
      BY <2>2, Zenon DEF Fits
    <3>2. \A k \in 1..Len(n.inputs) : n.inputs[k] \in DOMAIN ns
      BY <3>1, <2>2
    <3>3. \A k \in 1..Len(n.inputs) : t[n.inputs[k]] = ns[n.inputs[k]]
      BY <2>2, <3>2, Zenon
    <3>4. Inputs(t, e)
      BY <3>1, <2>2, Zenon DEF Inputs
    <3>5. Sound(t, e)
      <4>1. n.op = "product" => Len(n.inputs) \in {0, 2}
        BY Zenon DEF Fits
      <4>2. n.op # "none" \/ n.grad # 0 => n.calcGrad
        BY Zenon DEF Fits
      <4>3. n.inputs # <<>> => n.op # "none"
        BY Zenon DEF Fits
      <4>4. n.op # "as" => \A k \in 1..Len(n.inputs) : t[n.inputs[k]].type = n.type
        BY <3>3, Zenon DEF Fits
      <4>5. t[e] = n
        BY <2>2, Zenon
      <4> QED
        BY <4>1, <4>2, <4>3, <4>4, <4>5, ZenonT(30) DEF Sound
    <3> QED
      BY <3>4, <3>5, Zenon
  <2> QED
    BY <2>2, <2>3, <2>4, <2>5, Zenon DEF IsGraph, Grown
\* A call that is no backward pass: only the graph is to be looked at.
<1>QuietStep.
    ASSUME error' = "none", dag' = <<>>, calls' \in [Kinds -> Nat],
           IsGraph(nodes'), calls'["switch"] = 0 => \A v \in Vars' : CanPass(nodes', nodes'[v]),
           Cleared'
    PROVE  Inv'
  BY <1>QuietStep, Zenon DEF Inv, FailsOnlyOnMisuse, GraphInv
\* The constructors of Variable keep the invariant.
<1>NewKeeps.
    ASSUME Inv, NEW c, NEW t, NEW op, NEW ins, NEW kept, New(c, t, op, ins, kept),
           NEW n, n = Node(c, t, op, ins, kept), Fits(nodes, n), CanPass(nodes, n)
    PROVE  Inv'
  <2> USE <1>NewKeeps
  <2> DEFINE e == Len(nodes) + 1
  <2>1. /\ nodes' = Append(nodes, n) /\ Call("new")
        /\ dag' = dag /\ error' = error
    BY Zenon DEF New, Node
  <2>2. /\ GraphInv /\ error' = "none" /\ dag' = <<>> /\ calls' \in [Kinds -> Nat]
        /\ \A k \in Kinds : calls'[k] = calls[k] + (IF k = "new" THEN 1 ELSE 0)
    <3>1. "new" \in Kinds
      BY Zenon DEF Kinds
    <3> QED
      BY <2>1, <3>1, CallCounts, Zenon
  <2>3. calls'["switch"] = calls["switch"] /\ calls'["backward"] = calls["backward"]
    <3>1. calls \in [Kinds -> Nat] /\ "switch" \in Kinds /\ "backward" \in Kinds
      BY <2>2, Zenon DEF GraphInv, Kinds
    <3> QED
      BY <2>2, <3>1
  <2>4. IsGraph(nodes)
    BY <2>2, Zenon DEF GraphInv
  <2>5. /\ IsGraph(nodes') /\ Vars' = Vars \cup {e} /\ nodes'[e] = n
        /\ \A u \in Vars : nodes'[u] = nodes[u]
        /\ \A u \in Vars : \A k \in 1..Len(nodes[u].inputs) : nodes[u].inputs[k] \in Vars
    <3>1. e = Len(nodes) + 1
      OBVIOUS
    <3> HIDE DEF e
    <3>2. IsGraph(nodes') /\ Grown(nodes', nodes, n, e)
      BY <3>1, <2>1, <2>4, <1>GraphGrown, Zenon
    <3> QED
      BY <3>2, Zenon DEF Grown, Vars
  <2>6. ASSUME calls'["switch"] = 0, NEW v \in Vars' PROVE CanPass(nodes', nodes'[v])
    <3>1. CASE v = e
      <4>1. \A k \in 1..Len(n.inputs) : n.inputs[k] \in Vars
        BY DEF Fits, Vars
      <4>2. \A k \in 1..Len(n.inputs) : nodes'[n.inputs[k]] = nodes[n.inputs[k]]
        BY <4>1, <2>5, Zenon
      <4>3. n.inputs # <<>> => 1 \in 1..Len(n.inputs)
        BY DEF Fits
      <4>4. n.op = "product" => \A k \in 1..2 : k \in 1..Len(n.inputs)
        BY SMTT(30) DEF Fits
      <4>5. nodes'[v] = n
        BY <3>1, <2>5, Zenon
      <4> HIDE DEF e
      <4> QED
        BY <4>2, <4>3, <4>4, <4>5, Zenon DEF CanPass
    <3>2. CASE v # e
      <4>1. v \in Vars /\ nodes'[v] = nodes[v] /\ CanPass(nodes, nodes[v])
        BY <3>2, <2>2, <2>3, <2>5, <2>6, Zenon DEF GraphInv
      <4> DEFINE m == nodes[v]
      <4>2. \A k \in 1..Len(m.inputs) : nodes'[m.inputs[k]] = nodes[m.inputs[k]]
        BY <4>1, <2>5, Zenon
      <4>3. Inputs(nodes, v) /\ Sound(nodes, v)
        BY <4>1, <2>4, Zenon DEF IsGraph, Vars
      <4>4. m.inputs # <<>> => 1 \in 1..Len(m.inputs)
        BY <4>3 DEF Inputs
      <4>5. m.inputs # <<>> /\ m.op = "product" => \A k \in 1..2 : k \in 1..Len(m.inputs)
        BY <4>3 DEF Inputs, Sound
      <4> HIDE DEF e, m
      <4>6. CanPass(nodes, m) /\ nodes'[v] = m
        BY <4>1, Zenon DEF m
      <4> QED
        BY <4>2, <4>4, <4>5, <4>6, Zenon DEF CanPass
    <3> QED
      BY <3>1, <3>2, Zenon
  <2>7. Cleared'
    <3> SUFFICES ASSUME calls'["backward"] <= 1, NEW v \in Vars',
                        nodes'[v].op # "none", nodes'[v].inputs = <<>>
                 PROVE  calls'["backward"] = 1 /\ v \notin Range(dag')
      BY Zenon DEF Cleared
    <3>1. v # e
      BY <2>5, Zenon DEF Fits
    <3>2. v \in Vars /\ nodes'[v] = nodes[v]
      BY <3>1, <2>5, Zenon
    <3>3. calls["backward"] = 1 /\ v \notin Range(dag)
      BY <3>2, <2>2, <2>3, Zenon DEF GraphInv, Cleared
    <3> QED
      BY <3>3, <2>1, <2>3, Zenon
  <2> QED
    BY <2>2, <2>5, <2>6, <2>7, <1>QuietStep, Zenon
\* A variable without inputs.
<1>LeafFits.
    ASSUME NEW c \in BOOLEAN, NEW t \in Types, NEW n, n = Node(c, t, "none", <<>>, {})
    PROVE  Fits(nodes, n) /\ CanPass(nodes, n)
  <2> USE <1>LeafFits
  <2>1. /\ n.calcGrad = c /\ n.type = t /\ n.op = "none" /\ n.inputs = <<>>
        /\ n.grad = 0
    BY DEF Node
  <2>2. n \in NodeType
    BY DEF Node, NodeType, Ops
  <2>3. n.inputs \in Seq(DOMAIN nodes) /\ Len(n.inputs) = 0
    <3>1. \A S : <<>> \in Seq(S) /\ Len(<<>>) = 0
      OBVIOUS
    <3> QED
      BY <2>1, <3>1, Zenon
  <2>4. \A k \in 1..Len(n.inputs) : FALSE
    BY <2>3
  <2>5. Len(n.inputs) \in 0..2
    BY <2>3
  <2>6. n.op # "product"
    BY <2>1
  <2>7. Fits(nodes, n)
    BY <2>1, <2>2, <2>3, <2>4, <2>5, <2>6, Zenon DEF Fits
  <2> QED
    BY <2>1, <2>7, Zenon DEF CanPass
\* An operation on inputs of which one needs a gradient.
<1>OperationFits.
    ASSUME IsGraph(nodes), NEW t \in Types, NEW op \in Ops \ {"none"},
           NEW ins \in Seq(Vars), Len(ins) \in 1..2, NEW kept \in SUBSET (1..2),
           op = "product" => Len(ins) = 2,
           op # "as" => \A k \in 1..Len(ins) : nodes[ins[k]].type = t,
           NEW n, n = Node(TRUE, t, op, ins, kept)
    PROVE  Fits(nodes, n)
  <2> USE <1>OperationFits
  <2>1. n.calcGrad = TRUE /\ n.type = t /\ n.op = op /\ n.inputs = ins /\ n.grad = 0
    BY DEF Node
  <2>2. ins \in Seq(Nat)
    <3>1. \A v \in Vars : v \in Nat
      BY DEF IsGraph, Vars
    <3> QED
      BY <3>1
  <2>3. n \in NodeType
    BY <2>2 DEF Node, NodeType
  <2>4. Len(ins) \in 0..2 /\ ins # <<>> /\ op # "none"
    OBVIOUS
  <2>5. ins \in Seq(DOMAIN nodes)
    BY Zenon DEF Vars
  <2>6. n.inputs \in Seq(DOMAIN nodes) /\ Len(n.inputs) \in 0..2
    BY <2>1, <2>4, <2>5, Zenon
  <2>7. n.calcGrad /\ n.inputs # <<>> /\ n.op # "none"
    BY <2>1, <2>4, Zenon
  <2>8. n.op = "product" => Len(n.inputs) = 2
    BY <2>1, Zenon
  <2>9. n.op # "as" => \A k \in 1..Len(n.inputs) : nodes[n.inputs[k]].type = n.type
    BY <2>1, ZenonT(30)
  <2> QED
    BY <2>3, <2>6, <2>7, <2>8, <2>9, Zenon DEF Fits
\* An operation keeps the invariant if gradFunc has what it needs.
<1>NewFromKeeps.
    ASSUME Inv, NEW t \in Types, NEW op \in Ops \ {"none"},
           NEW ins \in Seq(Vars), Len(ins) \in 1..2, NEW kept \in SUBSET (1..2),
           op = "product" => Len(ins) = 2,
           op # "as" => \A k \in 1..Len(ins) : nodes[ins[k]].type = t,
           NeedsGrad(ins) => CanPass(nodes, Node(TRUE, t, op, ins, kept)),
           NewFrom(t, op, ins, kept)
    PROVE  Inv'
  <2> USE <1>NewFromKeeps
  <2>1. CASE NeedsGrad(ins)
    <3>1. New(TRUE, t, op, ins, kept)
      BY <2>1, Zenon DEF NewFrom
    <3>2. IsGraph(nodes)
      <4>1. error = "none"
        BY <3>1, Zenon DEF New, Call
      <4> QED
        BY <4>1, CallFrom, Zenon
    <3> DEFINE n == Node(TRUE, t, op, ins, kept)
    <3>3. n = Node(TRUE, t, op, ins, kept) /\ CanPass(nodes, n)
      BY <2>1, Zenon
    <3> HIDE DEF n
    <3>4. Fits(nodes, n)
      BY <3>2, <3>3, <1>OperationFits, Zenon
    <3> QED
      BY <3>1, <3>3, <3>4, <1>NewKeeps, Zenon
  <2>2. CASE ~NeedsGrad(ins)
    <3>1. New(FALSE, t, "none", <<>>, {})
      BY <2>2, Zenon DEF NewFrom
    <3> DEFINE n == Node(FALSE, t, "none", <<>>, {})
    <3>2. n = Node(FALSE, t, "none", <<>>, {})
      BY Zenon
    <3> HIDE DEF n
    <3>3. Fits(nodes, n) /\ CanPass(nodes, n)
      BY <3>2, <1>LeafFits, Zenon
    <3> QED
      BY <3>1, <3>2, <3>3, <1>NewKeeps, Zenon
  <2> QED
    BY <2>1, <2>2, Zenon
\* Variable(array, calcGrad) keeps the invariant.
<1>LeafKeeps.
    ASSUME Inv, Leaf
    PROVE  Inv'
  <2> USE <1>LeafKeeps
  <2>1. PICK c \in BOOLEAN, t \in Types : New(c, t, "none", <<>>, {})
    BY Zenon DEF Leaf
  <2> DEFINE n == Node(c, t, "none", <<>>, {})
  <2>2. n = Node(c, t, "none", <<>>, {})
    BY Zenon
  <2> HIDE DEF n
  <2>3. Fits(nodes, n) /\ CanPass(nodes, n)
    BY <2>2, <1>LeafFits, Zenon
  <2> QED
    BY <2>1, <2>2, <2>3, <1>NewKeeps, Zenon
\* The graph that an operation adds to.
<1>RunningGraph.
    ASSUME Inv, NEW t, NEW op, NEW ins, NEW kept, NewFrom(t, op, ins, kept)
    PROVE  IsGraph(nodes) /\ \A v \in Vars : nodes[v].type \in Types
  <2> USE <1>RunningGraph
  <2>1. error = "none"
    BY Zenon DEF NewFrom, New, Call
  <2>2. IsGraph(nodes)
    BY <2>1, CallFrom, Zenon
  <2>3. ASSUME NEW v \in Vars PROVE nodes[v].type \in Types
    <3>1. nodes[v] \in NodeType
      BY <2>2, NodeOf, Zenon DEF IsGraph, Vars
    <3> QED
      BY <3>1 DEF NodeType
  <2> QED
    BY <2>2, <2>3, Zenon
\* A pair is a sequence.
<1>PairSeq.
    ASSUME NEW S, NEW p \in S \X S
    PROVE  p \in Seq(S) /\ Len(p) = 2 /\ p[1] \in S /\ p[2] \in S
  <2> USE <1>PairSeq
  <2>1. PICK a \in S, b \in S : p = <<a, b>>
    OBVIOUS
  <2> QED
    BY <2>1
\* operator+ and - keep the invariant.
<1>SumKeeps.
    ASSUME Inv, Sum
    PROVE  Inv'
  <2> USE <1>SumKeeps
  <2>1. PICK p \in Pairs : NewFrom(nodes[p[1]].type, "sum", p, {})
    BY Zenon DEF Sum
  <2> DEFINE t == nodes[p[1]].type
             n == Node(TRUE, t, "sum", p, {})
  <2>2. /\ p \in Vars \X Vars /\ nodes[p[1]].type = nodes[p[2]].type
    BY Zenon DEF Pairs
  <2>3. p \in Seq(Vars) /\ Len(p) = 2 /\ p[1] \in Vars
    BY <2>2, <1>PairSeq, Zenon
  <2>4. t \in Types
    BY <2>1, <2>3, <1>RunningGraph, Zenon
  <2>5. \A k \in 1..Len(p) : nodes[p[k]].type = t
    BY <2>2, <2>3
  <2>6. n.op = "sum"
    BY DEF Node
  <2>7. CanPass(nodes, n)
    <3> HIDE DEF n
    <3> QED
      BY <2>6 DEF CanPass
  <2>8. "sum" \in Ops \ {"none"} /\ {} \in SUBSET (1..2) /\ "sum" # "product"
    BY DEF Ops
  <2>9. Len(p) \in 1..2
    BY <2>3
  <2> QED
    BY <2>1, <2>3, <2>4, <2>5, <2>7, <2>8, <2>9, <1>NewFromKeeps, Zenon
\* operator* keeps the invariant: it keeps the array that the gradient of the
\* other factor needs.
<1>ProductKeeps.
    ASSUME Inv, Product
    PROVE  Inv'
  <2> USE <1>ProductKeeps
  <2>1. PICK p \in Pairs : NewFrom(nodes[p[1]].type, "product", p, Kept(p))
    BY Zenon DEF Product
  <2> DEFINE t == nodes[p[1]].type
             n == Node(TRUE, t, "product", p, Kept(p))
  <2>2. /\ p \in Vars \X Vars /\ nodes[p[1]].type = nodes[p[2]].type
    BY Zenon DEF Pairs
  <2>3. p \in Seq(Vars) /\ Len(p) = 2 /\ p[1] \in Vars
    BY <2>2, <1>PairSeq, Zenon
  <2>4. t \in Types
    BY <2>1, <2>3, <1>RunningGraph, Zenon
  <2>5. \A k \in 1..Len(p) : nodes[p[k]].type = t
    BY <2>2, <2>3
  <2>6. n.op = "product" /\ n.inputs = p /\ n.kept = Kept(p)
    BY DEF Node
  <2>7. CanPass(nodes, n)
    <3> HIDE DEF n
    <3>1. ASSUME NEW k \in 1..2, nodes[p[k]].calcGrad PROVE 3 - k \in Kept(p)
      <4>1. 3 - k \in 1..2 /\ 3 - (3 - k) = k
        OBVIOUS
      <4> QED
        BY <4>1, <3>1, Zenon DEF Kept
    <3>2. n.op # "index"
      BY <2>6
    <3> QED
      BY <3>1, <3>2, <2>6, Zenon DEF CanPass
  <2>8. "product" \in Ops \ {"none"} /\ Kept(p) \in SUBSET (1..2)
    BY DEF Ops, Kept
  <2>9. Len(p) \in 1..2
    BY <2>3
  <2> HIDE DEF t, n
  <2>10. NewFrom(t, "product", p, Kept(p)) /\ CanPass(nodes, Node(TRUE, t, "product", p, Kept(p)))
    BY <2>1, <2>7, Zenon DEF t, n
  <2> QED
    BY <2>10, <2>3, <2>4, <2>5, <2>8, <2>9, <1>NewFromKeeps, Zenon
\* operator() keeps the invariant.
<1>IndexKeeps.
    ASSUME Inv, Index
    PROVE  Inv'
  <2> USE <1>IndexKeeps
  <2>1. PICK v \in Vars : NewFrom(nodes[v].type, "index", <<v>>, {})
    BY Zenon DEF Index
  <2> DEFINE t == nodes[v].type
             p == <<v>>
             n == Node(TRUE, t, "index", p, {})
  <2>2. p \in Seq(Vars) /\ Len(p) = 1 /\ p[1] = v /\ Range(p) = {v}
    BY DEF Range
  <2>3. t \in Types
    BY <2>1, <1>RunningGraph, Zenon
  <2>4. \A k \in 1..Len(p) : nodes[p[k]].type = t
    BY <2>2
  <2>5. n.op = "index" /\ n.inputs = p
    BY DEF Node
  <2>6. NeedsGrad(p) => CanPass(nodes, n)
    <3> HIDE DEF n, p
    <3>1. n.op # "product"
      BY <2>5
    <3> QED
      BY <3>1, <2>2, <2>5, Zenon DEF CanPass, NeedsGrad
  <2>7. "index" \in Ops \ {"none"} /\ {} \in SUBSET (1..2) /\ "index" # "product"
    BY DEF Ops
  <2>8. Len(p) \in 1..2
    BY <2>2
  <2> HIDE DEF t, p, n
  <2>9. NewFrom(t, "index", p, {}) /\ (NeedsGrad(p) => CanPass(nodes, Node(TRUE, t, "index", p, {})))
    BY <2>1, <2>6, Zenon DEF t, p, n
  <2> QED
    BY <2>9, <2>2, <2>3, <2>4, <2>7, <2>8, <1>NewFromKeeps, Zenon
\* as keeps the invariant.
<1>AsKeeps.
    ASSUME Inv, As
    PROVE  Inv'
  <2> USE <1>AsKeeps
  <2>1. PICK v \in Vars : \E t \in Types \ {nodes[v].type} : NewFrom(t, "as", <<v>>, {})
    BY Zenon DEF As
  <2>2. PICK t \in Types : NewFrom(t, "as", <<v>>, {})
    BY <2>1, Zenon
  <2> DEFINE p == <<v>>
             n == Node(TRUE, t, "as", p, {})
  <2>3. p \in Seq(Vars) /\ Len(p) = 1
    OBVIOUS
  <2>4. n.op = "as"
    BY DEF Node
  <2>5. CanPass(nodes, n)
    <3> HIDE DEF n
    <3> QED
      BY <2>4 DEF CanPass
  <2>6. "as" \in Ops \ {"none"} /\ {} \in SUBSET (1..2) /\ "as" # "product"
    BY DEF Ops
  <2>7. Len(p) \in 1..2
    BY <2>3
  <2> HIDE DEF p, n
  <2>8. NewFrom(t, "as", p, {}) /\ CanPass(nodes, Node(TRUE, t, "as", p, {}))
    BY <2>2, <2>5, Zenon DEF p, n
  <2> QED
    BY <2>8, <2>3, <2>6, <2>7, <1>NewFromKeeps, Zenon
\* An operation on one variable keeps the invariant.
<1>ChangeKeeps.
    ASSUME Inv, NEW kind \in Kinds \ {"backward"}, Call(kind),
           dag' = dag, error' = error, NEW v \in Vars, NEW m, Changed(m, nodes[v], kind),
           nodes' = [nodes EXCEPT ![v] = m]
    PROVE  Inv'
  <2> USE <1>ChangeKeeps
  <2>1. /\ GraphInv /\ error' = "none" /\ dag' = <<>> /\ calls' \in [Kinds -> Nat]
        /\ \A k \in Kinds : calls'[k] = calls[k] + (IF k = kind THEN 1 ELSE 0)
    BY CallCounts, Zenon
  <2>2. /\ calls'["backward"] = calls["backward"]
        /\ calls'["switch"] = 0 => kind # "switch" /\ calls["switch"] = 0
    <3>1. calls \in [Kinds -> Nat] /\ "switch" \in Kinds /\ "backward" \in Kinds
      BY <2>1, Zenon DEF GraphInv, Kinds
    <3>2. calls["switch"] \in Nat /\ calls["backward"] \in Nat
      BY <3>1
    <3>3. calls'["switch"] = calls["switch"] + (IF "switch" = kind THEN 1 ELSE 0)
      BY <2>1, <3>1, Zenon
    <3>4. calls'["backward"] = calls["backward"] + (IF "backward" = kind THEN 1 ELSE 0)
      BY <2>1, <3>1, Zenon
    <3> QED
      BY <3>2, <3>3, <3>4
  <2>3. IsGraph(nodes) /\ nodes \in Seq(NodeType) /\ m \in NodeType
    BY <2>1, Zenon DEF GraphInv, IsGraph, Changed
  <2>4. /\ nodes' \in Seq(NodeType) /\ DOMAIN nodes' = DOMAIN nodes
        /\ \A u \in Vars : nodes'[u] = IF u = v THEN m ELSE nodes[u]
    BY <2>3 DEF Vars
  <2>5. IsGraph(nodes')
    <3>1. ASSUME NEW u \in DOMAIN nodes PROVE Kin(nodes'[u], nodes[u])
      <4>1. Sound(nodes, u)
        BY <2>3, Zenon DEF IsGraph
      <4> QED
        BY <4>1, <2>4, Zenon DEF Changed, Kin, Sound, Vars
    <3> QED
      BY <3>1, <2>3, <2>4, GraphKept, Zenon
  <2>6. ASSUME calls'["switch"] = 0, NEW u \in Vars' PROVE CanPass(nodes', nodes'[u])
    <3>1. u \in Vars /\ \A w \in Vars : nodes'[w].calcGrad = nodes[w].calcGrad
      BY <2>2, <2>4, <2>6, Zenon DEF Vars, Changed
    <3>2. /\ nodes'[u].op = nodes[u].op /\ nodes'[u].inputs = nodes[u].inputs
          /\ nodes'[u].kept = nodes[u].kept
      BY <2>2, <2>4, <2>6, <3>1, Zenon DEF Vars, Changed
    <3>3. CanPass(nodes, nodes[u])
      BY <2>1, <2>2, <2>6, <3>1, Zenon DEF GraphInv
    <3>4. Inputs(nodes, u) /\ Sound(nodes, u)
      BY <3>1, <2>3, Zenon DEF IsGraph, Vars
    <3> DEFINE ins == nodes[u].inputs
    <3>5. \A k \in 1..Len(ins) : ins[k] \in Vars
      <4>1. ins \in Seq(1..(u - 1)) /\ u \in 1..Len(nodes) /\ Vars = 1..Len(nodes) /\ Len(nodes) \in Nat
        BY <3>1, <3>4, <2>3 DEF Inputs, Vars
      <4> HIDE DEF ins
      <4> QED
        BY <4>1
    <3>6. ins # <<>> => 1 \in 1..Len(ins)
      BY <3>4 DEF Inputs
    <3>7. ins # <<>> /\ nodes[u].op = "product" => \A k \in 1..2 : k \in 1..Len(ins)
      <4>1. nodes[u].op = "product" => Len(ins) = 0 \/ Len(ins) = 2
        BY <3>4, Zenon DEF Sound
      <4>2. ~ (1 \in 1..0) /\ \A k \in 1..2 : k \in 1..2
        OBVIOUS
      <4> HIDE DEF ins
      <4> QED
        BY <3>6, <4>1, <4>2, Zenon
    <3>8. \A k \in 1..Len(ins) : nodes'[ins[k]].calcGrad = nodes[ins[k]].calcGrad
      BY <3>1, <3>5, Zenon
    <3> QED
      BY <3>2, <3>3, <3>6, <3>7, <3>8, Zenon DEF CanPass
  <2>7. Cleared'
    <3> SUFFICES ASSUME calls'["backward"] <= 1, NEW u \in Vars',
                        nodes'[u].op # "none", nodes'[u].inputs = <<>>
                 PROVE  calls'["backward"] = 1 /\ u \notin Range(dag')
      BY Zenon DEF Cleared
    <3>1. u \in Vars /\ nodes[u].op # "none" /\ nodes[u].inputs = <<>>
      BY <2>4, Zenon DEF Changed, Vars
    <3>2. calls["backward"] = 1 /\ u \notin Range(dag)
      BY <3>1, <2>1, <2>2, Zenon DEF GraphInv, Cleared
    <3> QED
      BY <3>2, <2>2, Zenon
  <2> QED
    BY <2>1, <2>5, <2>6, <2>7, <1>QuietStep, Zenon
\* The variable that an operation is called on.
<1>CallerNode.
    ASSUME Inv, NEW kind, Call(kind), NEW v \in Vars
    PROVE  nodes[v] \in NodeType /\ Sound(nodes, v) /\ nodes \in Seq(NodeType)
  <2> USE <1>CallerNode
  <2>1. IsGraph(nodes)
    BY CallFrom, Zenon DEF Call
  <2> QED
    BY <2>1, NodeOf, Zenon DEF IsGraph, Vars
\* zeroGrad keeps the invariant.
<1>zeroGradKeeps.
    ASSUME Inv, zeroGrad
    PROVE  Inv'
  <2> USE <1>zeroGradKeeps
  <2>1. Call("other") /\ dag' = dag /\ error' = error
    BY Zenon DEF zeroGrad
  <2>2. PICK v \in Vars : nodes' = [nodes EXCEPT ![v].grad = 0]
    BY Zenon DEF zeroGrad
  <2> DEFINE n == nodes[v]
             m == [n EXCEPT !.grad = 0]
  <2>3. n \in NodeType /\ Sound(nodes, v)
    BY <2>1, <1>CallerNode, Zenon
  <2>4. nodes' = [nodes EXCEPT ![v] = m]
    BY <2>2
  <2>5. /\ m \in NodeType /\ m.calcGrad = n.calcGrad /\ m.op = n.op /\ m.inputs = n.inputs
        /\ m.kept = n.kept /\ m.type = n.type /\ m.grad = 0
    <3> HIDE DEF n
    <3> QED
      BY <2>3 DEF NodeType
  <2>6. Changed(m, nodes[v], "other")
    <3> HIDE DEF m
    <3> QED
      BY <2>3, <2>5, Zenon DEF Changed, Kin, Sound
  <2>7. "other" \in Kinds \ {"backward"}
    BY DEF Kinds
  <2> HIDE DEF m
  <2> QED
    BY <2>1, <2>4, <2>6, <2>7, <1>ChangeKeeps, Zenon
\* registerGradHook and clearGradHook keep the invariant.
<1>GradHookKeeps.
    ASSUME Inv, GradHook
    PROVE  Inv'
  <2> USE <1>GradHookKeeps
  <2>1. Call("other") /\ dag' = dag /\ error' = error
    BY Zenon DEF GradHook
  <2>2. PICK v \in Vars : nodes' = [nodes EXCEPT ![v].hook = ~nodes[v].hook]
    BY Zenon DEF GradHook
  <2> DEFINE n == nodes[v]
             m == [n EXCEPT !.hook = ~n.hook]
  <2>3. n \in NodeType /\ Sound(nodes, v)
    BY <2>1, <1>CallerNode, Zenon
  <2>4. nodes' = [nodes EXCEPT ![v] = m]
    BY <2>2
  <2>5. /\ m \in NodeType /\ m.calcGrad = n.calcGrad /\ m.op = n.op /\ m.inputs = n.inputs
        /\ m.kept = n.kept /\ m.type = n.type /\ m.grad = n.grad
    <3> HIDE DEF n
    <3>1. n.hook \in BOOLEAN /\ (~n.hook) \in BOOLEAN
      BY <2>3 DEF NodeType
    <3> QED
      BY <2>3, <3>1, Zenon DEF NodeType
  <2>6. Changed(m, nodes[v], "other")
    <3> HIDE DEF m
    <3> QED
      BY <2>3, <2>5, Zenon DEF Changed, Kin, Sound
  <2>7. "other" \in Kinds \ {"backward"}
    BY DEF Kinds
  <2> HIDE DEF m
  <2> QED
    BY <2>1, <2>4, <2>6, <2>7, <1>ChangeKeeps, Zenon
\* setCalcGrad keeps the invariant.
<1>setCalcGradKeeps.
    ASSUME Inv, setCalcGrad
    PROVE  Inv'
  <2> USE <1>setCalcGradKeeps
  <2>1. Call("switch") /\ dag' = dag /\ error' = error
    BY Zenon DEF setCalcGrad
  <2>2. PICK v \in Vars : nodes' = [nodes EXCEPT ![v] = Switched(nodes[v])]
    BY Zenon DEF setCalcGrad
  <2> DEFINE n == nodes[v]
             m == Switched(n)
  <2>3. n \in NodeType /\ Sound(nodes, v)
    BY <2>1, <1>CallerNode, Zenon
  <2>4. nodes' = [nodes EXCEPT ![v] = m]
    BY <2>2, Zenon
  <2>5. /\ m \in NodeType /\ m.type = n.type
        /\ \/ n.calcGrad /\ m.op = "none" /\ m.inputs = <<>> /\ m.grad = 0
           \/ m.calcGrad /\ m.op = n.op /\ m.inputs = n.inputs
    <3> HIDE DEF n
    <3>1. CASE n.calcGrad
      <4>1. m = [n EXCEPT !.calcGrad = FALSE, !.op = "none", !.inputs = <<>>, !.grad = 0]
        BY <3>1, Zenon DEF Switched
      <4>2. <<>> \in Seq(Nat) /\ "none" \in Ops /\ 0 \in Nat /\ FALSE \in BOOLEAN
        BY DEF Ops
      <4> HIDE DEF m
      <4> QED
        BY <2>3, <3>1, <4>1, <4>2, Zenon DEF NodeType
    <3>2. CASE ~n.calcGrad
      BY <2>3, <3>2, Zenon DEF NodeType, Switched
    <3> QED
      BY <3>1, <3>2, Zenon
  <2>6. Changed(m, nodes[v], "switch")
    <3> HIDE DEF m
    <3> QED
      BY <2>3, <2>5, Zenon DEF Changed, Kin, Sound
  <2>7. "switch" \in Kinds \ {"backward"}
    BY DEF Kinds
  <2> HIDE DEF m
  <2> QED
    BY <2>1, <2>4, <2>6, <2>7, <1>ChangeKeeps, Zenon
<1> QED
  BY <1>LeafKeeps, <1>SumKeeps, <1>ProductKeeps, <1>IndexKeeps, <1>AsKeeps,
     <1>zeroGradKeeps, <1>setCalcGradKeeps, <1>GradHookKeeps, Zenon


------------------------------------------------------------------------------
(* The start of a pass *)

\* Through, with the graph and the root as parameters.
LEMMA ThroughIs ==
  ASSUME NEW u
  PROVE  Through(u) = Via(before, pass.root, u)
BY DerivativeIs, Zenon DEF Through, Via

\* Through after a step.
LEMMA ThroughPrimeIs ==
  ASSUME NEW u
  PROVE  Through(u)' = Via(before', pass'.root, u)
<1>1. ASSUME NEW c PROVE Derivative(c)' = Deriv(before', pass'.root, c)
  BY DerivativePrimeIs, Zenon
<1> QED
  BY <1>1, Zenon DEF Through, Via

\* A graph whose gradients grow stays one.
LEMMA GainsGraph ==
  ASSUME NEW ns, IsGraph(ns), NEW gain, NEW t, Gains(t, ns, gain)
  PROVE  IsGraph(t)
<1>1. t \in Seq(NodeType) /\ DOMAIN t = DOMAIN ns /\ ns \in Seq(NodeType)
  BY Zenon DEF Gains, IsGraph
<1>2. ASSUME NEW u \in DOMAIN ns PROVE Kin(t[u], ns[u])
  <2>1. /\ SameNode(t[u], ns[u]) /\ Sound(ns, u)
        /\ t[u].grad = ns[u].grad + (IF ns[u].calcGrad THEN gain[u] ELSE 0)
    BY Zenon DEF Gains, IsGraph
  <2>2. ns[u].grad \in Nat
    BY <1>1, NodeOf, Zenon
  <2>3. ns[u].calcGrad \/ t[u].grad = ns[u].grad
    BY <2>1, <2>2
  <2> QED
    BY <2>1, <2>3, Zenon DEF Kin, SameNode, Sound
<1> QED
  BY <1>1, <1>2, GraphKept

\* Gradients have no influence on what gradFunc needs.
LEMMA CanPassSame ==
  ASSUME NEW ns, IsGraph(ns), NEW u \in DOMAIN ns, CanPass(ns, ns[u]),
         NEW t, \A w \in DOMAIN ns : t[w].calcGrad = ns[w].calcGrad,
         t[u].op = ns[u].op, t[u].inputs = ns[u].inputs, t[u].kept = ns[u].kept
  PROVE  CanPass(t, t[u])
<1> DEFINE ins == ns[u].inputs
<1>1. Inputs(ns, u) /\ Sound(ns, u) /\ ns \in Seq(NodeType)
  BY Zenon DEF IsGraph
<1>2. ins \in Seq(1..(u - 1)) /\ DOMAIN ns = 1..Len(ns) /\ Len(ns) \in Nat
  BY <1>1 DEF Inputs
<1>3. (ns[u].op = "product" => Len(ns[u].inputs) \in {0, 2})
  BY <1>1, Zenon DEF Sound
<1>4. \A k \in 1..Len(ins) : ins[k] \in DOMAIN ns
  <2> HIDE DEF ins
  <2> QED
    BY <1>2
<1>5. ins # <<>> => 1 \in 1..Len(ins)
  <2> HIDE DEF ins
  <2> QED
    BY <1>2
<1>6. ins # <<>> /\ ns[u].op = "product" => \A k \in 1..2 : k \in 1..Len(ins)
  <2>1. ~ (1 \in 1..0) /\ \A k \in 1..2 : k \in 1..2
    OBVIOUS
  <2> QED
    BY <2>1, <1>3, <1>5, Zenon
<1>7. \A k \in 1..Len(ins) : t[ins[k]].calcGrad = ns[ins[k]].calcGrad
  BY <1>4, Zenon
<1> QED
  BY <1>5, <1>6, <1>7, ZenonT(30) DEF CanPass

\* What backward does before the first visit.
Begins(v, retain) ==
  /\ dag' = build(v) /\ pass' = [root |-> v, retain |-> retain]
  /\ nodes' = addGrad(nodes, v, 1) /\ before' = nodes
  /\ hooked' = [u \in Vars |-> <<>>]

\* backward keeps the invariant.
LEMMA PassBegins == Inv /\ backward => Inv'
\* The order depends on the inputs of its variables only.
<1>OrderSame.
    ASSUME NEW ns, NEW t, NEW d, NEW r, IsOrder(ns, d, r),
           \A k \in 1..Len(d) : t[d[k]].inputs = ns[d[k]].inputs
    PROVE  IsOrder(t, d, r)
  BY <1>OrderSame, Zenon DEF IsOrder
\* The list that build returns holds the inputs of its variables.
<1>OrderClosed.
    ASSUME NEW ns, NEW d, NEW r, IsOrder(ns, d, r), r \in Range(d)
    PROVE  IsClosed(ns, Range(d), r)
  <2> USE <1>OrderClosed
  <2>1. d \in Seq(1..r)
    BY Zenon DEF IsOrder
  <2>2. DOMAIN d = 1..Len(d) /\ Len(d) \in Nat
    BY <2>1
  <2> SUFFICES ASSUME NEW k \in 1..Len(d), NEW w \in Range(ns[d[k]].inputs)
               PROVE  w \in Range(d)
    BY <2>2, Zenon DEF IsClosed, Range
  <2>3. PICK j \in 1..(k - 1) : d[j] = w
    BY Zenon DEF IsOrder
  <2>4. j \in 1..Len(d)
    BY <2>2
  <2> QED
    BY <2>2, <2>3, <2>4, Zenon DEF Range
\* The list and the gradient that backward begins with.
<1>BeginGains.
    ASSUME IsGraph(nodes), NEW v \in Vars, NEW retain \in BOOLEAN, Begins(v, retain)
    PROVE  /\ IsGraph(nodes') /\ Vars' = Vars /\ pass'.root = v /\ pass'.retain = retain
           /\ IsOrder(nodes, dag', v) /\ Ends(dag', v)
           /\ \A u \in Vars : /\ SameNode(nodes'[u], nodes[u])
                              /\ nodes'[u].grad = nodes[u].grad +
                                   (IF nodes[u].calcGrad THEN Hit(u, v) ELSE 0)
  <2> USE <1>BeginGains
  <2> DEFINE gain == [u \in Vars |-> Hit(v, u) * 1]
  <2>1. Gains(nodes', nodes, gain)
    <3>1. nodes' = addGrad(nodes, v, 1) /\ nodes \in Seq(NodeType) /\ v \in DOMAIN nodes /\ 1 \in Nat
      BY DEF Begins, IsGraph, Vars
    <3> QED
      BY <3>1, AddGradGains, Zenon DEF Vars
  <2>2. \A u \in Vars : gain[u] = Hit(u, v)
    BY DEF Hit
  <2> HIDE DEF gain
  <2>3. IsGraph(nodes')
    BY <2>1, GainsGraph, Zenon
  <2>4. IsOrder(nodes, dag', v) /\ Ends(dag', v)
    BY BuildLists, Zenon DEF Begins
  <2>5. pass'.root = v /\ pass'.retain = retain
    BY DEF Begins
  <2> QED
    BY <2>1, <2>2, <2>3, <2>4, <2>5, Zenon DEF Gains, Vars
\* The invariant of the pass, before its first visit.
<1>BeginPass.
    ASSUME IsGraph(nodes), NEW v \in Vars, NEW retain \in BOOLEAN, Begins(v, retain)
    PROVE  PassInv'
  <2> USE <1>BeginPass
  <2>1. /\ IsGraph(nodes') /\ Vars' = Vars /\ pass'.root = v /\ pass'.retain = retain
        /\ IsOrder(nodes, dag', v) /\ Ends(dag', v)
        /\ \A u \in Vars : /\ SameNode(nodes'[u], nodes[u])
                           /\ nodes'[u].grad = nodes[u].grad +
                                (IF nodes[u].calcGrad THEN Hit(u, v) ELSE 0)
    BY <1>BeginGains, Zenon
  <2>2. before' = nodes /\ hooked' = [u \in Vars |-> <<>>]
    BY Zenon DEF Begins
  <2> DEFINE n == Len(dag')
  <2>3. dag' \in Seq(1..v) /\ DOMAIN dag' = 1..n /\ n \in 1..n /\ dag'[n] = v
    <3>1. dag' \in Seq(1..v) /\ n \in Nat \ {0} /\ dag'[n] = v
      BY <2>1, Zenon DEF IsOrder, Ends
    <3> QED
      BY <3>1
  <2>4. \A k \in 1..n : dag'[k] \in Vars
    <3>1. Vars = 1..Len(nodes) /\ Len(nodes) \in Nat
      BY DEF Vars, IsGraph
    <3> QED
      BY <3>1, <2>3
  <2>5. IsOrder(nodes', dag', pass'.root)
    <3>1. \A k \in 1..n : nodes'[dag'[k]].inputs = nodes[dag'[k]].inputs
      BY <2>1, <2>4, Zenon DEF SameNode
    <3>2. IsOrder(nodes', dag', v)
      BY <3>1, <2>1, <1>OrderSame
    <3> QED
      BY <3>2, <2>1, Zenon
  <2>6. Comes(nodes', dag')
    <3> SUFFICES ASSUME NEW k \in 1..n
                 PROVE  \/ ~nodes'[dag'[k]].calcGrad \/ nodes'[dag'[k]].grad # 0
                        \/ \E j \in (k + 1)..n : dag'[k] \in Range(nodes'[dag'[j]].inputs)
      BY Zenon DEF Comes
    <3>1. CASE k = n
      <4>1. nodes'[v].grad = nodes[v].grad + (IF nodes[v].calcGrad THEN Hit(v, v) ELSE 0)
        BY <2>1, Zenon
      <4>2. nodes[v].grad \in Nat /\ nodes'[v].calcGrad = nodes[v].calcGrad
        BY <2>1, NodeOf, Zenon DEF IsGraph, Vars, SameNode
      <4>3. ~nodes'[v].calcGrad \/ nodes'[v].grad # 0
        BY <4>1, <4>2 DEF Hit
      <4> QED
        BY <4>3, <3>1, <2>3, Zenon
    <3>2. CASE k # n
      <4>1. PICK j \in (k + 1)..n : dag'[k] \in Range(nodes[dag'[j]].inputs)
        BY <3>2, <2>1, Zenon DEF Ends
      <4>2. j \in 1..n
        BY <2>3
      <4>3. nodes'[dag'[j]].inputs = nodes[dag'[j]].inputs
        BY <4>2, <2>1, <2>4, Zenon DEF SameNode
      <4> QED
        BY <4>1, <4>3, Zenon
    <3> QED
      BY <3>1, <3>2, Zenon
  <2>7. IsGraph(before') /\ SamePass(before', nodes', dag')
    <3>1. IsGraph(before')
      BY <2>2, Zenon
    <3>2. SamePass(before', nodes', dag')
      BY <2>1, <2>2, Zenon DEF SamePass, SameNode, Vars
    <3> QED
      BY <3>1, <3>2, Zenon
  <2>8. \A u \in Vars : u \notin Range(dag') => Deriv(nodes, v, u) = 0
    <3>1. v \in Range(dag')
      BY <2>3, Zenon DEF Range
    <3>2. IsClosed(nodes, Range(dag'), v)
      BY <3>1, <2>1, <1>OrderClosed, Zenon
    <3> QED
      BY <3>2, DerivUnreached, Zenon DEF Vars
  <2>9. HooksInv'
    <3>1. ASSUME NEW u \in Vars', u \notin Range(dag') PROVE ~ (Derivative(u)' > 0)
      <4>1. Derivative(u)' = 0
        BY <3>1, <2>1, <2>2, <2>8, DerivativePrimeIs, Zenon
      <4> QED
        BY <4>1
    <3>2. DOMAIN hooked' = Vars' /\ \A u \in Vars' : hooked'[u] = <<>>
      BY <2>1, <2>2, Zenon
    <3> QED
      BY <3>1, <3>2, Zenon DEF HooksInv
  <2>10. ASSUME NEW u \in Vars PROVE Passed(u)' = Hit(u, v)
    <3> DEFINE g == Via(nodes, v, u)
               W == (1..v) \ Range(dag')
    <3>1. Passed(u)' = Hit(u, v) + Total(g, W)
      <4>1. Through(u)' = g
        BY <2>1, <2>2, ThroughPrimeIs, Zenon
      <4>2. Visited' = W
        BY <2>1, Zenon DEF Visited
      <4> HIDE DEF g, W
      <4> QED
        BY <4>1, <4>2, <2>1, Zenon DEF Passed, Hit
    <3>2. IsFiniteSet(1..v)
      <4>1. 1 \in Int /\ v \in Int
        BY DEF IsGraph, Vars
      <4> QED
        BY <4>1, FS_Interval, Zenon
    <3>3. IsFiniteSet(W)
      BY <3>2, FS_Subset, Zenon
    <3>4. ASSUME NEW c \in W PROVE g[c] = 0
      <4>1. c \in 1..v /\ c \in Vars /\ c \notin Range(dag')
        BY DEF IsGraph, Vars
      <4>2. g[c] = Times(nodes, c, u) * Deriv(nodes, v, c)
        BY <4>1, Zenon DEF Via
      <4>3. Times(nodes, c, u) \in Nat
        BY <4>1, TimesIs, Zenon DEF IsGraph, Vars
      <4>4. Deriv(nodes, v, c) = 0
        BY <4>1, <2>8, Zenon
      <4> HIDE DEF g
      <4> QED
        BY <4>2, <4>3, <4>4
    <3>5. ZeroOn(g, W)
      BY <3>4, Zenon DEF ZeroOn
    <3> HIDE DEF g, W
    <3>6. Total(g, W) = 0
      BY <3>3, <3>5, SumZero, Zenon
    <3> QED
      BY <3>1, <3>6 DEF Hit
  <2>11. GradsInv'
    <3> SUFFICES ASSUME NEW u \in Vars'
                 PROVE  nodes'[u].grad = before'[u].grad +
                          (IF before'[u].calcGrad THEN Passed(u)' ELSE 0)
      BY Zenon DEF GradsInv
    <3> QED
      BY <2>1, <2>2, <2>10, Zenon
  <2>12. pass'.root \in Vars' /\ pass'.retain \in BOOLEAN
    BY <2>1, Zenon
  <2> QED
    BY <2>5, <2>6, <2>7, <2>9, <2>11, <2>12, Zenon DEF PassInv
\* backward keeps the invariant.
<1>backwardKeeps.
    ASSUME Inv, backward
    PROVE  Inv'
  <2> USE <1>backwardKeeps
  <2>1. PICK v \in Vars, retain \in BOOLEAN : Begins(v, retain)
    BY Zenon DEF backward, Begins
  <2>2. Call("backward") /\ error' = error
    BY Zenon DEF backward
  <2>3. /\ GraphInv /\ error' = "none" /\ calls' \in [Kinds -> Nat]
        /\ \A k \in Kinds : calls'[k] = calls[k] + (IF k = "backward" THEN 1 ELSE 0)
    <3>1. "backward" \in Kinds
      BY Zenon DEF Kinds
    <3> QED
      BY <2>2, <3>1, CallCounts, Zenon
  <2>4. /\ calls'["switch"] = calls["switch"] /\ calls["backward"] \in Nat
        /\ calls'["backward"] = calls["backward"] + 1
    <3>1. calls \in [Kinds -> Nat] /\ "switch" \in Kinds /\ "backward" \in Kinds
      BY <2>3, Zenon DEF GraphInv, Kinds
    <3>2. calls["switch"] \in Nat /\ calls["backward"] \in Nat
      BY <3>1
    <3>3. calls'["switch"] = calls["switch"] + (IF "switch" = "backward" THEN 1 ELSE 0)
      BY <2>3, <3>1, Zenon
    <3>4. calls'["backward"] = calls["backward"] + (IF "backward" = "backward" THEN 1 ELSE 0)
      BY <2>3, <3>1, Zenon
    <3> QED
      BY <3>2, <3>3, <3>4
  <2>5. IsGraph(nodes)
    BY <2>3, Zenon DEF GraphInv
  <2>6. /\ IsGraph(nodes') /\ Vars' = Vars
        /\ \A u \in Vars : SameNode(nodes'[u], nodes[u])
    BY <2>1, <2>5, <1>BeginGains, Zenon
  <2>7. ASSUME calls'["switch"] = 0, NEW u \in Vars' PROVE CanPass(nodes', nodes'[u])
    <3>1. u \in DOMAIN nodes /\ CanPass(nodes, nodes[u])
      BY <2>3, <2>4, <2>6, <2>7, Zenon DEF GraphInv, Vars
    <3>2. /\ nodes'[u].op = nodes[u].op /\ nodes'[u].inputs = nodes[u].inputs
          /\ nodes'[u].kept = nodes[u].kept
          /\ \A w \in DOMAIN nodes : nodes'[w].calcGrad = nodes[w].calcGrad
      BY <3>1, <2>6, Zenon DEF SameNode, Vars
    <3> QED
      BY <3>1, <3>2, <2>5, CanPassSame
  <2>8. Cleared'
    <3> SUFFICES ASSUME calls'["backward"] <= 1, NEW u \in Vars',
                        nodes'[u].op # "none", nodes'[u].inputs = <<>>
                 PROVE  FALSE
      BY Zenon DEF Cleared
    <3>1. calls["backward"] <= 1 /\ calls["backward"] # 1
      BY <2>4
    <3>2. u \in Vars /\ nodes[u].op # "none" /\ nodes[u].inputs = <<>>
      BY <2>6, Zenon DEF SameNode
    <3> QED
      BY <3>1, <3>2, <2>3, Zenon DEF GraphInv, Cleared
  <2>9. PassInv'
    BY <2>1, <2>5, <1>BeginPass, Zenon
  <2>10. calls'["backward"] # 0
    BY <2>4
  <2> QED
    BY <2>3, <2>6, <2>7, <2>8, <2>9, <2>10, Zenon DEF Inv, FailsOnlyOnMisuse, GraphInv
<1> QED
  BY <1>backwardKeeps, Zenon


\* The variable that is visited next, and its gradient.
LEMMA LastOfDag ==
  ASSUME IsGraph(nodes), PassInv, dag # <<>>, NEW v, v = dag[Len(dag)]
  PROVE  /\ Len(dag) \in Nat \ {0} /\ dag \in Seq(1..pass.root) /\ DOMAIN dag = 1..Len(dag)
         /\ v \in Vars /\ v \in Range(dag) /\ Inputs(nodes, v) /\ Sound(nodes, v)
         /\ ~nodes[v].calcGrad \/ nodes[v].grad # 0
         /\ nodes[v].op # "none" => nodes[v].grad # 0
<1>1. dag \in Seq(1..pass.root) /\ pass.root \in Vars
  BY Zenon DEF PassInv, IsOrder
<1>2. /\ Len(dag) \in Nat \ {0} /\ DOMAIN dag = 1..Len(dag) /\ Len(dag) \in 1..Len(dag)
      /\ v \in 1..pass.root /\ \A j \in (Len(dag) + 1)..Len(dag) : FALSE
  <2>1. Len(dag) \in Nat /\ DOMAIN dag = 1..Len(dag) /\ Len(dag) \in Nat \ {0}
    BY <1>1
  <2>2. Len(dag) \in 1..Len(dag) /\ \A j \in (Len(dag) + 1)..Len(dag) : FALSE
    BY <2>1
  <2>3. \A k \in 1..Len(dag) : dag[k] \in 1..pass.root
    <3> DEFINE S == 1..pass.root
    <3>1. dag \in Seq(S)
      BY <1>1, Zenon
    <3> HIDE DEF S
    <3>2. \A k \in 1..Len(dag) : dag[k] \in S
      BY <3>1
    <3> QED
      BY <3>2, Zenon DEF S
  <2>4. v \in 1..pass.root
    BY <2>2, <2>3, Zenon
  <2> QED
    BY <2>1, <2>2, <2>4, Zenon
<1>3. v \in Vars
  BY <1>1, <1>2 DEF IsGraph, Vars
<1>4. v \in Range(dag)
  BY <1>2, Zenon DEF Range
<1>5. Inputs(nodes, v) /\ Sound(nodes, v)
  BY <1>3, Zenon DEF IsGraph, Vars
<1>6. ~nodes[v].calcGrad \/ nodes[v].grad # 0
  BY <1>2, Zenon DEF PassInv, Comes
<1> QED
  BY <1>1, <1>2, <1>3, <1>4, <1>5, <1>6, Zenon DEF Sound

\* A visit that fails, fails for a reason that FailsOnlyOnMisuse gives.
LEMMA GradFuncFails ==
  ASSUME GraphInv, dag # <<>>, NEW v, v = dag[Len(dag)], NEW e,
         e = GradFuncError(nodes[v]), e # "none"
  PROVE  \/ e \in {"grad disabled", "no data"} /\ calls["switch"] > 0
         \/ e = "no inputs" /\ calls["backward"] > 1
<1> DEFINE n == nodes[v]
           ins == n.inputs
<1>1. IsGraph(nodes) /\ PassInv
  BY Zenon DEF GraphInv
<1>2. /\ v \in Vars /\ v \in Range(dag) /\ Inputs(nodes, v) /\ Sound(nodes, v)
      /\ n.op # "none" => n.grad # 0
  BY <1>1, LastOfDag, Zenon
<1>3. calls["switch"] \in Nat /\ calls["backward"] \in Nat /\ calls["backward"] # 0
  <2>1. calls \in [Kinds -> Nat] /\ "switch" \in Kinds /\ "backward" \in Kinds
    BY Zenon DEF GraphInv, Kinds
  <2> QED
    BY <2>1, Zenon DEF GraphInv
<1> DEFINE A == n.op = "index" /\ ~nodes[ins[1]].calcGrad
           B == n.op = "product" /\ \E k \in 1..2 :
                  nodes[ins[k]].calcGrad /\ 3 - k \notin n.kept
           C == \E w \in Range(ins) : TypeClash(nodes, w, InputGradType(n, w))
<1>4. n.op # "none"
  BY Zenon DEF GradFuncError
<1>5. /\ ins = <<>> => e = "no inputs"
      /\ ins # <<>> /\ A => e = "grad disabled"
      /\ ins # <<>> /\ ~A /\ B => e = "no data"
      /\ ins # <<>> /\ ~A /\ ~B => C
  BY <1>2, <1>4, Zenon DEF GradFuncError
<1>6. CASE ins = <<>>
  <2>1. calls["backward"] > 1
    <3>1. ~ (calls["backward"] <= 1)
      BY <1>2, <1>4, <1>6, Zenon DEF GraphInv, Cleared
    <3> QED
      BY <3>1, <1>3
  <2> QED
    BY <2>1, <1>5, <1>6, Zenon
<1>7. CASE ins # <<>> /\ (A \/ B)
  <2>1. ~ CanPass(nodes, n)
    BY <1>7, Zenon DEF CanPass
  <2>2. calls["switch"] # 0
    BY <2>1, <1>2, Zenon DEF GraphInv
  <2>3. calls["switch"] > 0
    BY <2>2, <1>3
  <2> QED
    BY <2>3, <1>5, <1>7, Zenon
<1>8. CASE ins # <<>> /\ ~A /\ ~B
  <2>1. PICK w \in Range(ins) : TypeClash(nodes, w, InputGradType(n, w))
    BY <1>5, <1>8, Zenon
  <2>2. ins \in Seq(1..(v - 1))
    BY <1>2, Zenon DEF Inputs
  <2>3. DOMAIN ins = 1..Len(ins)
    BY <2>2
  <2>4. PICK k \in 1..Len(ins) : w = ins[k]
    BY <2>3, Zenon DEF Range
  <2>5. n.op # "as" => nodes[w].type = n.type
    BY <2>4, <1>2, Zenon DEF Sound
  <2> QED
    BY <2>1, <2>5, Zenon DEF TypeClash, InputGradType
<1> QED
  BY <1>6, <1>7, <1>8, Zenon

------------------------------------------------------------------------------
(* A visit *)

\* What the visit of v does to the variables.
Effect(t, ns, v) ==
  /\ IsGraph(t) /\ DOMAIN t = DOMAIN ns
  /\ \A u \in DOMAIN ns :
       /\ t[u].calcGrad = ns[u].calcGrad /\ t[u].op = ns[u].op
       /\ t[u].kept = ns[u].kept /\ t[u].hook = ns[u].hook
       /\ t[u].inputs = ns[u].inputs \/ (u = v /\ t[u].inputs = <<>>)
       /\ t[u].grad = ns[u].grad +
            (IF ns[u].calcGrad THEN Times(ns, v, u) * ns[v].grad ELSE 0)

\* calcGradInputs hands the gradient of v to its inputs.
LEMMA PropagatedGains ==
  ASSUME IsGraph(nodes), NEW v \in Vars, GradFuncError(nodes[v]) = "none"
  PROVE  Gains(Propagated(nodes[v]), nodes,
               [u \in DOMAIN nodes |-> Times(nodes, v, u) * nodes[v].grad])
<1> DEFINE n == nodes[v]
           gain == [u \in DOMAIN nodes |-> Times(nodes, v, u) * n.grad]
<1>1. /\ nodes \in Seq(NodeType) /\ Inputs(nodes, v) /\ Sound(nodes, v)
      /\ v \in DOMAIN nodes
  BY Zenon DEF IsGraph, Vars
<1>2. CASE n.op = "none"
  <2>1. Propagated(n) = nodes
    BY <1>2, Zenon DEF Propagated
  <2>2. n.inputs = <<>> /\ n.grad \in Nat
    BY <1>1, <1>2, NodeOf, Zenon DEF Sound
  <2>3. \A u : u \notin Range(<<>>)
    BY DEF Range
  <2>4. \A u : Times(nodes, v, u) = 0
    BY <1>1, <2>2, <2>3, TimesIs, Zenon
  <2>5. ASSUME NEW u \in DOMAIN nodes
        PROVE  /\ SameNode(nodes[u], nodes[u])
               /\ nodes[u].grad = nodes[u].grad + (IF nodes[u].calcGrad THEN gain[u] ELSE 0)
    <3>1. gain[u] = 0 * n.grad
      BY <2>4, Zenon
    <3>2. nodes[u].grad \in Nat
      BY <1>1, NodeOf, Zenon
    <3> HIDE DEF gain
    <3> QED
      BY <2>2, <3>1, <3>2 DEF SameNode
  <2> HIDE DEF gain
  <2>6. Gains(nodes, nodes, gain)
    BY <2>5, <1>1, Zenon DEF Gains
  <2> QED
    BY <2>1, <2>6, Zenon DEF gain
<1>3. CASE n.op # "none"
  <2>1. n.inputs # <<>> /\ Propagated(n) = gradFunc(nodes, n)
    BY <1>3, Zenon DEF GradFuncError, Propagated
  <2> QED
    BY <2>1, <1>1, GradFuncHands, Zenon
<1> QED
  BY <1>2, <1>3, Zenon

\* With or without the inputs cleared.
LEMMA VisitEffect ==
  ASSUME IsGraph(nodes), NEW v \in Vars, GradFuncError(nodes[v]) = "none",
         NEW s, s = Propagated(nodes[v]),
         NEW t, t = s \/ t = [s EXCEPT ![v].inputs = <<>>]
  PROVE  Effect(t, nodes, v)
<1> DEFINE gain == [u \in DOMAIN nodes |-> Times(nodes, v, u) * nodes[v].grad]
<1>1. Gains(s, nodes, gain)
  BY PropagatedGains, Zenon
<1>2. \A u \in DOMAIN nodes : gain[u] = Times(nodes, v, u) * nodes[v].grad
  BY Zenon
<1> HIDE DEF gain
<1>3. IsGraph(s) /\ s \in Seq(NodeType) /\ DOMAIN s = DOMAIN nodes /\ v \in DOMAIN s
  BY <1>1, GainsGraph, Zenon DEF Gains, Vars
<1>4. \A u \in DOMAIN nodes :
        /\ SameNode(s[u], nodes[u])
        /\ s[u].grad = nodes[u].grad +
             (IF nodes[u].calcGrad THEN Times(nodes, v, u) * nodes[v].grad ELSE 0)
  BY <1>1, <1>2, Zenon DEF Gains
<1>5. CASE t = s
  BY <1>3, <1>4, <1>5, Zenon DEF Effect, SameNode
<1>6. CASE t = [s EXCEPT ![v].inputs = <<>>]
  <2> DEFINE m == [s[v] EXCEPT !.inputs = <<>>]
  <2>1. s[v] \in NodeType /\ Sound(s, v)
    BY <1>3, NodeOf, Zenon DEF IsGraph
  <2>2. /\ m \in NodeType /\ m.inputs = <<>>
        /\ m.calcGrad = s[v].calcGrad /\ m.op = s[v].op /\ m.kept = s[v].kept
        /\ m.hook = s[v].hook /\ m.grad = s[v].grad /\ m.type = s[v].type
    <3>1. <<>> \in Seq(Nat)
      OBVIOUS
    <3> QED
      BY <2>1, <3>1, Zenon DEF NodeType, SameNode
  <2>3. t = [s EXCEPT ![v] = m]
    BY <1>6
  <2> HIDE DEF m
  <2>4. /\ t \in Seq(NodeType) /\ DOMAIN t = DOMAIN s /\ t[v] = m
        /\ \A u \in DOMAIN s : u # v => t[u] = s[u]
    BY <1>3, <2>2, <2>3
  <2>5. ASSUME NEW u \in DOMAIN s PROVE Kin(t[u], s[u])
    <3>1. Sound(s, u)
      BY <1>3, Zenon DEF IsGraph
    <3> QED
      BY <2>2, <2>4, <3>1, Zenon DEF Kin, Sound
  <2>6. IsGraph(t)
    BY <1>3, <2>4, <2>5, GraphKept
  <2>7. ASSUME NEW u \in DOMAIN nodes
        PROVE  /\ t[u].calcGrad = nodes[u].calcGrad /\ t[u].op = nodes[u].op
               /\ t[u].kept = nodes[u].kept /\ t[u].hook = nodes[u].hook
               /\ t[u].inputs = nodes[u].inputs \/ (u = v /\ t[u].inputs = <<>>)
               /\ t[u].grad = s[u].grad
    <3>1. CASE u = v
      BY <3>1, <1>4, <2>2, <2>4, Zenon DEF SameNode
    <3>2. CASE u # v
      <4>1. t[u] = s[u] /\ SameNode(s[u], nodes[u])
        BY <3>2, <1>3, <1>4, <2>4, Zenon
      <4> QED
        BY <4>1, Zenon DEF SameNode
    <3> QED
      BY <3>1, <3>2, Zenon
  <2> QED
    BY <1>3, <1>4, <2>4, <2>6, <2>7, Zenon DEF Effect
<1> QED
  BY <1>5, <1>6, Zenon

Front == SubSeq(dag, 1, Len(dag) - 1)

\* The list without the variable that is visited.
LEMMA FrontOfDag ==
  ASSUME IsGraph(nodes), PassInv, dag # <<>>, NEW v, v = dag[Len(dag)], NEW d, d = Front
  PROVE  /\ d \in Seq(1..pass.root) /\ Len(d) = Len(dag) - 1 /\ Len(d) \in Nat
         /\ DOMAIN d = 1..Len(d)
         /\ \A k \in 1..Len(d) : d[k] = dag[k] /\ d[k] # v /\ k \in 1..Len(dag)
         /\ v \notin Range(d) /\ Range(dag) = Range(d) \cup {v}
<1> DEFINE n == Len(dag)
           S == 1..pass.root
<1>1. n \in Nat \ {0} /\ dag \in Seq(S) /\ DOMAIN dag = 1..n
  BY LastOfDag, Zenon
<1> HIDE DEF S
<1>2. d \in Seq(S) /\ Len(d) = n - 1 /\ DOMAIN d = 1..(n - 1) /\ \A k \in 1..(n - 1) : d[k] = dag[k]
  BY <1>1 DEF Front
<1>3. n - 1 \in Nat /\ n \in 1..n /\ (\A k \in 1..(n - 1) : k \in 1..n /\ k # n)
      /\ \A k \in 1..n : k = n \/ k \in 1..(n - 1)
  <2> HIDE DEF n
  <2>1. n \in Nat \ {0}
    BY <1>1, Zenon
  <2> QED
    BY <2>1
<1>4. \A j, k \in 1..n : dag[j] = dag[k] => j = k
  BY Zenon DEF PassInv, IsOrder
<1>5. \A k \in 1..(n - 1) : d[k] = dag[k] /\ d[k] # v /\ k \in 1..n
  BY <1>2, <1>3, <1>4, Zenon
<1>6. v \notin Range(d)
  BY <1>2, <1>5, Zenon DEF Range
<1>7. Range(dag) = Range(d) \cup {v}
  BY <1>1, <1>2, <1>3, Zenon DEF Range
<1> HIDE DEF n
<1> QED
  BY <1>2, <1>3, <1>5, <1>6, <1>7, Zenon DEF S, n

\* What the variables above u, but for those of d, pass on to it.
PassedOn(d, u) ==
  Hit(u, pass.root) + Total(Via(before, pass.root, u), (1..pass.root) \ Range(d))

\* A visit keeps what GradsInv says, with the visited variable left out.
LEMMA VisitPassesOn ==
  IsGraph(nodes) /\ PassInv /\ Fresh /\ dag # <<>> =>
    \A t : Effect(t, nodes, dag[Len(dag)]) => \A u \in Vars :
      t[u].grad = before[u].grad + (IF before[u].calcGrad THEN PassedOn(Front, u) ELSE 0)
\* Nothing that is still to be visited has the visited variable as an input.
<1>NoneAbove.
    ASSUME IsGraph(nodes), PassInv, dag # <<>>, NEW v, v = dag[Len(dag)],
           NEW c \in Range(dag)
    PROVE  v \notin Range(nodes[c].inputs)
  <2> USE <1>NoneAbove
  <2> DEFINE n == Len(dag)
  <2>1. n \in Nat \ {0} /\ DOMAIN dag = 1..n
    BY LastOfDag, Zenon
  <2>2. PICK k \in 1..n : c = dag[k]
    BY <2>1, Zenon DEF Range
  <2> SUFFICES ASSUME v \in Range(nodes[c].inputs) PROVE FALSE
    BY Zenon
  <2>a. IsOrder(nodes, dag, pass.root)
    BY Zenon DEF PassInv
  <2>3. PICK j \in 1..(k - 1) : dag[j] = v
    BY <2>2, <2>a, Zenon DEF IsOrder
  <2>4. j \in 1..n /\ j # n /\ n \in 1..n
    <3>1. n \in Nat \ {0} /\ k \in 1..n /\ j \in 1..(k - 1)
      BY <2>1, Zenon
    <3> HIDE DEF n
    <3> QED
      BY <3>1
  <2> QED
    BY <2>3, <2>4, <2>a, Zenon DEF IsOrder
\* Passed, with the list as a parameter.
<1>PassedIs.
    ASSUME NEW u
    PROVE  Passed(u) = PassedOn(dag, u)
  BY ThroughIs, Zenon DEF Passed, PassedOn, Visited, Hit
\* All of the gradient of the next variable is there.
<1>GradComplete.
    ASSUME IsGraph(nodes), PassInv, dag # <<>>, NEW v, v = dag[Len(dag)]
    PROVE  PassedOn(dag, v) = Deriv(before, pass.root, v)
  <2> USE <1>GradComplete
  <2> DEFINE r == pass.root
             g == Via(before, r, v)
             A == 1..r
             W == A \ Range(dag)
  <2>1. IsGraph(before) /\ r \in DOMAIN before /\ v \in DOMAIN before /\ DOMAIN before = Vars
    BY LastOfDag, Zenon DEF PassInv, SamePass, Vars
  <2>2. /\ IsFiniteSet(A) /\ NatOn(g, A)
        /\ Deriv(before, r, v) = Hit(v, r) + Total(g, A)
    <3>1. g = Via(before, r, v)
      BY Zenon
    <3> HIDE DEF g, r
    <3> QED
      BY <3>1, <2>1, DerivSum, Zenon
  <2>3. ASSUME NEW c \in A \ W PROVE g[c] = 0
    <3>1. c \in A /\ c \in Range(dag)
      BY Zenon
    <3>2. c \in Vars
      BY <2>1, <3>1 DEF IsGraph, Vars
    <3>3. before[c].inputs = nodes[c].inputs
      BY <3>1, <3>2, Zenon DEF PassInv, SamePass, Vars
    <3>4. v \notin Range(before[c].inputs)
      BY <3>1, <3>3, <1>NoneAbove, Zenon
    <3>5. Times(before, c, v) = 0
      BY <3>2, <3>4, <2>1, TimesIs, Zenon DEF IsGraph
    <3>6. g[c] = Times(before, c, v) * Deriv(before, r, c)
      BY <3>1, Zenon DEF Via
    <3>7. Deriv(before, r, c) \in Nat
      <4> HIDE DEF r
      <4> QED
        BY <3>2, <2>1, DerivSum
    <3> HIDE DEF g, r
    <3> QED
      BY <3>5, <3>6, <3>7
  <2>4. ZeroOn(g, A \ W) /\ W \in SUBSET A
    BY <2>3, Zenon DEF ZeroOn
  <2> HIDE DEF g, A, W, r
  <2>5. Total(g, A) = Total(g, W)
    BY <2>2, <2>4, SumOfPart, Zenon
  <2>6. PassedOn(dag, v) = Hit(v, r) + Total(g, W)
    BY Zenon DEF PassedOn, g, A, W, r
  <2> QED
    BY <2>2, <2>5, <2>6, Zenon DEF r
\* A visit keeps what GradsInv says, with the visited variable left out.
<1>VisitGrads.
    ASSUME IsGraph(nodes), PassInv, Fresh, dag # <<>>, NEW v, v = dag[Len(dag)],
           NEW t, Effect(t, nodes, v), NEW d, d = Front, NEW u \in Vars
    PROVE  t[u].grad = before[u].grad +
             (IF before[u].calcGrad THEN PassedOn(d, u) ELSE 0)
  <2> USE <1>VisitGrads
  <2> DEFINE r == pass.root
             g == Via(before, r, u)
             W == (1..r) \ Range(dag)
             V == (1..r) \ Range(d)
             T == Times(before, v, u)
             D == Deriv(before, r, v)
  <2>1. /\ IsGraph(before) /\ r \in DOMAIN before /\ v \in DOMAIN before /\ v \in Vars
        /\ u \in DOMAIN before /\ SamePass(before, nodes, dag) /\ v \in Range(dag)
        /\ Sound(nodes, v) /\ Inputs(nodes, v) /\ v \in 1..r
    <3>1. v \in Range(dag) /\ dag \in Seq(1..r) /\ DOMAIN dag = 1..Len(dag) /\ Len(dag) \in Nat \ {0}
      BY LastOfDag, Zenon
    <3> DEFINE S == 1..r
    <3>2. dag \in Seq(S) /\ Len(dag) \in 1..Len(dag)
      BY <3>1
    <3> HIDE DEF S
    <3>3. v \in S
      BY <3>2
    <3> QED
      BY <3>1, <3>3, LastOfDag, Zenon DEF PassInv, SamePass, Vars, S
  <2>2. nodes[u].grad = before[u].grad + (IF before[u].calcGrad THEN PassedOn(dag, u) ELSE 0)
    BY <1>PassedIs, Zenon DEF PassInv, GradsInv
  <2>3. /\ before[u].calcGrad = nodes[u].calcGrad /\ before[v].inputs = nodes[v].inputs
        /\ before[v].op = nodes[v].op /\ before[v].calcGrad = nodes[v].calcGrad
    BY <2>1, Zenon DEF SamePass, Vars
  <2>4. t[u].grad = nodes[u].grad +
          (IF nodes[u].calcGrad THEN Times(nodes, v, u) * nodes[v].grad ELSE 0)
    BY Zenon DEF Effect, Vars
  <2>5. Times(nodes, v, u) = T
    BY <2>3, Zenon DEF Times
  <2>6. T \in Nat /\ (u \notin Range(before[v].inputs) => T = 0)
    BY <2>1, TimesIs, Zenon DEF IsGraph
  <2>7. D \in Nat
    <3> HIDE DEF r
    <3> QED
      BY <2>1, DerivSum
  <2>8. T = 0 \/ nodes[v].grad = D
    <3> SUFFICES ASSUME T # 0 PROVE nodes[v].grad = D
      BY Zenon
    <3>1. before[v].inputs # <<>>
      <4>1. u \notin Range(<<>>)
        BY DEF Range
      <4> QED
        BY <4>1, <2>6, Zenon
    <3>2. before[v].op # "none" /\ before[v].calcGrad
      BY <3>1, <2>1, <2>3, Zenon DEF Sound
    <3>3. before[v].grad = 0
      BY <3>2, <2>1, Zenon DEF Fresh
    <3>4. nodes[v].grad = before[v].grad + (IF before[v].calcGrad THEN PassedOn(dag, v) ELSE 0)
      BY <2>1, <1>PassedIs, Zenon DEF PassInv, GradsInv
    <3>5. PassedOn(dag, v) = D
      BY <1>GradComplete, Zenon
    <3> HIDE DEF D
    <3> QED
      BY <3>2, <3>3, <3>4, <3>5, <2>7
  <2>9. PassedOn(d, u) = PassedOn(dag, u) + T * D /\ PassedOn(dag, u) \in Nat
    <3>1. IsFiniteSet(1..r) /\ NatOn(g, 1..r)
      <4>1. g = Via(before, r, u)
        BY Zenon
      <4> HIDE DEF g, r
      <4> QED
        BY <4>1, <2>1, DerivSum, Zenon
    <3>2. Range(dag) = Range(d) \cup {v} /\ v \notin Range(d)
      BY FrontOfDag, Zenon
    <3>3. V = W \cup {v} /\ v \notin W
      BY <3>2, <2>1, Zenon
    <3>4. IsFiniteSet(W) /\ NatOn(g, W) /\ g[v] \in Nat
      BY <3>1, <2>1, FS_Subset, Zenon DEF NatOn
    <3>5. g[v] = T * D
      BY <2>1, Zenon DEF Via
    <3>6. PassedOn(d, u) = Hit(u, r) + Total(g, V) /\ PassedOn(dag, u) = Hit(u, r) + Total(g, W)
      BY Zenon DEF PassedOn
    <3> HIDE DEF g, V, W, T, D, r
    <3>7. Total(g, W \cup {v}) = g[v] + Total(g, W)
      BY <3>3, <3>4, SumAdd, Zenon
    <3>8. Total(g, W) \in Nat
      BY <3>4, SumNat, Zenon
    <3>9. Total(g, V) = g[v] + Total(g, W)
      BY <3>3, <3>7, Zenon
    <3> QED
      BY <3>4, <3>5, <3>6, <3>8, <3>9 DEF Hit
  <2>10. before[u].grad \in Nat /\ nodes[v].grad \in Nat
    BY <2>1, NodeOf, Zenon DEF IsGraph, Vars
  <2> HIDE DEF T, D
  <2>11. T * nodes[v].grad = T * D
    BY <2>6, <2>7, <2>8, <2>10
  <2>12. T * D \in Nat
    BY <2>6, <2>7
  <2>13. CASE before[u].calcGrad
    <3>1. t[u].grad = (before[u].grad + PassedOn(dag, u)) + T * D
      BY <2>2, <2>3, <2>4, <2>5, <2>11, <2>13, Zenon
    <3>2. t[u].grad = before[u].grad + PassedOn(d, u)
      BY <3>1, <2>9, <2>10, <2>12
    <3> QED
      BY <3>2, <2>13, Zenon
  <2>14. CASE ~before[u].calcGrad
    <3>1. t[u].grad = (before[u].grad + 0) + 0
      BY <2>2, <2>3, <2>4, <2>14, Zenon
    <3>2. t[u].grad = before[u].grad + 0
      BY <3>1, <2>10
    <3> QED
      BY <3>2, <2>14, Zenon
  <2> QED
    BY <2>13, <2>14, Zenon
<1> QED
  BY <1>VisitGrads


\* The rest of the list is in order.
LEMMA OrderFront ==
  ASSUME NEW ns, NEW t, NEW a, NEW d, Len(d) \in Nat, NEW r, IsOrder(ns, a, r), d \in Seq(1..r),
         \A k \in 1..Len(d) : k \in 1..Len(a) /\ d[k] = a[k],
         \A k \in 1..Len(d) : t[d[k]].inputs = ns[d[k]].inputs
  PROVE  IsOrder(t, d, r)
<1>1. \A j, k \in 1..Len(d) : d[j] = d[k] => j = k
  <2>1. \A j, k \in 1..Len(a) : a[j] = a[k] => j = k
    BY Zenon DEF IsOrder
  <2> QED
    BY <2>1, Zenon
<1>2. ASSUME NEW k \in 1..Len(d), NEW w \in Range(t[d[k]].inputs)
      PROVE  \E j \in 1..(k - 1) : d[j] = w
  <2>1. k \in 1..Len(a) /\ w \in Range(ns[a[k]].inputs)
    BY Zenon
  <2>2. PICK j \in 1..(k - 1) : a[j] = w
    BY <2>1, Zenon DEF IsOrder
  <2>3. j \in 1..Len(d)
    OBVIOUS
  <2>4. d[j] = w
    BY <2>2, <2>3, Zenon
  <2> QED
    BY <2>4, Zenon
<1> QED
  BY <1>1, <1>2, Zenon DEF IsOrder

\* A visit that succeeds.
LEMMA VisitPass ==
  ASSUME IsGraph(nodes), PassInv, dag # <<>>, NEW v, v = dag[Len(dag)],
         Effect(nodes', nodes, v), dag' = Front, pass' = pass, before' = before,
         hooked' = IF nodes[v].hook
                   THEN [hooked EXCEPT ![v] = Append(hooked[v], nodes[v].grad)] ELSE hooked
  PROVE  PassInv'
<1> DEFINE r == pass.root
<1>1. /\ v \in Vars /\ v \in Range(dag) /\ Sound(nodes, v) /\ Inputs(nodes, v)
      /\ nodes[v].op # "none" => nodes[v].grad # 0
  BY LastOfDag, Zenon
<1>2. /\ dag' \in Seq(1..r) /\ Len(dag') = Len(dag) - 1 /\ Len(dag') \in Nat
      /\ DOMAIN dag' = 1..Len(dag')
      /\ \A k \in 1..Len(dag') : dag'[k] = dag[k] /\ dag'[k] # v /\ k \in 1..Len(dag)
      /\ v \notin Range(dag') /\ Range(dag) = Range(dag') \cup {v}
  BY FrontOfDag, Zenon
<1>3. /\ Vars' = Vars /\ IsGraph(nodes')
      /\ \A u \in Vars :
           /\ nodes'[u].calcGrad = nodes[u].calcGrad /\ nodes'[u].op = nodes[u].op
           /\ nodes'[u].hook = nodes[u].hook
           /\ u # v => nodes'[u].inputs = nodes[u].inputs
           /\ nodes'[u].grad = nodes[u].grad +
                (IF nodes[u].calcGrad THEN Times(nodes, v, u) * nodes[v].grad ELSE 0)
  BY Zenon DEF Effect, Vars
<1>4. /\ r \in Vars /\ pass.retain \in BOOLEAN /\ IsGraph(before)
      /\ SamePass(before, nodes, dag) /\ IsOrder(nodes, dag, r) /\ Comes(nodes, dag)
      /\ HooksInv
  BY Zenon DEF PassInv
<1>5. \A k \in 1..Len(dag) : dag[k] \in Vars
  <2> DEFINE S == 1..r
  <2>1. dag \in Seq(S) /\ \A w \in S : w \in Vars
    BY <1>4 DEF IsOrder, IsGraph, Vars
  <2> HIDE DEF S
  <2> QED
    BY <2>1
<1>6. \A k \in 1..Len(dag') : nodes'[dag[k]].inputs = nodes[dag[k]].inputs
  <2> SUFFICES ASSUME NEW k \in 1..Len(dag') PROVE nodes'[dag[k]].inputs = nodes[dag[k]].inputs
    BY Zenon
  <2>1. dag'[k] = dag[k] /\ dag'[k] # v /\ k \in 1..Len(dag)
    BY <1>2
  <2>2. dag[k] # v /\ dag[k] \in Vars
    BY <2>1, <1>5
  <2> QED
    BY <2>2, <1>3, Zenon
<1>7. IsOrder(nodes', dag', r)
  <2>1. PICK d : d = dag'
    BY Zenon
  <2>2. /\ d \in Seq(1..r) /\ IsOrder(nodes, dag, r)
        /\ \A k \in 1..Len(d) : k \in 1..Len(dag) /\ d[k] = dag[k]
        /\ \A k \in 1..Len(d) : nodes'[d[k]].inputs = nodes[d[k]].inputs
    BY <2>1, <1>2, <1>4, <1>6
  <2>3. Len(d) \in Nat
    BY <2>1, <1>2, Zenon
  <2>4. IsOrder(nodes', d, r)
    BY <2>2, <2>3, OrderFront, ZenonT(30)
  <2> QED
    BY <2>1, <2>4, Zenon
<1>8. Comes(nodes', dag')
  <2> SUFFICES ASSUME NEW k \in 1..Len(dag'),
                      nodes'[dag'[k]].calcGrad, nodes'[dag'[k]].grad = 0
               PROVE  \E j \in (k + 1)..Len(dag') : dag'[k] \in Range(nodes'[dag'[j]].inputs)
    BY Zenon DEF Comes
  <2> DEFINE u == dag[k]
             g == nodes[v].grad
             T == Times(nodes, v, u)
  <2>1. u = dag'[k] /\ u \in Vars /\ nodes[u].calcGrad /\ k \in 1..Len(dag)
    BY <1>2, <1>3, <1>5, Zenon
  <2>2. nodes[u].grad \in Nat /\ g \in Nat
    BY <1>1, <2>1, NodeOf, Zenon DEF IsGraph, Vars
  <2>3. T \in Nat /\ (u \in Range(nodes[v].inputs) => T \in {1, 2})
    BY <1>1, TimesIs, Zenon
  <2>4. nodes[u].grad + T * g = 0
    <3>1. nodes'[u].grad = nodes[u].grad + (IF nodes[u].calcGrad THEN T * g ELSE 0)
      BY <2>1, <1>3, Zenon
    <3>2. nodes'[u].grad = 0
      BY <2>1, Zenon
    <3> QED
      BY <3>1, <3>2, <2>1, Zenon
  <2>5. u \in Range(nodes[v].inputs) => g # 0
    <3>1. u \notin Range(<<>>)
      BY DEF Range
    <3> QED
      BY <3>1, <1>1, Zenon DEF Sound
  <2>6. nodes[u].grad = 0 /\ u \notin Range(nodes[v].inputs)
    <3> HIDE DEF T, g, u
    <3>1. T * g \in Nat
      BY <2>2, <2>3
    <3>2. nodes[u].grad = 0 /\ T * g = 0
      BY <3>1, <2>2, <2>4
    <3>3. (T = 1 \/ T = 2) /\ g # 0 => T * g # 0
      BY <2>2
    <3> QED
      BY <3>2, <3>3, <2>3, <2>5, Zenon
  <2>7. PICK j \in (k + 1)..Len(dag) : u \in Range(nodes[dag[j]].inputs)
    BY <2>1, <2>6, <1>4, Zenon DEF Comes
  <2>8. j # Len(dag)
    BY <2>6, <2>7, Zenon
  <2>9. j \in (k + 1)..Len(dag') /\ j \in 1..Len(dag')
    <3> DEFINE m == Len(dag)
               n == Len(dag')
    <3>1. m \in Nat /\ n = m - 1 /\ n \in Nat /\ k \in 1..n /\ j \in (k + 1)..m /\ j # m
      BY LastOfDag, <2>8, <1>2, Zenon
    <3> HIDE DEF m, n
    <3>2. j \in (k + 1)..n /\ j \in 1..n
      BY <3>1
    <3> QED
      BY <3>2, Zenon DEF n
  <2>10. dag'[j] = dag[j] /\ nodes'[dag[j]].inputs = nodes[dag[j]].inputs
    BY <2>9, <1>2, <1>6
  <2> QED
    BY <2>1, <2>7, <2>9, <2>10
<1>9. SamePass(before, nodes', dag')
  <2>1. \A u \in Vars : u \in Range(dag') => u # v /\ u \in Range(dag)
    BY <1>2, Zenon
  <2> QED
    BY <2>1, <1>3, <1>4, Zenon DEF SamePass, Vars
<1>10. \A u \in Vars' : Derivative(u)' = Derivative(u)
  BY DerivativeIs, DerivativePrimeIs, Zenon
<1>11. /\ DOMAIN hooked' = Vars' /\ \A u \in Vars : u # v => hooked'[u] = hooked[u]
       /\ nodes[v].hook => hooked'[v] = Append(hooked[v], nodes[v].grad)
  BY <1>1, <1>3, <1>4, Zenon DEF HooksInv
<1>12. HooksInv'
  <2> SUFFICES ASSUME NEW u \in Vars
               PROVE  /\ u \in Range(dag') => hooked'[u] = <<>>
                      /\ before[u].hook /\ Derivative(u)' > 0 /\ u \notin Range(dag') =>
                           Len(hooked'[u]) = 1
    BY <1>3, <1>11, Zenon DEF HooksInv
  <2>1. CASE u = v
    <3>1. before[v].hook => nodes[v].hook /\ hooked[v] = <<>>
      BY <1>1, <1>4, Zenon DEF SamePass, HooksInv, Vars
    <3>2. before[v].hook => Len(hooked'[v]) = 1
      BY <3>1, <1>11
    <3> QED
      BY <3>2, <2>1, <1>2, Zenon
  <2>2. CASE u # v
    <3>1. u \in Range(dag') <=> u \in Range(dag)
      BY <2>2, <1>2, Zenon
    <3> QED
      BY <3>1, <2>2, <1>3, <1>4, <1>10, <1>11, Zenon DEF HooksInv
  <2> QED
    BY <2>1, <2>2, Zenon
<1>13. GradsInv'
  <2> SUFFICES ASSUME Fresh', NEW u \in Vars
               PROVE  nodes'[u].grad = before'[u].grad +
                        (IF before'[u].calcGrad THEN Passed(u)' ELSE 0)
    BY <1>3, Zenon DEF GradsInv
  <2>1. Fresh
    BY Zenon DEF Fresh
  <2>2. nodes'[u].grad = before[u].grad +
          (IF before[u].calcGrad THEN PassedOn(dag', u) ELSE 0)
    BY <2>1, VisitPassesOn
  <2>3. Passed(u)' = PassedOn(dag', u)
    <3>1. Through(u)' = Via(before, r, u)
      BY ThroughPrimeIs, Zenon
    <3> QED
      BY <3>1, Zenon DEF Passed, PassedOn, Visited, Hit
  <2> QED
    BY <2>2, <2>3, Zenon
<1> QED
  BY <1>3, <1>4, <1>7, <1>8, <1>9, <1>12, <1>13, Zenon DEF PassInv

------------------------------------------------------------------------------
(* The end of a visit *)

\* How a visit of v ends.
Fails(v) ==
  /\ GradFuncError(nodes[v]) # "none" /\ error' = GradFuncError(nodes[v])
  /\ nodes' = nodes /\ dag' = dag /\ hooked' = hooked

HookFails(v) ==
  /\ error' = "hook without gradient" /\ nodes[v].hook /\ nodes[v].grad = 0
  /\ Effect(nodes', nodes, v) /\ dag' = dag /\ hooked' = hooked

Succeeds(v) ==
  /\ error' = "none" /\ Effect(nodes', nodes, v) /\ dag' = Front
  /\ hooked' = IF nodes[v].hook
               THEN [hooked EXCEPT ![v] = Append(hooked[v], nodes[v].grad)] ELSE hooked
  /\ dag' # <<>> => pass' = pass /\ before' = before

\* The ways a visit can end.
LEMMA VisitCases ==
  ASSUME Inv, Visit, NEW v, v = dag[Len(dag)]
  PROVE  /\ GraphInv /\ IsGraph(nodes) /\ PassInv /\ dag # <<>> /\ error = "none"
         /\ calls' = calls
         /\ Fails(v) \/ HookFails(v) \/ Succeeds(v)
<1> DEFINE n == nodes[v]
           e == GradFuncError(n)
<1>1. /\ GraphInv /\ IsGraph(nodes) /\ PassInv /\ dag # <<>> /\ error = "none"
      /\ calls' = calls
  BY Zenon DEF Visit, Inv, GraphInv
<1>2. v \in Vars
  BY <1>1, LastOfDag, Zenon
<1>3. /\ nodes' = IF e # "none" THEN nodes
                  ELSE IF pass.retain THEN Propagated(n)
                  ELSE [Propagated(n) EXCEPT ![v].inputs = <<>>]
      /\ error' = IF e # "none" THEN e
                  ELSE IF n.hook /\ n.grad = 0 THEN "hook without gradient" ELSE "none"
      /\ hooked' = IF error' = "none" /\ n.hook
                   THEN [hooked EXCEPT ![v] = Append(hooked[v], n.grad)] ELSE hooked
      /\ dag' = IF error' = "none" THEN Front ELSE dag
      /\ dag' # <<>> => pass' = pass /\ before' = before
  BY Zenon DEF Visit, Front
<1> HIDE DEF e, n
<1>4. CASE e # "none"
  <2>1. error' = e /\ nodes' = nodes
    BY <1>3, <1>4, Zenon
  <2>2. error' # "none"
    BY <2>1, <1>4, Zenon
  <2>3. hooked' = hooked /\ dag' = dag
    BY <2>2, <1>3, Zenon
  <2>4. Fails(v)
    BY <2>1, <2>3, <1>4, Zenon DEF Fails, e, n
  <2> QED
    BY <2>4, <1>1, Zenon
<1>5. ASSUME e = "none" PROVE Effect(nodes', nodes, v)
  <2>1. nodes' = Propagated(n) \/ nodes' = [Propagated(n) EXCEPT ![v].inputs = <<>>]
    BY <1>3, <1>5, Zenon
  <2>2. GradFuncError(nodes[v]) = "none"
    BY <1>5, Zenon DEF e, n
  <2> DEFINE s == Propagated(nodes[v])
  <2>3. s = Propagated(nodes[v]) /\ (nodes' = s \/ nodes' = [s EXCEPT ![v].inputs = <<>>])
    BY <2>1, Zenon DEF n
  <2> HIDE DEF s
  <2> QED
    BY <2>2, <2>3, <1>1, <1>2, VisitEffect
<1>6. CASE e = "none" /\ n.hook /\ n.grad = 0
  <2>1. error' = "hook without gradient"
    BY <1>3, <1>6, Zenon
  <2>2. error' # "none"
    BY <2>1, Zenon
  <2>3. hooked' = hooked /\ dag' = dag
    BY <2>2, <1>3, Zenon
  <2>4. HookFails(v)
    BY <2>1, <2>3, <1>5, <1>6, Zenon DEF HookFails, n
  <2> QED
    BY <2>4, <1>1, Zenon
<1>7. CASE e = "none" /\ ~ (n.hook /\ n.grad = 0)
  <2>1. error' = "none"
    BY <1>3, <1>7, Zenon
  <2>2. Succeeds(v)
    BY <2>1, <1>3, <1>5, <1>7, Zenon DEF Succeeds, n
  <2> QED
    BY <2>2, <1>1, Zenon
<1> QED
  BY <1>4, <1>6, <1>7, Zenon

\* A visit keeps the invariant, and where it fails the program misused the graph.
LEMMA VisitKeeps ==
  ASSUME Inv, Visit
  PROVE  Inv'
<1>1. PICK v : v = dag[Len(dag)]
  BY Zenon
<1>2. /\ GraphInv /\ IsGraph(nodes) /\ PassInv /\ dag # <<>> /\ error = "none"
      /\ calls' = calls
      /\ Fails(v) \/ HookFails(v) \/ Succeeds(v)
  BY <1>1, VisitCases, Zenon
<1>3. /\ v \in Vars /\ v \in Range(dag)
      /\ ~nodes[v].calcGrad \/ nodes[v].grad # 0
  BY <1>1, <1>2, LastOfDag, Zenon
<1>4. CASE Fails(v)
  <2> DEFINE e == GradFuncError(nodes[v])
  <2>1. e # "none" /\ error' = e
    BY <1>4, Zenon DEF Fails
  <2>2. \/ e \in {"grad disabled", "no data"} /\ calls["switch"] > 0
        \/ e = "no inputs" /\ calls["backward"] > 1
    BY <2>1, <1>1, <1>2, GradFuncFails, Zenon
  <2> HIDE DEF e
  <2> QED
    BY <2>1, <2>2, <1>2, Zenon DEF Inv, FailsOnlyOnMisuse
<1>5. CASE HookFails(v)
  <2>1. error' = "hook without gradient" /\ ~nodes[v].calcGrad /\ dag' = dag
    BY <1>3, <1>5, Zenon DEF HookFails
  <2>2. error' # "none"
    BY <2>1, Zenon
  <2>3. ~nodes'[v].calcGrad
    BY <2>1, <1>3, <1>5, Zenon DEF HookFails, Effect, Vars
  <2>4. dag'[Len(dag')] = v
    BY <2>1, <1>1, Zenon
  <2> QED
    BY <2>1, <2>2, <2>3, <2>4, Zenon DEF Inv, FailsOnlyOnMisuse
<1>6. CASE Succeeds(v)
  <2>1. /\ error' = "none" /\ Effect(nodes', nodes, v) /\ dag' = Front
        /\ hooked' = IF nodes[v].hook
                     THEN [hooked EXCEPT ![v] = Append(hooked[v], nodes[v].grad)] ELSE hooked
        /\ dag' # <<>> => pass' = pass /\ before' = before
    BY <1>6, Zenon DEF Succeeds
  <2>2. IsGraph(nodes') /\ Vars' = Vars
    BY <2>1, Zenon DEF Effect, Vars
  <2>3. v \notin Range(dag') /\ Range(dag) = Range(dag') \cup {v}
    BY <2>1, <1>1, <1>2, FrontOfDag, Zenon
  <2>4. ASSUME calls["switch"] = 0, NEW u \in Vars PROVE CanPass(nodes', nodes'[u])
    <3>1. CASE nodes'[u].inputs = <<>>
      BY <3>1, Zenon DEF CanPass
    <3>2. CASE nodes'[u].inputs # <<>>
      <4>1. u \in DOMAIN nodes /\ CanPass(nodes, nodes[u])
        BY <2>4, <1>2, Zenon DEF GraphInv, Vars
      <4>2. /\ nodes'[u].op = nodes[u].op /\ nodes'[u].inputs = nodes[u].inputs
            /\ nodes'[u].kept = nodes[u].kept
            /\ \A w \in DOMAIN nodes : nodes'[w].calcGrad = nodes[w].calcGrad
        BY <3>2, <4>1, <2>1, Zenon DEF Effect
      <4> QED
        BY <4>1, <4>2, <1>2, CanPassSame
    <3> QED
      BY <3>1, <3>2, Zenon
  <2>5. Cleared'
    <3> SUFFICES ASSUME calls["backward"] <= 1, NEW u \in Vars,
                        nodes'[u].op # "none", nodes'[u].inputs = <<>>
                 PROVE  calls["backward"] = 1 /\ u \notin Range(dag')
      BY <1>2, <2>2, Zenon DEF Cleared
    <3>1. CASE nodes[u].inputs = <<>>
      <4>1. nodes[u].op # "none"
        BY <2>1, Zenon DEF Effect, Vars
      <4>2. calls["backward"] = 1 /\ u \notin Range(dag)
        BY <3>1, <4>1, <1>2, Zenon DEF GraphInv, Cleared
      <4> QED
        BY <4>2, <2>3, Zenon
    <3>2. CASE nodes[u].inputs # <<>>
      <4>1. u = v
        BY <3>2, <2>1, Zenon DEF Effect, Vars
      <4>2. calls["backward"] \in Nat /\ calls["backward"] # 0
        BY <1>2, Zenon DEF GraphInv, Kinds
      <4>3. calls["backward"] = 1
        BY <4>2
      <4> QED
        BY <4>1, <4>3, <2>3, Zenon
    <3> QED
      BY <3>1, <3>2, Zenon
  <2>6. ASSUME dag' # <<>> PROVE PassInv'
    BY <2>1, <2>6, <1>1, <1>2, VisitPass
  <2> QED
    BY <1>2, <2>1, <2>2, <2>4, <2>5, <2>6, Zenon DEF Inv, FailsOnlyOnMisuse, GraphInv
<1> QED
  BY <1>2, <1>4, <1>5, <1>6, Zenon

------------------------------------------------------------------------------
(* The theorems *)

\* The invariant holds at first.
LEMMA InitInv ==
  ASSUME Init
  PROVE  Inv
<1>1. calls \in [Kinds -> Nat]
  BY DEF Init, Kinds
<1>2. nodes \in Seq(NodeType) /\ DOMAIN nodes = {} /\ Vars = {}
  BY DEF Init, Vars
<1>3. IsGraph(nodes)
  BY <1>2, Zenon DEF IsGraph
<1>4. Cleared
  BY <1>2, Zenon DEF Cleared
<1>5. dag = <<>> /\ error = "none"
  BY Zenon DEF Init
<1> QED
  BY <1>1, <1>2, <1>3, <1>4, <1>5, Zenon DEF Inv, FailsOnlyOnMisuse, GraphInv

\* A step that changes nothing keeps it.
LEMMA StutterKeeps ==
  ASSUME Inv, UNCHANGED vars
  PROVE  Inv'
<1>1. /\ nodes' = nodes /\ dag' = dag /\ pass' = pass /\ calls' = calls
      /\ error' = error /\ before' = before /\ hooked' = hooked
  BY Zenon DEF vars
<1>2. \A u : Derivative(u)' = Derivative(u)
  BY <1>1, DerivativeIs, DerivativePrimeIs, Zenon
<1>3. \A u : Through(u)' = Through(u)
  BY <1>1, ThroughIs, ThroughPrimeIs, Zenon
<1>4. \A u : Passed(u)' = Passed(u)
  BY <1>1, <1>3, Zenon DEF Passed, Visited
<1>5. HooksInv' <=> HooksInv
  BY <1>1, <1>2, Zenon DEF HooksInv, Vars
<1>6. GradsInv' <=> GradsInv
  BY <1>1, <1>4, Zenon DEF GradsInv, Vars, Fresh
<1>7. PassInv' <=> PassInv
  BY <1>1, <1>5, <1>6, Zenon DEF PassInv, Vars
<1>8. GraphInv' <=> GraphInv
  BY <1>1, <1>7, Zenon DEF GraphInv, Vars, Cleared
<1> QED
  BY <1>1, <1>8, Zenon DEF Inv, FailsOnlyOnMisuse

\* Every step keeps the invariant.
LEMMA InvStep == Inv /\ [Next]_vars => Inv'
BY StutterKeeps, CallsKeep, PassBegins, VisitKeeps, Zenon DEF Next

\* The program calls nothing while a pass runs.
LEMMA OnlyVisits ==
  ASSUME Next, dag # <<>>
  PROVE  Visit
<1>1. \A kind : ~Call(kind)
  BY Zenon DEF Call
<1> QED
  BY <1>1, Zenon DEF Next, Leaf, Sum, Product, Index, As, NewFrom, New, zeroGrad,
    setCalcGrad, GradHook, backward

\* A visit adds nothing to a variable that has been visited.
LEMMA VisitedKeeps ==
  ASSUME IsGraph(nodes), PassInv, dag # <<>>, NEW v, v = dag[Len(dag)],
         NEW t, Effect(t, nodes, v), NEW u \in Vars, u \notin Range(dag)
  PROVE  t[u].grad = nodes[u].grad
<1>1. v \in DOMAIN nodes /\ v \in Range(dag) /\ u \in DOMAIN nodes
  BY LastOfDag, Zenon DEF Vars
<1>2. u \notin Range(nodes[v].inputs)
  <2>1. Len(dag) \in 1..Len(dag) /\ DOMAIN dag = 1..Len(dag)
    BY LastOfDag
  <2>2. \A w \in Range(nodes[v].inputs) : \E j \in 1..(Len(dag) - 1) : dag[j] = w
    BY <2>1, Zenon DEF PassInv, IsOrder
  <2>3. \A j \in 1..(Len(dag) - 1) : j \in DOMAIN dag
    BY <2>1
  <2> QED
    BY <2>2, <2>3, Zenon DEF Range
<1>3. Times(nodes, v, u) = 0
  <2>1. Inputs(nodes, v)
    BY LastOfDag, Zenon
  <2> QED
    BY <2>1, <1>2, TimesIs
<1>4. nodes[u].grad \in Nat /\ nodes[v].grad \in Nat
  BY <1>1, NodeOf, Zenon DEF IsGraph
<1>5. t[u].grad = nodes[u].grad +
        (IF nodes[u].calcGrad THEN Times(nodes, v, u) * nodes[v].grad ELSE 0)
  BY <1>1, Zenon DEF Effect
<1> DEFINE a == nodes[u].grad
           b == nodes[v].grad
<1>6. a \in Nat /\ b \in Nat /\ t[u].grad = a + (IF nodes[u].calcGrad THEN 0 * b ELSE 0)
  BY <1>3, <1>4, <1>5, Zenon
<1> HIDE DEF a, b
<1>7. t[u].grad = a
  BY <1>6
<1> QED
  BY <1>7, Zenon DEF a

\* The action of HookSeesFinalGradient.
HookStep ==
  dag # <<>> =>
    /\ \A u \in Vars : hooked[u] # <<>> =>
         nodes'[u].grad = nodes[u].grad /\ hooked'[u] = hooked[u]
    /\ PassEnds => \A u \in Vars :
         before[u].hook /\ Derivative(u) > 0 => Len(hooked'[u]) = 1

\* A step of the pass changes nothing that a hook has seen, and the last one
\* leaves no hook out.
LEMMA HookKeeps ==
  ASSUME Inv, Next
  PROVE  HookStep
<1> SUFFICES ASSUME dag # <<>>
             PROVE  /\ \A u \in Vars : hooked[u] # <<>> =>
                         nodes'[u].grad = nodes[u].grad /\ hooked'[u] = hooked[u]
                    /\ PassEnds => \A u \in Vars :
                         before[u].hook /\ Derivative(u) > 0 => Len(hooked'[u]) = 1
  BY Zenon DEF HookStep
<1>1. Visit
  BY OnlyVisits, Zenon
<1>2. PICK v : v = dag[Len(dag)]
  BY Zenon
<1>3. /\ IsGraph(nodes) /\ PassInv
      /\ Fails(v) \/ HookFails(v) \/ Succeeds(v)
  BY <1>1, <1>2, VisitCases, Zenon
<1>4. v \in Vars /\ v \in Range(dag) /\ nodes[v].hook = before[v].hook
  BY <1>2, <1>3, LastOfDag, Zenon DEF PassInv, SamePass, Vars
<1>5. /\ DOMAIN hooked = Vars
      /\ \A u \in Vars :
           /\ u \in Range(dag) => hooked[u] = <<>>
           /\ before[u].hook /\ Derivative(u) > 0 /\ u \notin Range(dag) =>
                Len(hooked[u]) = 1
  BY <1>3, Zenon DEF PassInv, HooksInv
<1>6. CASE Fails(v)
  BY <1>6, Zenon DEF Fails, PassEnds
<1>7. CASE HookFails(v)
  <2>1. dag' = dag /\ hooked' = hooked /\ Effect(nodes', nodes, v)
    BY <1>7, Zenon DEF HookFails
  <2>2. \A u \in Vars : hooked[u] # <<>> => nodes'[u].grad = nodes[u].grad
    BY <2>1, <1>2, <1>3, <1>5, VisitedKeeps, Zenon
  <2> QED
    BY <2>1, <2>2, Zenon DEF PassEnds
<1>8. CASE Succeeds(v)
  <2>1. /\ dag' = Front /\ Effect(nodes', nodes, v)
        /\ hooked' = IF nodes[v].hook
                     THEN [hooked EXCEPT ![v] = Append(hooked[v], nodes[v].grad)] ELSE hooked
    BY <1>8, Zenon DEF Succeeds
  <2>2. \A u \in Vars : hooked[u] # <<>> => nodes'[u].grad = nodes[u].grad
    BY <2>1, <1>2, <1>3, <1>5, VisitedKeeps, Zenon
  <2>3. \A u \in Vars : u # v => hooked'[u] = hooked[u]
    BY <2>1, <1>5, Zenon
  <2>4. \A u \in Vars : hooked[u] # <<>> => hooked'[u] = hooked[u]
    BY <2>3, <1>4, <1>5, Zenon
  <2>5. ASSUME PassEnds, NEW u \in Vars, before[u].hook, Derivative(u) > 0
        PROVE  Len(hooked'[u]) = 1
    <3>1. Range(dag) = Range(dag') \cup {v} /\ dag' = <<>>
      BY <2>1, <2>5, <1>2, <1>3, FrontOfDag, Zenon DEF PassEnds
    <3>2. Range(dag') = {}
      <4>1. DOMAIN dag' = {}
        BY <3>1
      <4> QED
        BY <4>1, Zenon DEF Range
    <3>3. CASE u = v
      <4>1. hooked'[v] = Append(hooked[v], nodes[v].grad) /\ hooked[v] = <<>>
        BY <3>3, <2>1, <2>5, <1>4, <1>5, Zenon
      <4>2. hooked'[v] = Append(<<>>, nodes[v].grad)
        BY <4>1, Zenon
      <4> DEFINE a == nodes[v].grad
      <4> HIDE DEF a
      <4>3. Len(Append(<<>>, a)) = 1
        OBVIOUS
      <4> QED
        BY <3>3, <4>2, <4>3, Zenon DEF a
    <3>4. CASE u # v
      BY <3>1, <3>2, <3>4, <2>3, <2>5, <1>5, Zenon
    <3> QED
      BY <3>3, <3>4, Zenon
  <2> QED
    BY <2>2, <2>4, <2>5, Zenon
<1> QED
  BY <1>3, <1>6, <1>7, <1>8, Zenon

\* The action of GradientsAreDerivatives.
GradStep ==
  (PassEnds /\ \A v \in DOMAIN before :
        before[v].op # "none" => before[v].grad = 0)
  => \A u \in Vars :
       nodes'[u].grad =
         before[u].grad + (IF before[u].calcGrad THEN Derivative(u) ELSE 0)

\* The last step of the pass completes the gradients.
LEMMA PassGives ==
  ASSUME Inv, Next
  PROVE  GradStep
<1> SUFFICES ASSUME PassEnds, Fresh, NEW u \in Vars
             PROVE  nodes'[u].grad =
                      before[u].grad + (IF before[u].calcGrad THEN Derivative(u) ELSE 0)
  BY Zenon DEF GradStep, Fresh
<1>1. dag # <<>> /\ dag' = <<>> /\ Visit
  BY OnlyVisits, Zenon DEF PassEnds
<1>2. PICK v : v = dag[Len(dag)]
  BY Zenon
<1>3. /\ IsGraph(nodes) /\ PassInv
      /\ Fails(v) \/ HookFails(v) \/ Succeeds(v)
  BY <1>1, <1>2, VisitCases, Zenon
<1>4. dag' = Front /\ Effect(nodes', nodes, v)
  BY <1>1, <1>3, Zenon DEF Fails, HookFails, Succeeds
<1>5. nodes'[u].grad =
        before[u].grad + (IF before[u].calcGrad THEN PassedOn(dag', u) ELSE 0)
  BY <1>1, <1>2, <1>3, <1>4, VisitPassesOn, Zenon
<1> DEFINE r == pass.root
           g == Via(before, r, u)
<1>6. Range(dag') = {}
  <2>1. DOMAIN dag' = {}
    BY <1>1
  <2> QED
    BY <2>1, Zenon DEF Range
<1>7. IsGraph(before) /\ r \in DOMAIN before /\ u \in DOMAIN before
  BY <1>3, Zenon DEF PassInv, SamePass, Vars
<1>8. Deriv(before, r, u) = Hit(u, r) + Total(g, 1..r)
  <2>1. g = Via(before, r, u)
    BY Zenon
  <2> HIDE DEF g
  <2> QED
    BY <2>1, <1>7, DerivSum, Zenon
<1>9. (1..r) \ Range(dag') = 1..r
  BY <1>6, Zenon
<1>10. PassedOn(dag', u) = Derivative(u)
  BY <1>8, <1>9, DerivativeIs, Zenon DEF PassedOn
<1> QED
  BY <1>5, <1>10, Zenon

\* The exceptions for types and for gradients that were not propagated are never
\* thrown, and the others only after the misuse that FailsOnlyOnMisuse names, for
\* any number of variables and calls (addGrad, calcGradInputs, operator(), operator*).
THEOREM FailuresAreMisuse == Spec => []FailsOnlyOnMisuse
<1>1. Init => Inv
  BY InitInv, Zenon
<1>2. Inv => FailsOnlyOnMisuse
  BY Zenon DEF Inv
<1> QED
  BY <1>1, <1>2, InvStep, PTL DEF Spec

\* For any graph, a gradient no longer changes once the hook has seen it, and a
\* pass that completes has called the hook of every variable on which the root
\* depends once (backward, applyGradHook).
THEOREM HooksAreFinal == Spec => HookSeesFinalGradient
<1>1. Init => Inv
  BY InitInv, Zenon
<1>2. Inv /\ [Next]_vars => [HookStep]_vars
  BY HookKeeps, Zenon
<1> QED
  BY <1>1, <1>2, InvStep, PTL DEF Spec, HookSeesFinalGradient, HookStep

\* A pass over any graph whose operations hold no gradient of an earlier pass adds
\* to every variable with calcGrad the derivative of the root, along all paths, and
\* to no other anything (backward, build, calcGradInputs, addGrad).
THEOREM GradientsExact == Spec => GradientsAreDerivatives
<1>1. Init => Inv
  BY InitInv, Zenon
<1>2. Inv /\ [Next]_vars => [GradStep]_vars
  BY PassGives, Zenon
<1> QED
  BY <1>1, <1>2, InvStep, PTL DEF Spec, GradientsAreDerivatives, GradStep
==============================================================================
