------------------------------ MODULE Autograd ------------------------------
(***************************************************************************)
(* Reverse-mode differentiation, fl/autograd/Variable.cpp.  A program      *)
(* builds variables from others, asks for gradient hooks, switches         *)
(* gradients on and off, and runs backward passes, each of which visits    *)
(* the variables below its root one by one.                                *)
(*                                                                         *)
(* Every operation has derivative 1 in each of its inputs, so that the     *)
(* derivative of one variable by another is the number of paths between    *)
(* them, and gradients are numbers; 0 stands for no gradient (nullptr),    *)
(* which is not confused with a sum since every contribution is positive.  *)
(***************************************************************************)
EXTENDS Naturals, Sequences, FiniteSets, Functions, FiniteSetsExt

CONSTANTS Types,        \* element types
          MaxVars,      \* bound: variables
          MaxCalls      \* bound: calls of the program

ASSUME AutogradAssumption ==
  /\ Types # {}
  /\ MaxVars \in Nat /\ MaxCalls \in Nat

VARIABLES nodes,        \* the SharedGrad of every variable, in order of creation
          dag,          \* what is left to visit of the backward pass, last first
          pass,         \* [root, retain] of the current backward pass
          calls,        \* the number of calls of each kind
          error,        \* why the program ended
          before,       \* the nodes when the current pass began
          hooked        \* per variable, the gradients its hook got in this pass

vars == <<nodes, dag, pass, calls, error, before, hooked>>

Vars == DOMAIN nodes
NoPass == [root |-> 0, retain |-> TRUE]

Init ==
  /\ nodes = <<>> /\ dag = <<>> /\ pass = NoPass
  /\ calls = [kind \in {"new", "other", "switch", "backward"} |-> 0]
  /\ error = "none" /\ before = <<>> /\ hooked = <<>>

\* The program calls an operation, while no backward pass runs.
Call(kind) ==
  /\ error = "none" /\ dag = <<>>
  /\ calls["new"] + calls["other"] + calls["switch"] + calls["backward"] < MaxCalls
  /\ calls' = [calls EXCEPT ![kind] = @ + 1]

\* A new variable.  op is the kind of its gradFunc, "none" for nullptr; kept are
\* the positions of the inputs whose arrays are kept for it.
New(calcGrad, type, op, inputs, kept) ==
  /\ Call("new") /\ Len(nodes) < MaxVars
  /\ nodes' = Append(nodes, [calcGrad |-> calcGrad, type |-> type, op |-> op,
                             inputs |-> inputs, kept |-> kept, grad |-> 0,
                             hook |-> FALSE])
  /\ UNCHANGED <<dag, pass, error, before, hooked>>

Leaf == \E c \in BOOLEAN, t \in Types : New(c, t, "none", <<>>, {})

\* An operation keeps its inputs only if one of them needs a gradient.
NeedsGrad(inputs) == \E v \in Range(inputs) : nodes[v].calcGrad

NewFrom(type, op, inputs, kept) ==
  IF NeedsGrad(inputs) THEN New(TRUE, type, op, inputs, kept)
  ELSE New(FALSE, type, "none", <<>>, {})

Pairs == {p \in Vars \X Vars : p[1] <= p[2] /\ nodes[p[1]].type = nodes[p[2]].type}

\* operator+ and -: all inputs are kept withoutData.
Sum == \E p \in Pairs : NewFrom(nodes[p[1]].type, "sum", p, {})

\* operator*: the array of each factor is kept if the other needs a gradient.
\* Mutant: if the factor itself needs one.
KeptOwn(p) == {k \in 1..2 : nodes[p[k]].calcGrad}

Kept(p) == {k \in 1..2 : nodes[p[3 - k]].calcGrad}

Product == \E p \in Pairs : NewFrom(nodes[p[1]].type, "product", p, Kept(p))

\* operator(): gradients are added in place.
Index == \E v \in Vars : NewFrom(nodes[v].type, "index", <<v>>, {})

\* as: a change of type.
As ==
  \E v \in Vars : \E t \in Types \ {nodes[v].type} : NewFrom(t, "as", <<v>>, {})

zeroGrad ==
  /\ Call("other")
  /\ \E v \in Vars : nodes[v].grad # 0 /\ nodes' = [nodes EXCEPT ![v].grad = 0]
  /\ UNCHANGED <<dag, pass, error, before, hooked>>

Switched(n) ==
  IF n.calcGrad
  THEN [n EXCEPT !.calcGrad = FALSE, !.op = "none", !.inputs = <<>>, !.grad = 0]
  ELSE [n EXCEPT !.calcGrad = TRUE]

setCalcGrad ==
  /\ Call("switch")
  /\ \E v \in Vars : nodes' = [nodes EXCEPT ![v] = Switched(@)]
  /\ UNCHANGED <<dag, pass, error, before, hooked>>

\* registerGradHook, and clearGradHook where there is one.
GradHook ==
  /\ Call("other")
  /\ \E v \in Vars : nodes' = [nodes EXCEPT ![v].hook = ~@]
  /\ UNCHANGED <<dag, pass, error, before, hooked>>

------------------------------------------------------------------------------
(* A backward pass. *)

\* build: the variables below v, inputs before outputs.  recurse(u) appends those
\* below u that are not in the list yet.  Mutant: a variable is placed before its
\* inputs.
buildPreorder(v) ==
  LET recurse[u \in 1..v] ==
        [seen \in Seq(1..v) |->
           LET ins == nodes[u].inputs
               below[k \in 0..Len(ins)] ==
                 IF k = 0 THEN Append(seen, u) ELSE recurse[ins[k]][below[k - 1]]
           IN  IF u \in Range(seen) THEN seen ELSE below[Len(ins)]]
      s == recurse[v][<<>>]
  IN  [k \in DOMAIN s |-> s[Len(s) + 1 - k]]

build(v) ==
  LET recurse[u \in 1..v] ==
        [seen \in Seq(1..v) |->
           LET ins == nodes[u].inputs
               below[k \in 0..Len(ins)] ==
                 IF k = 0 THEN seen ELSE recurse[ins[k]][below[k - 1]]
           IN  IF u \in Range(seen) THEN seen ELSE Append(below[Len(ins)], u)]
  IN  recurse[v][<<>>]

\* addGrad to a variable of a gradient g of type t.
TypeClash(ns, v, t) == ns[v].calcGrad /\ ns[v].type # t

\* Mutant: the gradient replaces an earlier one.
addGradReplaces(ns, v, g) ==
  IF ns[v].calcGrad THEN [ns EXCEPT ![v].grad = g] ELSE ns

addGrad(ns, v, g) == IF ns[v].calcGrad THEN [ns EXCEPT ![v].grad = @ + g] ELSE ns

backward ==
  /\ Call("backward")
  /\ \E v \in Vars, retain \in BOOLEAN :
       /\ dag' = build(v)
       /\ pass' = [root |-> v, retain |-> retain]
       /\ nodes' = addGrad(nodes, v, 1)
  /\ before' = nodes
  /\ hooked' = [v \in Vars |-> <<>>]
  /\ UNCHANGED error

\* The gradient type that gradFunc hands to its inputs: as casts it back.
InputGradType(n, v) == IF n.op = "as" THEN nodes[v].type ELSE n.type

\* gradFunc: the gradient of a variable goes to each of its inputs.
gradFunc(ns, n) ==
  LET in == n.inputs
      one == addGrad(ns, in[1], n.grad)
  IN  IF Len(in) = 1 THEN one ELSE addGrad(one, in[2], n.grad)

\* Why the visit of a variable fails, if it does.
GradFuncError(n) ==
  IF n.op = "none" THEN "none"
  ELSE IF n.grad = 0 THEN "not propagated"
  ELSE IF n.inputs = <<>> THEN "no inputs"
  ELSE IF n.op = "index" /\ ~nodes[n.inputs[1]].calcGrad THEN "grad disabled"
  ELSE IF n.op = "product" /\ \E k \in 1..2 :
            nodes[n.inputs[k]].calcGrad /\ 3 - k \notin n.kept THEN "no data"
  ELSE IF \E v \in Range(n.inputs) : TypeClash(nodes, v, InputGradType(n, v))
  THEN "type"
  ELSE "none"

\* calcGradInputs, before the inputs are cleared.
Propagated(n) == IF n.op = "none" THEN nodes ELSE gradFunc(nodes, n)

Visit ==
  /\ error = "none" /\ dag # <<>>
  /\ LET v == dag[Len(dag)]
         n == nodes[v]
     IN  /\ nodes' = IF GradFuncError(n) # "none" THEN nodes
                     ELSE IF pass.retain THEN Propagated(n)
                     ELSE [Propagated(n) EXCEPT ![v].inputs = <<>>]
         /\ error' = IF GradFuncError(n) # "none" THEN GradFuncError(n)
                     ELSE IF n.hook /\ n.grad = 0 THEN "hook without gradient"
                     ELSE "none"
         /\ hooked' = IF error' = "none" /\ n.hook
                      THEN [hooked EXCEPT ![v] = Append(@, n.grad)] ELSE hooked
         /\ dag' = IF error' = "none" THEN SubSeq(dag, 1, Len(dag) - 1) ELSE dag
  /\ IF dag' = <<>> THEN pass' = NoPass /\ before' = <<>>
     ELSE UNCHANGED <<pass, before>>
  /\ UNCHANGED calls

Next ==
  \/ Leaf \/ Sum \/ Product \/ Index \/ As
  \/ zeroGrad \/ setCalcGrad \/ GradHook
  \/ backward \/ Visit

Spec == Init /\ [][Next]_vars

------------------------------------------------------------------------------
(* Properties *)

\* Only variables that need a gradient have one, and only they have a function
\* to pass it on (Variable's constructors, setCalcGrad, addGrad); inputs were
\* made before what is made from them, so there are no cycles.
TypeOK ==
  /\ \A v \in Vars :
       /\ nodes[v].calcGrad \in BOOLEAN /\ nodes[v].type \in Types
       /\ nodes[v].op \in {"none", "sum", "product", "index", "as"}
       /\ nodes[v].op # "none" \/ nodes[v].grad # 0 => nodes[v].calcGrad
       /\ nodes[v].inputs # <<>> => nodes[v].op # "none"
       /\ Range(nodes[v].inputs) \subseteq 1..(v - 1)
       /\ nodes[v].grad \in Nat
  /\ Range(dag) \subseteq Vars

\* The derivative of the root by u: the number of paths between them.
Derivative(u) ==
  LET inputsOf(c) == before[c].inputs
      times(c, w) == Cardinality({k \in DOMAIN inputsOf(c) : inputsOf(c)[k] = w})
      paths[w \in 1..pass.root] ==
        IF w = pass.root THEN 1
        ELSE SumFunction([c \in (w + 1)..pass.root |-> times(c, w) * paths[c]])
  IN  IF u > pass.root THEN 0 ELSE paths[u]

PassEnds == dag # <<>> /\ dag' = <<>>

\* A backward pass over a graph whose operations have no gradients from an
\* earlier one adds to every variable that needs it the derivative of the root,
\* along all paths, and changes no other gradient (backward, build,
\* calcGradInputs, addGrad).
GradientsAreDerivatives ==
  [][(PassEnds /\ \A v \in DOMAIN before :
        before[v].op # "none" => before[v].grad = 0)
     => \A u \in Vars :
          nodes'[u].grad =
            before[u].grad + (IF before[u].calcGrad THEN Derivative(u) ELSE 0)]_vars

\* The hook of a variable (the reducer's add, which starts to reduce the gradient
\* over all processes) is called once in a pass that reaches the variable, and
\* when it is, the gradient is complete: no later visit of the pass changes it.
HookSeesFinalGradient ==
  [][dag # <<>> =>
       /\ \A u \in Vars : hooked[u] # <<>> =>
            nodes'[u].grad = nodes[u].grad /\ hooked'[u] = hooked[u]
       /\ PassEnds => \A u \in Vars :
            before[u].hook /\ Derivative(u) > 0 => Len(hooked'[u]) = 1]_vars

\* The exceptions of addGrad (types) and calcGradInputs (gradient not propagated)
\* are never thrown.  A hook runs without a gradient only on a variable that is
\* switched off; operator() finds gradients disabled, and operator* misses the
\* array of a factor, only after setCalcGrad; and a function misses its inputs
\* only after another pass has cleared them.
FailsOnlyOnMisuse ==
  error # "none" =>
    \/ error = "hook without gradient" /\ ~nodes[dag[Len(dag)]].calcGrad
    \/ error \in {"grad disabled", "no data"} /\ calls["switch"] > 0
    \/ error = "no inputs" /\ calls["backward"] > 1
==============================================================================
