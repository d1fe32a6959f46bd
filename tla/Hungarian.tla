----------------------------- MODULE Hungarian -----------------------------
(***************************************************************************)
(* lib/set/Hungarian.cpp: the assignment of every row of a matrix of costs *)
(* to a column of its own, one action per step of the switch of hungarian. *)
(* Step four does one round of its loop at a time.  Costs are integers; a  *)
(* float that is compared with 0 there was made 0 by x - x.                *)
(***************************************************************************)
EXTENDS Integers, FiniteSets, FiniteSetsExt, Functions

VARIABLES step,        \* the step that is next
          original,    \* the costs the caller gave
          costs,       \* [row, column] -> cost, changed in place
          stars, primes,        \* cells with Mark::Star and Mark::Prime
          rowCover, colCover,   \* covered rows and columns
          firstPath    \* firstPathRow, firstPathCol

hungarianVars ==
  <<step, original, costs, stars, primes, rowCover, colCover, firstPath>>

Cells == DOMAIN costs
Rows == {z[1] : z \in Cells}
Cols == {z[2] : z \in Cells}

\* The matrices of m rows and n >= m columns.
Matrices(m, n, values) == [(0..(m - 1)) \X (0..(n - 1)) -> values]

hungarian(matrix) ==
  /\ step = 1 /\ original = matrix /\ costs = matrix
  /\ stars = {} /\ primes = {} /\ rowCover = {} /\ colCover = {}
  /\ firstPath = <<-1, -1>>

\* Subtract from each row its minimum.
stepOne ==
  /\ step = 1 /\ step' = 2
  /\ costs' = [z \in Cells |-> costs[z] - Min({costs[<<z[1], c>>] : c \in Cols})]
  /\ UNCHANGED <<original, stars, primes, rowCover, colCover, firstPath>>

\* The stars of the rows below n: in each row, the first zero in a column that has
\* no star yet.
Starred ==
  LET of[n \in 0..Cardinality(Rows)] ==
        IF n = 0 THEN {}
        ELSE LET taken == {z[2] : z \in of[n - 1]}
                 free == {c \in Cols \ taken : costs[<<n - 1, c>>] = 0}
             IN of[n - 1] \cup IF free = {} THEN {} ELSE {<<n - 1, Min(free)>>}
  IN of[Cardinality(Rows)]

stepTwo ==
  /\ step = 2 /\ step' = 3
  /\ stars' = Starred /\ rowCover' = {} /\ colCover' = {}
  /\ UNCHANGED <<original, costs, primes, firstPath>>

stepThree ==
  /\ step = 3
  /\ colCover' = colCover \cup {z[2] : z \in stars}
  /\ step' = IF Cardinality(colCover') = Cardinality(Cols)
                \/ Cardinality(colCover') >= Cardinality(Rows) THEN 7 ELSE 4
  /\ UNCHANGED <<original, costs, stars, primes, rowCover, firstPath>>

Uncovered == {z \in Cells : z[1] \notin rowCover /\ z[2] \notin colCover}
UncoveredZeros == {z \in Uncovered : costs[z] = 0}

\* The first one, column by column.
findUncoveredZero ==
  CHOOSE z \in UncoveredZeros : \A y \in UncoveredZeros :
    z[2] < y[2] \/ (z[2] = y[2] /\ z[1] <= y[1])

starInRow(r) == {z \in stars : z[1] = r}

\* Prime an uncovered zero.  If its row has a star, cover the row instead of the
\* column of the star; if not, an augmenting path begins there.  A cell has one
\* mark.
stepFour ==
  /\ step = 4
  /\ IF UncoveredZeros = {}
     THEN step' = 6 /\ UNCHANGED <<stars, primes, rowCover, colCover, firstPath>>
     ELSE LET z == findUncoveredZero
              row == starInRow(z[1]) \ {z} IN
          /\ primes' = primes \cup {z} /\ stars' = stars \ {z}
          /\ IF row # {}
             THEN /\ rowCover' = rowCover \cup {z[1]}
                  /\ colCover' = colCover \ {Min({y[2] : y \in row})}
                  /\ UNCHANGED <<step, firstPath>>
             ELSE /\ step' = 5 /\ firstPath' = z
                  /\ UNCHANGED <<rowCover, colCover>>
  /\ UNCHANGED <<original, costs>>

\* From a primed zero to the star in its column, from there to the prime in its
\* row, until a column has no star.
Path(start) ==
  LET from[z \in Cells] ==
        LET inCol == {y[1] : y \in {s \in stars : s[2] = z[2]}}
            star == <<Min(inCol), z[2]>>
            inRow == {y[2] : y \in {p \in primes : p[1] = star[1]}} IN
        {z} \cup IF inCol = {} THEN {}
                 ELSE {star} \cup from[<<star[1], Min(inRow)>>]
  IN from[start]

\* Stars of the path become plain, its other cells stars.
\* Mutant: the stars stay.
AugmentKeepsStars(path) == stars \cup path

augmentPaths(path) == (stars \ path) \cup (path \ stars)

stepFive ==
  /\ step = 5 /\ step' = 3
  /\ stars' = augmentPaths(Path(firstPath))
  /\ primes' = {} /\ rowCover' = {} /\ colCover' = {}
  /\ UNCHANGED <<original, costs, firstPath>>

findSmallestNotCovered == Min({costs[z] : z \in Uncovered})

stepSix ==
  /\ step = 6 /\ step' = 4
  /\ costs' = [z \in Cells |->
       costs[z] + (IF z[1] \in rowCover THEN findSmallestNotCovered ELSE 0)
                - (IF z[2] \notin colCover THEN findSmallestNotCovered ELSE 0)]
  /\ UNCHANGED <<original, stars, primes, rowCover, colCover, firstPath>>

HungarianStep ==
  stepOne \/ stepTwo \/ stepThree \/ stepFour \/ stepFive \/ stepSix

------------------------------------------------------------------------------
(* Properties *)

\* Every row has one star, no two rows in the same column, and no such assignment
\* costs less.
Optimal ==
  /\ \A r \in Rows : Cardinality(starInRow(r)) = 1
  /\ \A y, z \in stars : y # z => y[2] # z[2]
  /\ \A f \in Injection(Rows, Cols) :
       MapThenSumSet(LAMBDA z : original[z], stars)
         <= MapThenSumSet(LAMBDA r : original[<<r, f[r]>>], Rows)

\* A call of hungarian returns: the loop over steps three to six ends, and what
\* stepSeven then reads off the stars is an assignment of least cost.
AssignmentIsOptimal == step = 1 ~> step = 7 /\ Optimal

==============================================================================
