--------------------------- MODULE MCCalibrator ---------------------------
(***************************************************************************)
(* Model-checking instance of Calibrator: every valid kNN table with 2 or  *)
(* 3 points and K = 1 or 2, plus hand-picked invalid tables (empty,        *)
(* ragged both ways, an index out of range on either side, a duplicate,    *)
(* a self-neighbour), and four entropy windows per row.                    *)
(***************************************************************************)
EXTENDS Calibrator

(* Rows of k distinct neighbours of point r among n points.                *)
ValidRows(n, r, k) ==
  { s \in [1 .. k -> (0 .. (n - 1)) \ {r}] : IsInjective(s) }

ValidTables(n, k) ==
  { T \in [1 .. n -> UNION { ValidRows(n, r, k) : r \in 0 .. (n - 1) }] :
      \A r \in 1 .. n : T[r] \in ValidRows(n, r - 1, k) }

InvalidTables ==
  { <<>>,                                  \* no points: nearest[0] undefined
    << <<1, 2>>, <<0>>, <<0, 1>> >>,       \* ragged, a shorter row later
    << <<1>>, <<0, 2>>, <<0, 1>> >>,       \* ragged, the longer rows later
    << <<3>>, <<2>>, <<0>> >>,             \* index N: lands in the next row
    << <<1>>, <<-1>> >>,                   \* index -1: lands in the row above
    << <<1, 1>>, <<0, 0>> >>,              \* a neighbour named twice
    << <<0>>, <<1>> >> }                   \* every point its own neighbour

MCTables ==
  ValidTables(2, 1) \cup ValidTables(3, 1) \cup ValidTables(3, 2) \cup InvalidTables

(* MaxTries = 5 gives Scale = 32, i.e. beta = 1 is 32.                     *)
MCWindows ==
  { [lo |-> 5, hi |-> 7],       \* reached by halving, then bisection
    [lo |-> 100, hi |-> 110],   \* overshot by doubling; tries run out
    [lo |-> 0, hi |-> -1],      \* perplexity above K: always too peaked
    [lo |-> 32, hi |-> 32] }    \* the first trial is already close
=============================================================================
