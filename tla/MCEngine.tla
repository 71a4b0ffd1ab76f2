----------------------------- MODULE MCEngine -----------------------------
(***************************************************************************)
(* Model-checking instance of Engine: two valid tables of different sizes, *)
(* a ragged table that nearest2P rejects but whose first rows are usable,  *)
(* the empty table, and a table with an index out of range that nearest2P *)
(* accepts.  ExagIters = 2 stands for the 100 of line 366.                 *)
(***************************************************************************)
EXTENDS Engine

MCTables ==
  { << <<1>>, <<0>> >>,              \* valid, N = 2
    << <<1>>, <<2>>, <<0>> >>,       \* valid, N = 3
    << <<1, 0>>, <<0>> >>,           \* ragged: rejected, rows usable for N = 2
    << >>,                           \* empty: rejected
    << <<2>>, <<0>> >> }             \* index 2 = N: accepted, unusable
=============================================================================
