-------------------------- MODULE Nearest2PAtomic --------------------------
(***************************************************************************)
(* What nearest2P (src/unnamed/part_000 lines 141-227) computes, as one    *)
(* step: it throws for the tables Nearest2PThrows names, and otherwise     *)
(* returns the symmetrisation of the matrix the copy loops leave.  Row i   *)
(* writes its slot values at i*N + j for its neighbour indices j; a later  *)
(* row overwrites an earlier one at the same address, and an address       *)
(* outside [0, N*N) is not written (a Float64Array drops it).  The row     *)
(* values are those of Calibrator.tla: uniform, in units of 1/(24N).       *)
(***************************************************************************)
EXTENDS Integers, Sequences, KnnTables

CONSTANT Tables      \* the kNN tables initDataDist may be given

VARIABLES
  nearest,   \* the kNN table
  pc,        \* "start" before the call, "done" or "error" after it
  P          \* the returned matrix (<<>> before a return)

(* The cells of the flat Len(T)*Len(T) array, and the slot value of a row  *)
(* of L neighbours (Calibrator.tla's Cells and SlotValue, for table T).    *)
CellsOf(T) == 0 .. (Len(T) * Len(T) - 1)
SlotOf(T, L) == IF L = 0 THEN 0 ELSE (24 * Len(T)) \div L

(* P[r*N + neighbors[k].index] = pRow[k] of row r lands on cell c.         *)
Writes(T, r, c) == \E k \in 1 .. Len(T[r + 1]) : r * Len(T) + T[r + 1][k] = c

(* The last of rows 0 .. m-1 to write cell c.                              *)
LastWriter(T, m, c) ==
  CHOOSE r \in 0 .. (m - 1) :
    Writes(T, r, c) /\ \A s \in (r + 1) .. (m - 1) : ~Writes(T, s, c)

(* P after the copy loops of rows 0 .. m-1 (lines 206-212), from zeros.    *)
Copied(T, m) ==
  [c \in CellsOf(T) |->
     IF \E r \in 0 .. (m - 1) : Writes(T, r, c)
       THEN SlotOf(T, Len(T[LastWriter(T, m, c) + 1])) ELSE 0]

(* The symmetrisation of lines 214-226: P[i_j] and P[j_i] both become      *)
(* (P[i_j] + P[j_i]) / 2N off the diagonal.                                *)
Symmetrized(T, Q) ==
  [c \in CellsOf(T) |->
     LET n == Len(T)
         a == c \div n
         b == c % n
     IN  IF a = b THEN Q[c] ELSE (Q[a * n + b] + Q[b * n + a]) \div (2 * n)]

Init ==
  /\ nearest \in Tables
  /\ pc = "start"
  /\ P = <<>>

Call ==
  /\ pc = "start"
  /\ IF Nearest2PThrows(nearest)
       THEN pc' = "error" /\ UNCHANGED P
       ELSE pc' = "done" /\ P' = Symmetrized(nearest, Copied(nearest, Len(nearest)))
  /\ UNCHANGED nearest

Spec == Init /\ [][Call]_<<nearest, pc, P>>
=============================================================================
