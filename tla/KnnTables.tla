----------------------------- MODULE KnnTables -----------------------------
(***************************************************************************)
(* The kNN table that initDataDist receives ({index, dist}[][] in the      *)
(* code), with the distances abstracted away: a sequence of rows, each a   *)
(* sequence of neighbour indices.  Row i of the code (0-based) is T[i+1].  *)
(***************************************************************************)
EXTENDS Integers, Sequences

(* The spec's contract on a table (sections 3 and 7): non-empty, every row *)
(* with the same K >= 1 entries, every index in [0, N) and not the row     *)
(* itself, no neighbour named twice.                                       *)
ValidTable(T) ==
  /\ Len(T) > 0
  /\ \A r \in 1 .. Len(T) :
       /\ Len(T[r]) = Len(T[1]) /\ Len(T[r]) > 0
       /\ \A k \in 1 .. Len(T[r]) : T[r][k] \in (0 .. (Len(T) - 1)) \ {r - 1}
       /\ \A k, m \in 1 .. Len(T[r]) : k # m => T[r][k] # T[r][m]

(* nearest2P throws exactly when nearest[0] does not exist (line 147) or   *)
(* some row is shorter than an earlier one: pRow then has a slot the row   *)
(* has no neighbors[k] for, and the copy of line 210 reads .index of       *)
(* undefined.                                                              *)
Nearest2PThrows(T) ==
  \/ Len(T) = 0
  \/ \E q, r \in 1 .. Len(T) : q < r /\ Len(T[q]) > Len(T[r])

(* Every index of the first n rows names one of n points.                  *)
IndicesBelow(T, n) ==
  /\ n <= Len(T)
  /\ \A r \in 1 .. n : \A k \in 1 .. Len(T[r]) : T[r][k] \in 0 .. (n - 1)
=============================================================================
