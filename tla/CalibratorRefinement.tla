------------------------- MODULE CalibratorRefinement -------------------------
(***************************************************************************)
(* Proof that the calibrator (Calibrator.tla) implements Nearest2PAtomic   *)
(* under the mapping AbsPc, AbsP: the row-by-row search, copy and          *)
(* symmetrisation compute in several steps what nearest2P promises in one. *)
(*                                                                         *)
(* The argument.  While rows are searched and copied, P is the matrix the *)
(* copies of rows 0 .. i-1 leave (Copied(nearest, i)); every step of the   *)
(* search and every successful copy is an abstract stutter; the copy that *)
(* throws, the throw of an empty table and the symmetrisation are the one  *)
(* abstract step.  Whether that step throws is ThrowCtl of                 *)
(* CalibratorProofs; which matrix it returns is CopyInv below.             *)
(***************************************************************************)
EXTENDS CalibratorProofs

(* Every cell some row among 0 .. m-1 writes has a last such row.          *)
LastExists(T, m) ==
  \A c \in Atomic!CellsOf(T) :
    (\E r \in 0 .. (m - 1) : Atomic!Writes(T, r, c)) =>
      \E r \in 0 .. (m - 1) :
        Atomic!Writes(T, r, c) /\ \A s \in (r + 1) .. (m - 1) : ~Atomic!Writes(T, s, c)

(* P holds the copies of the rows done so far.                             *)
CopyInv ==
  /\ pc \in {"search", "copy"} =>
       P = Atomic!Copied(nearest, i) /\ LastExists(nearest, i)
  /\ pc = "sym" => P = Atomic!Copied(nearest, N)

RInv == IInv /\ ThrowCtl /\ CopyInv
-----------------------------------------------------------------------------
(* The last writer of a cell is the row that writes it with no later row  *)
(* writing it again.                                                       *)
LEMMA LastWriterIs ==
  ASSUME NEW T, NEW m \in Nat, NEW c, NEW r0 \in 0 .. (m - 1),
         Atomic!Writes(T, r0, c),
         \A s \in (r0 + 1) .. (m - 1) : ~Atomic!Writes(T, s, c)
  PROVE  Atomic!LastWriter(T, m, c) = r0
<1> DEFINE Q(r) == Atomic!Writes(T, r, c) /\ \A s \in (r + 1) .. (m - 1) : ~Atomic!Writes(T, s, c)
<1>1. \E r \in 0 .. (m - 1) : Q(r)
  BY Zenon
<1>2. Atomic!LastWriter(T, m, c) \in 0 .. (m - 1) /\ Q(Atomic!LastWriter(T, m, c))
  BY <1>1, Zenon DEF Atomic!LastWriter
<1>3. ASSUME NEW r1 \in 0 .. (m - 1), Q(r1) PROVE r1 = r0
  <2>1. ~(r1 < r0)
    <3>1. r1 < r0 => r0 \in (r1 + 1) .. (m - 1)
      BY SMT
    <3>2. QED
      BY <1>3, <3>1
  <2>2. ~(r0 < r1)
    <3>1. r0 < r1 => r1 \in (r0 + 1) .. (m - 1)
      BY SMT
    <3>2. QED
      BY <1>3, <3>1
  <2>3. QED
    BY <2>1, <2>2, SMT
<1>4. QED
  BY <1>2, <1>3

(* Before any row is copied P is all zeros.                                *)
LEMMA CopiedZero ==
  ASSUME NEW T
  PROVE  /\ Atomic!Copied(T, 0) = [c \in Atomic!CellsOf(T) |-> 0]
         /\ LastExists(T, 0)
BY DEF Atomic!Copied, LastExists

(* Copying row m writes its slot value on the cells it addresses and      *)
(* leaves the others as rows 0 .. m-1 left them.                           *)
LEMMA CopiedStep ==
  ASSUME NEW T, NEW m \in Nat, LastExists(T, m)
  PROVE  /\ LastExists(T, m + 1)
         /\ \A c \in Atomic!CellsOf(T) :
              Atomic!Copied(T, m + 1)[c] =
                IF Atomic!Writes(T, m, c) THEN Atomic!SlotOf(T, Len(T[m + 1]))
                ELSE Atomic!Copied(T, m)[c]
<1> DEFINE W(r, c) == Atomic!Writes(T, r, c)
<1>0. (m + 1) - 1 = m /\ (m + 1) .. m = {} /\ 0 .. m = (0 .. (m - 1)) \cup {m}
  BY SMT
(* A cell that row m does not write keeps the last writer it had.         *)
<1>1. ASSUME NEW c \in Atomic!CellsOf(T), ~W(m, c), \E r \in 0 .. (m - 1) : W(r, c)
      PROVE  \E r0 \in 0 .. (m - 1) :
               /\ W(r0, c) /\ \A s \in (r0 + 1) .. (m - 1) : ~W(s, c)
               /\ Atomic!LastWriter(T, m, c) = r0
               /\ Atomic!LastWriter(T, m + 1, c) = r0
  <2>1. PICK r0 \in 0 .. (m - 1) : W(r0, c) /\ \A s \in (r0 + 1) .. (m - 1) : ~W(s, c)
    BY <1>1 DEF LastExists
  <2>2. \A s \in (r0 + 1) .. m : ~W(s, c)
    <3>1. (r0 + 1) .. m = ((r0 + 1) .. (m - 1)) \cup {m}
      BY SMT
    <3>2. QED
      BY <1>1, <2>1, <3>1
  <2>3. r0 \in 0 .. ((m + 1) - 1) /\ (r0 + 1) .. ((m + 1) - 1) = (r0 + 1) .. m
    BY SMT
  <2>4. Atomic!LastWriter(T, m, c) = r0
    BY <2>1, LastWriterIs
  <2>5. Atomic!LastWriter(T, m + 1, c) = r0
    <3>1. m + 1 \in Nat
      OBVIOUS
    <3>2. \A s \in (r0 + 1) .. ((m + 1) - 1) : ~W(s, c)
      BY <2>2, <2>3
    <3>3. QED
      BY <2>1, <2>3, <3>1, <3>2, LastWriterIs
  <2>6. QED
    BY <2>1, <2>4, <2>5
<1>2. LastExists(T, m + 1)
  <2> SUFFICES ASSUME NEW c \in Atomic!CellsOf(T),
                      \E r \in 0 .. ((m + 1) - 1) : W(r, c)
               PROVE  \E r \in 0 .. ((m + 1) - 1) :
                        W(r, c) /\ \A s \in (r + 1) .. ((m + 1) - 1) : ~W(s, c)
    BY DEF LastExists
  <2>1. CASE W(m, c)
    <3>1. m \in 0 .. ((m + 1) - 1) /\ (m + 1) .. ((m + 1) - 1) = {}
      BY SMT
    <3>2. QED
      BY <2>1, <3>1
  <2>2. CASE ~W(m, c)
    <3>1. \E r \in 0 .. (m - 1) : W(r, c)
      BY <2>2, <1>0
    <3>2. PICK r0 \in 0 .. (m - 1) : W(r0, c) /\ \A s \in (r0 + 1) .. (m - 1) : ~W(s, c)
      BY <2>2, <3>1, <1>1
    <3>3. r0 \in 0 .. ((m + 1) - 1) /\ (r0 + 1) .. ((m + 1) - 1) = ((r0 + 1) .. (m - 1)) \cup {m}
      BY SMT
    <3>4. QED
      BY <2>2, <3>2, <3>3
  <2>3. QED
    BY <2>1, <2>2
<1>3. ASSUME NEW c \in Atomic!CellsOf(T)
      PROVE  Atomic!Copied(T, m + 1)[c] =
               IF W(m, c) THEN Atomic!SlotOf(T, Len(T[m + 1]))
               ELSE Atomic!Copied(T, m)[c]
  <2>1. CASE W(m, c)
    <3>1. Atomic!LastWriter(T, m + 1, c) = m
      <4>1. m \in 0 .. ((m + 1) - 1) /\ \A s \in (m + 1) .. ((m + 1) - 1) : ~W(s, c)
        BY <1>0
      <4>2. QED
        BY <2>1, <4>1, LastWriterIs
    <3>2. \E r \in 0 .. ((m + 1) - 1) : W(r, c)
      BY <2>1, <1>0
    <3>3. QED
      BY <2>1, <3>1, <3>2 DEF Atomic!Copied
  <2>2. CASE ~W(m, c) /\ \E r \in 0 .. (m - 1) : W(r, c)
    <3>1. PICK r0 \in 0 .. (m - 1) :
            /\ W(r0, c) /\ \A s \in (r0 + 1) .. (m - 1) : ~W(s, c)
            /\ Atomic!LastWriter(T, m, c) = r0
            /\ Atomic!LastWriter(T, m + 1, c) = r0
      BY <2>2, <1>1
    <3>2. \E r \in 0 .. ((m + 1) - 1) : W(r, c)
      BY <2>2, <1>0
    <3>3. QED
      BY <2>2, <3>1, <3>2 DEF Atomic!Copied
  <2>3. CASE ~W(m, c) /\ ~\E r \in 0 .. (m - 1) : W(r, c)
    <3>1. ~\E r \in 0 .. ((m + 1) - 1) : W(r, c)
      BY <2>3, <1>0
    <3>2. QED
      BY <2>3, <3>1 DEF Atomic!Copied
  <2>4. QED
    BY <2>1, <2>2, <2>3
<1>4. QED
  BY <1>2, <1>3
-----------------------------------------------------------------------------
(* Calibrator's Cells are the abstract cells of the current table.         *)
LEMMA CellsSame == Cells = Atomic!CellsOf(nearest)
BY DEF Cells, Atomic!CellsOf, N

(* A successful copy of row i leaves the copies of rows 0 .. i.            *)
LEMMA CopyOk ==
  ASSUME IInv, CopyInv, Copy, ~(Len(Row(i)) < pRowLen)
  PROVE  /\ P' = Atomic!Copied(nearest, i + 1)
         /\ LastExists(nearest, i + 1)
<1>1. pc = "copy" /\ i \in Nat /\ P = Atomic!Copied(nearest, i) /\ LastExists(nearest, i)
  BY DEF Copy, IInv, TypeOK, CopyInv
<1>2. P' = [c \in Cells |-> IF Atomic!Writes(nearest, i, c)
                             THEN SlotValue(Len(Row(i))) ELSE P[c]]
  BY DEF Copy, Atomic!Writes, Row, N
<1>3. \A c \in Atomic!CellsOf(nearest) :
        Atomic!Copied(nearest, i + 1)[c] =
          IF Atomic!Writes(nearest, i, c)
            THEN Atomic!SlotOf(nearest, Len(nearest[i + 1]))
            ELSE Atomic!Copied(nearest, i)[c]
  BY <1>1, CopiedStep
<1>4. SlotValue(Len(Row(i))) = Atomic!SlotOf(nearest, Len(nearest[i + 1]))
  BY DEF SlotValue, Unit, N, Row, Atomic!SlotOf
<1>5. Atomic!Copied(nearest, i + 1) = [c \in Atomic!CellsOf(nearest) |->
                                         Atomic!Copied(nearest, i + 1)[c]]
  BY DEF Atomic!Copied
<1>6. QED
  BY <1>1, <1>2, <1>3, <1>4, <1>5, <1>1, CopiedStep, CellsSame

LEMMA NextCopyInv == RInv /\ [Next]_vars => CopyInv'
<1> SUFFICES ASSUME RInv, [Next]_vars PROVE CopyInv'
  OBVIOUS
<1>0. IInv /\ CopyInv /\ N \in Nat
  BY NNat DEF RInv, IInv
<1>1. CASE Start
  <2>1. CASE N = 0
    BY <1>1, <2>1 DEF Start, CopyInv
  <2>2. CASE N # 0
    <3>1. pc' = "search" /\ i' = 0 /\ nearest' = nearest /\ P' = [c \in Cells |-> 0]
      BY <1>1, <2>2 DEF Start
    <3>2. P' = Atomic!Copied(nearest, 0) /\ LastExists(nearest, 0)
      BY <3>1, CopiedZero, CellsSame
    <3>3. QED
      BY <3>1, <3>2 DEF CopyInv
  <2>3. QED
    BY <2>1, <2>2
<1>2. CASE Trial
  BY <1>0, <1>2 DEF Trial, CopyInv, N
<1>3. CASE Copy
  <2>1. CASE Len(Row(i)) < pRowLen
    BY <1>3, <2>1 DEF Copy, CopyInv
  <2>2. CASE ~(Len(Row(i)) < pRowLen)
    <3>1. P' = Atomic!Copied(nearest, i + 1) /\ LastExists(nearest, i + 1)
      BY <1>0, <1>3, <2>2, CopyOk
    <3>2. nearest' = nearest /\ i' = i + 1 /\ pc = "copy" /\ i \in 0 .. (N - 1)
      BY <1>0, <1>3, <2>2 DEF Copy, IInv, Control
    <3>3. CASE i + 1 < N
      BY <1>3, <2>2, <3>1, <3>2, <3>3 DEF Copy, CopyInv
    <3>4. CASE ~(i + 1 < N)
      <4>1. pc' = "sym" /\ i + 1 = N /\ N' = N
        BY <1>0, <1>3, <2>2, <3>2, <3>4 DEF Copy, N
      <4>2. QED
        BY <3>1, <3>2, <4>1 DEF CopyInv
    <3>5. QED
      BY <3>3, <3>4
  <2>3. QED
    BY <2>1, <2>2
<1>4. CASE Symmetrize
  BY <1>4 DEF Symmetrize, CopyInv
<1>5. CASE Finished \/ UNCHANGED vars
  BY <1>0, <1>5 DEF Finished, vars, CopyInv, N
<1>6. QED
  BY <1>1, <1>2, <1>3, <1>4, <1>5 DEF Next

(* The abstract step, for a table that throws and for one that does not.   *)
LEMMA AbsCallThrows ==
  ASSUME pc \notin {"done", "error"}, pc' = "error", nearest' = nearest,
         Nearest2PThrows(nearest)
  PROVE  Atomic!Call
BY DEF Atomic!Call, AbsPc, AbsP, Atomic!Nearest2PThrows, Nearest2PThrows

LEMMA AbsCallReturns ==
  ASSUME pc \notin {"done", "error"}, pc' = "done", nearest' = nearest,
         ~Nearest2PThrows(nearest),
         P' = Atomic!Symmetrized(nearest, Atomic!Copied(nearest, Len(nearest)))
  PROVE  Atomic!Call
BY DEF Atomic!Call, AbsPc, AbsP, Atomic!Nearest2PThrows, Nearest2PThrows

(* A step that stays before the return is an abstract stutter.             *)
LEMMA AbsStutter ==
  ASSUME pc \notin {"done", "error"}, pc' \notin {"done", "error"}, nearest' = nearest
  PROVE  UNCHANGED <<nearest, AbsPc, AbsP>>
BY DEF AbsPc, AbsP

LEMMA StepRefines ==
  RInv /\ RInv' /\ [Next]_vars => [Atomic!Call]_<<nearest, AbsPc, AbsP>>
<1> SUFFICES ASSUME RInv, RInv', [Next]_vars
             PROVE  [Atomic!Call]_<<nearest, AbsPc, AbsP>>
  OBVIOUS
<1>1. CASE Start
  <2>1. CASE N = 0
    <3>1. pc = "start" /\ pc' = "error" /\ nearest' = nearest
      BY <1>1, <2>1 DEF Start
    <3>2. Nearest2PThrows(nearest)
      BY <2>1 DEF Nearest2PThrows, N
    <3>3. QED
      BY <3>1, <3>2, AbsCallThrows
  <2>2. CASE N # 0
    BY <1>1, <2>2, AbsStutter DEF Start
  <2>3. QED
    BY <2>1, <2>2
<1>2. CASE Trial
  BY <1>2, AbsStutter DEF Trial
<1>3. CASE Copy
  <2>1. CASE Len(Row(i)) < pRowLen
    <3>1. pc = "copy" /\ pc' = "error" /\ nearest' = nearest
      BY <1>3, <2>1 DEF Copy
    <3>2. Nearest2PThrows(nearest)
      BY <3>1 DEF RInv, ThrowCtl
    <3>3. QED
      BY <3>1, <3>2, AbsCallThrows
  <2>2. CASE ~(Len(Row(i)) < pRowLen)
    BY <1>3, <2>2, AbsStutter DEF Copy
  <2>3. QED
    BY <2>1, <2>2
<1>4. CASE Symmetrize
  <2>1. pc = "sym" /\ pc' = "done" /\ nearest' = nearest
    BY <1>4 DEF Symmetrize
  <2>2. ~Nearest2PThrows(nearest)
    BY <2>1, SortedNoThrow DEF RInv
  <2>3. P = Atomic!Copied(nearest, Len(nearest))
    BY <2>1 DEF RInv, CopyInv, N
  <2>4. P' = Atomic!Symmetrized(nearest, P)
    BY <1>4 DEF Symmetrize, Atomic!Symmetrized, Atomic!CellsOf, Cells, N
  <2>5. QED
    BY <2>1, <2>2, <2>3, <2>4, AbsCallReturns
<1>5. CASE Finished \/ UNCHANGED vars
  BY <1>5 DEF Finished, vars, AbsPc, AbsP
<1>6. QED
  BY <1>1, <1>2, <1>3, <1>4, <1>5 DEF Next

(* nearest2P's search, copy and symmetrisation implement its one-step      *)
(* specification (ImplementsNearest2P): for every table and every          *)
(* maxTries it throws exactly for the tables Nearest2PThrows names and     *)
(* otherwise returns the symmetrisation of the copied rows, a later row    *)
(* overwriting an earlier one at a shared address.                         *)
THEOREM Refinement == Spec => ImplementsNearest2P
<1>1. Init => Atomic!Init
  BY DEF Init, Atomic!Init, AbsPc, AbsP
<1>2. Init => RInv
  BY InitIInv DEF Init, RInv, ThrowCtl, CopyInv
<1>3. RInv /\ [Next]_vars => RInv'
  BY NextIInv, NextThrow, NextCopyInv DEF RInv
<1>4. QED
  BY <1>1, <1>2, <1>3, StepRefines, PTL
  DEF Spec, ImplementsNearest2P, Atomic!Spec
=============================================================================
