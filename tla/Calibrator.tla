----------------------------- MODULE Calibrator -----------------------------
(***************************************************************************)
(* nearest2P (src/unnamed/part_000 lines 141-227): turns the kNN table     *)
(* into the joint probability matrix P.  For every row i a binary search   *)
(* over the Gaussian precision beta drives the row entropy to              *)
(* log(perplexity); the row is then copied into the flat N*N array P at    *)
(* index i*N + j, and finally P is symmetrised by (P[ij] + P[ji]) / 2N.     *)
(*                                                                         *)
(* Data abstraction.                                                       *)
(*  - beta.  Starting at 1 it is only ever doubled, halved or averaged     *)
(*    with a bound, so after t trials it is a multiple of 2^-t.  With at   *)
(*    most MaxTries trials per row, Scale * beta is an exact integer:      *)
(*    beta, betaMin and betaMax are kept in units of 1/Scale.              *)
(*  - Entropy.  For the Gaussian kernel the row entropy falls as beta      *)
(*    grows.  The test Hhere > Htarget and the tolerance test are decided  *)
(*    by the window win[i] = [lo, hi] of the beta values whose entropy is  *)
(*    within tol of the target: below lo the row is too diffuse, above hi  *)
(*    too peaked, inside it close enough (and on either side of Htarget).  *)
(*    An empty window (hi = lo - 1) is a target no beta reaches.           *)
(*  - Values.  A normalised row is a distribution over its slots; every    *)
(*    row is taken uniform (the equal-distance case), which keeps all of   *)
(*    P exact as integers in units of 1/Unit.                              *)
(*  - Indices.  Written as in the code: i*N + j into an array of length    *)
(*    N*N; a Float64Array ignores writes outside [0, N*N).                 *)
(* Rows are 0-based as in the code: row i is nearest[i+1].                 *)
(***************************************************************************)
EXTENDS Integers, Sequences, Functions, KnnTables

CONSTANTS
  MaxTries,   \* maxTries, the bound on trials per row (50 in the code)
  Scale,      \* the integer standing for beta = 1: 2^MaxTries
  Tables,     \* the kNN tables initDataDist may be given
  Windows,    \* the windows [lo, hi] a row may have, in units of 1/Scale
  NegInf,     \* -Infinity, the initial betaMin
  PosInf      \* Infinity, the initial betaMax

ASSUME MaxTriesAssumption == MaxTries \in Nat \ {0}
ASSUME ScaleAssumption == Scale \in Nat \ {0} /\ Scale = 2 ^ MaxTries

(* Halvings[t] = Scale / 2^t: the unit of beta after t trials.  The        *)
(* assumption below restates Scale = 2^MaxTries as the halving table, a    *)
(* form the provers can use (they know no facts about ^).                  *)
Halvings == [t \in 0 .. MaxTries |-> Scale \div (2 ^ t)]
ASSUME HalvingsAssumption ==
  /\ Halvings \in [0 .. MaxTries -> Nat \ {0}]
  /\ Halvings[0] = Scale
  /\ \A t \in 0 .. (MaxTries - 1) : Halvings[t] = 2 * Halvings[t + 1]
ASSUME WindowsAssumption ==
  /\ Windows # {}
  /\ Windows \subseteq [lo : Nat, hi : Int]
  /\ \A w \in Windows : w.lo <= w.hi + 1
ASSUME InfinityAssumption == NegInf \notin Int /\ PosInf \notin Int /\ NegInf # PosInf
ASSUME TablesAssumption ==
  /\ Tables # {}
  /\ Tables \subseteq Seq(Seq(Int))
  /\ \A T \in Tables : \A r \in 1 .. Len(T) : Len(T[r]) <= 4


VARIABLES
  nearest,   \* the kNN table, a sequence of rows of neighbour indices
  win,       \* win[i]: the beta window of row i (stands for its distances)
  pc,        \* "start", "search", "copy", "sym", "done" or "error"
  i,         \* the row being calibrated
  beta, betaMin, betaMax, numTries,
  pRowLen,   \* pRow.length: pRow is made with K slots and grows
  P          \* the flat N*N probability matrix

vars == <<nearest, win, pc, i, beta, betaMin, betaMax, numTries, pRowLen, P>>

N == Len(nearest)
Row(r) == nearest[r + 1]
Cells == 0 .. (N * N - 1)

(* Probabilities are integers in units of 1/Unit: Unit / L is exact for a  *)
(* row of L <= 4 slots, and so is the division by 2N of symmetrisation.    *)
Unit == 24 * N
SlotValue(L) == IF L = 0 THEN 0 ELSE Unit \div L

MaxOf(a, b) == IF a >= b THEN a ELSE b

(* Trial outcomes: Hhere against Htarget, and |Hhere - Htarget| < tol.     *)
TooDiffuse(r, b) == b < win[r].lo
TooPeaked(r, b) == b > win[r].hi
Close(r, b) == ~TooDiffuse(r, b) /\ ~TooPeaked(r, b)

(* The state of a row before its first trial (lines 151-159).              *)
ResetRow ==
  /\ betaMin' = NegInf
  /\ betaMax' = PosInf
  /\ beta' = Scale
  /\ numTries' = 0
-----------------------------------------------------------------------------
Init ==
  /\ nearest \in Tables
  /\ win \in [0 .. (Len(nearest) - 1) -> Windows]
  /\ pc = "start"
  /\ i = 0
  /\ beta = Scale /\ betaMin = NegInf /\ betaMax = PosInf /\ numTries = 0
  /\ pRowLen = 0
  /\ P = <<>>

(* Lines 144-148: K = nearest[0].length throws when the table is empty.    *)
Start ==
  /\ pc = "start"
  /\ IF N = 0
       THEN /\ pc' = "error"
            /\ UNCHANGED <<i, beta, betaMin, betaMax, numTries, pRowLen, P>>
       ELSE /\ pc' = "search"
            /\ pRowLen' = Len(Row(0))
            /\ P' = [c \in Cells |-> 0]
            /\ i' = 0
            /\ ResetRow
  /\ UNCHANGED <<nearest, win>>

(* Raise the precision: the distribution is too diffuse (lines 184-189).   *)
RaiseBeta ==
  /\ betaMin' = beta
  /\ betaMax' = betaMax
  /\ beta' = IF betaMax = PosInf THEN beta * 2 ELSE (beta + betaMax) \div 2

(* Mutant of LowerBeta: always halves, as if the bisection branch of line  *)
(* 197 were missing.                                                        *)
LowerBetaAlwaysHalve ==
  /\ betaMax' = beta
  /\ betaMin' = betaMin
  /\ beta' = beta \div 2

(* Lower the precision: the distribution is too peaked (lines 193-198).    *)
LowerBeta ==
  /\ betaMax' = beta
  /\ betaMin' = betaMin
  /\ beta' = IF betaMin = NegInf THEN beta \div 2 ELSE (beta + betaMin) \div 2

(* Mutant of Trial: the stopping test of line 202 written with > instead   *)
(* of >=, allowing one trial too many.                                      *)
TrialOneTooMany ==
  /\ pc = "search"
  /\ pRowLen' = MaxOf(pRowLen, Len(Row(i)))
  /\ \/ TooDiffuse(i, beta) /\ RaiseBeta
     \/ TooPeaked(i, beta) /\ LowerBeta
     \/ Close(i, beta) /\ (RaiseBeta \/ LowerBeta)
  /\ numTries' = numTries + 1
  /\ pc' = IF numTries + 1 > MaxTries \/ Close(i, beta) THEN "copy" ELSE "search"
  /\ UNCHANGED <<nearest, win, i, P>>

(* Mutant of Trial: the entropy test of line 181 reversed (Hhere < Htarget). *)
TrialReversed ==
  /\ pc = "search"
  /\ pRowLen' = MaxOf(pRowLen, Len(Row(i)))
  /\ \/ TooDiffuse(i, beta) /\ LowerBeta
     \/ TooPeaked(i, beta) /\ RaiseBeta
     \/ Close(i, beta) /\ (RaiseBeta \/ LowerBeta)
  /\ numTries' = numTries + 1
  /\ pc' = IF numTries + 1 >= MaxTries \/ Close(i, beta) THEN "copy" ELSE "search"
  /\ UNCHANGED <<nearest, win, i, P>>

(* Mutant of Trial: numTries++ (line 200) forgotten.                       *)
TrialNoCount ==
  /\ pc = "search"
  /\ pRowLen' = MaxOf(pRowLen, Len(Row(i)))
  /\ \/ TooDiffuse(i, beta) /\ RaiseBeta
     \/ TooPeaked(i, beta) /\ LowerBeta
     \/ Close(i, beta) /\ (RaiseBeta \/ LowerBeta)
  /\ numTries' = numTries
  /\ pc' = IF numTries >= MaxTries \/ Close(i, beta) THEN "copy" ELSE "search"
  /\ UNCHANGED <<nearest, win, i, P>>

(* One trial of the search loop (lines 160-205): fill pRow at the current  *)
(* beta (growing pRow to the row's length), compare the entropy with the  *)
(* target, move the bracket, count the trial and stop on convergence or   *)
(* after maxTries trials.                                                  *)
Trial ==
  /\ pc = "search"
  /\ pRowLen' = MaxOf(pRowLen, Len(Row(i)))
  /\ \/ TooDiffuse(i, beta) /\ RaiseBeta
     \/ TooPeaked(i, beta) /\ LowerBeta
     \/ Close(i, beta) /\ (RaiseBeta \/ LowerBeta)
  /\ numTries' = numTries + 1
  /\ pc' = IF numTries + 1 >= MaxTries \/ Close(i, beta) THEN "copy" ELSE "search"
  /\ UNCHANGED <<nearest, win, i, P>>

(* Mutant of Copy: the loop bound of line 208 taken from the row            *)
(* (neighbors.length) instead of pRow.length, so it never throws.           *)
CopyOverRow ==
  /\ pc = "copy"
  /\ P' = [c \in Cells |->
            IF \E k \in 1 .. Len(Row(i)) : i * N + Row(i)[k] = c
              THEN SlotValue(Len(Row(i))) ELSE P[c]]
  /\ i' = i + 1
  /\ IF i + 1 < N
       THEN pc' = "search" /\ ResetRow
       ELSE pc' = "sym" /\ UNCHANGED <<beta, betaMin, betaMax, numTries>>
  /\ UNCHANGED <<nearest, win, pRowLen>>

(* Mutant of Copy: the row stride taken as K (the row length) instead of  *)
(* N in the address of line 211.                                           *)
CopyStrideK ==
  /\ pc = "copy"
  /\ IF Len(Row(i)) < pRowLen
       THEN /\ pc' = "error"
            /\ UNCHANGED <<i, beta, betaMin, betaMax, numTries, P>>
       ELSE /\ P' = [c \in Cells |->
                      IF \E k \in 1 .. Len(Row(i)) : i * Len(Row(0)) + Row(i)[k] = c
                        THEN SlotValue(Len(Row(i))) ELSE P[c]]
            /\ i' = i + 1
            /\ IF i + 1 < N
                 THEN pc' = "search" /\ ResetRow
                 ELSE pc' = "sym" /\ UNCHANGED <<beta, betaMin, betaMax, numTries>>
  /\ UNCHANGED <<nearest, win, pRowLen>>

(* Lines 208-212: copy pRow into P at i*N + j.  The loop runs over         *)
(* pRow.length; a row shorter than pRow has no neighbors[k] to read and    *)
(* the copy throws.  Then the next row starts, or symmetrisation.          *)
Copy ==
  /\ pc = "copy"
  /\ IF Len(Row(i)) < pRowLen
       THEN /\ pc' = "error"
            /\ UNCHANGED <<i, beta, betaMin, betaMax, numTries, P>>
       ELSE /\ P' = [c \in Cells |->
                      IF \E k \in 1 .. Len(Row(i)) : i * N + Row(i)[k] = c
                        THEN SlotValue(Len(Row(i))) ELSE P[c]]
            /\ i' = i + 1
            /\ IF i + 1 < N
                 THEN pc' = "search" /\ ResetRow
                 ELSE pc' = "sym" /\ UNCHANGED <<beta, betaMin, betaMax, numTries>>
  /\ UNCHANGED <<nearest, win, pRowLen>>

(* Mutant of Symmetrize: only P[i_j] is written (line 223 missing).        *)
SymmetrizeUpperOnly ==
  /\ pc = "sym"
  /\ P' = [c \in Cells |->
             LET a == c \div N
                 b == c % N
             IN  IF a >= b THEN P[c]
                 ELSE (P[a * N + b] + P[b * N + a]) \div (2 * N)]
  /\ pc' = "done"
  /\ UNCHANGED <<nearest, win, i, beta, betaMin, betaMax, numTries, pRowLen>>

(* Mutant of Symmetrize: N2 = N instead of N * 2 (line 216).                *)
SymmetrizeByN ==
  /\ pc = "sym"
  /\ P' = [c \in Cells |->
             LET a == c \div N
                 b == c % N
             IN  IF a = b THEN P[c]
                 ELSE (P[a * N + b] + P[b * N + a]) \div N]
  /\ pc' = "done"
  /\ UNCHANGED <<nearest, win, i, beta, betaMin, betaMax, numTries, pRowLen>>

(* Lines 216-225: P[ij] and P[ji] both become (P[ij] + P[ji]) / 2N for     *)
(* i < j; the diagonal is left as it is.                                   *)
Symmetrize ==
  /\ pc = "sym"
  /\ P' = [c \in Cells |->
             LET a == c \div N
                 b == c % N
             IN  IF a = b THEN P[c]
                 ELSE (P[a * N + b] + P[b * N + a]) \div (2 * N)]
  /\ pc' = "done"
  /\ UNCHANGED <<nearest, win, i, beta, betaMin, betaMax, numTries, pRowLen>>

(* nearest2P has returned or thrown: nothing more happens.                 *)
Finished ==
  /\ pc \in {"done", "error"}
  /\ UNCHANGED vars

Next == Start \/ Trial \/ Copy \/ Symmetrize \/ Finished

(* nearest2P is one synchronous call: once started it runs to its end.     *)
Spec == Init /\ [][Next]_vars /\ WF_vars(Next)
-----------------------------------------------------------------------------
TypeOK ==
  /\ nearest \in Tables
  /\ win \in [0 .. (N - 1) -> Windows]
  /\ pc \in {"start", "search", "copy", "sym", "done", "error"}
  /\ i \in Nat
  /\ beta \in Nat
  /\ betaMin \in Nat \cup {NegInf}
  /\ betaMax \in Nat \cup {PosInf}
  /\ numTries \in 0 .. MaxTries
  /\ pRowLen \in Nat
  /\ pc \in {"search", "copy", "sym", "done"} => P \in [Cells -> Nat]

(* While a row is searched, the bracket [betaMin, betaMax] never excludes  *)
(* the window of betas whose entropy is within tol of log(perplexity):     *)
(* the up/down branches of lines 181-199 move the bound on the right side. *)
SearchBracketsTarget ==
  pc = "search" =>
    /\ betaMin # NegInf => betaMin < win[i].lo
    /\ betaMax # PosInf => betaMax > win[i].hi

(* The trial beta lies strictly inside the bracket, so each bisection     *)
(* step really narrows it (lines 184-198 under the bound of line 202).     *)
BetaInBracket ==
  pc = "search" =>
    /\ betaMin # NegInf => betaMin < beta
    /\ betaMax # PosInf => beta < betaMax

(* Row a of the table names point b as a neighbour.                       *)
Listed(a, b) == \E k \in 1 .. Len(Row(a)) : Row(a)[k] = b

(* Every index of the table is a point.                                    *)
IndicesInRange == \A a \in 0 .. (N - 1) : \A k \in 1 .. Len(Row(a)) : Row(a)[k] \in 0 .. (N - 1)

(* P is nonzero exactly on the kNN pairs and their transposes (spec,       *)
(* "Probability matrix P"): the copy of line 211 must write row i's        *)
(* values at i*N + j, and lines 222-223 must give both P[ij] and P[ji] the *)
(* mass of either direction, for every table whose indices are points     *)
(* (ragged, duplicated and self-neighbour tables included).               *)
PSupport ==
  (pc = "done" /\ IndicesInRange) =>
    \A a, b \in 0 .. (N - 1) : P[a * N + b] # 0 <=> (Listed(a, b) \/ Listed(b, a))

(* For a valid table the symmetrised P sums to one (spec section 8,        *)
(* property 2): no row's mass is lost to an overwrite or to the diagonal.  *)
PMassOne ==
  (pc = "done" /\ ValidTable(nearest)) => SumFunction(P) = Unit

(* Spec section 7: an index outside [0, N) or a ragged table is an         *)
(* InvalidNeighbors error of initDataDist; nearest2P must never return a   *)
(* matrix for such a table.                                                *)
InvalidNeighborsRejected ==
  pc = "done" =>
    /\ \A r \in 1 .. N : Len(nearest[r]) = Len(nearest[1])
    /\ \A r \in 1 .. N : \A k \in 1 .. Len(nearest[r]) : nearest[r][k] \in 0 .. (N - 1)

(* The loop throws for exactly the tables Nearest2PThrows describes, the   *)
(* condition the engine model (Engine.tla) uses for initDataDist.          *)
ThrowsAsPredicted ==
  /\ pc = "error" => Nearest2PThrows(nearest)
  /\ pc = "done" => ~Nearest2PThrows(nearest)

(* Refinement mapping: until the call returns or throws, the caller sees  *)
(* no matrix; a thrown call returns none.                                  *)
AbsPc == IF pc \in {"done", "error"} THEN pc ELSE "start"
AbsP == IF pc = "done" THEN P ELSE <<>>

Atomic == INSTANCE Nearest2PAtomic WITH pc <- AbsPc, P <- AbsP

(* The row-by-row search, copy and symmetrisation of nearest2P implement   *)
(* the one-step Nearest2PAtomic: it throws for exactly the tables          *)
(* Nearest2PThrows names, and otherwise returns the symmetrised matrix of  *)
(* the copies, a later row overwriting an earlier one at the same address. *)
ImplementsNearest2P == Atomic!Spec

(* nearest2P always returns or throws: the search of every row ends        *)
(* within maxTries trials (line 202).                                      *)
Terminates == <>(pc \in {"done", "error"})
=============================================================================
