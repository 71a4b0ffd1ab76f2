-------------------------- MODULE CalibratorProofs --------------------------
(***************************************************************************)
(* Proofs about the perplexity calibrator (Calibrator.tla), for every      *)
(* value of the constants that satisfies their assumptions.                *)
(*                                                                         *)
(* TypeOK is not inductive by itself: a trial must not run once maxTries   *)
(* trials are spent, the row index must stay below N while a row is       *)
(* searched or copied, and N must be positive once the matrix exists (the  *)
(* symmetrisation reads P[b*N + a]).  IInv adds exactly these facts.       *)
(***************************************************************************)
EXTENDS Calibrator, TLAPS

(* The facts TypeOK needs besides itself.                                  *)
Control ==
  /\ pc \in {"search", "copy"} => i \in 0 .. (N - 1)
  /\ pc \in {"search", "copy", "sym", "done"} => N > 0
  /\ pc = "search" => numTries < MaxTries

IInv == TypeOK /\ Control

-----------------------------------------------------------------------------
(* Flat indexing: a*n + b addresses the n*n array, and c \div n, c % n     *)
(* recover a row and a column from an address.                             *)
LEMMA CellIndex ==
  ASSUME NEW n \in Nat \ {0}, NEW a \in 0 .. (n - 1), NEW b \in 0 .. (n - 1)
  PROVE  a * n + b \in 0 .. (n * n - 1)
<1>1. a * n <= (n - 1) * n
  BY SMT
<1>2. (n - 1) * n + (n - 1) = n * n - 1
  BY SMT
<1>3. QED
  BY <1>1, <1>2, SMT

LEMMA RowCol ==
  ASSUME NEW n \in Nat \ {0}, NEW c \in 0 .. (n * n - 1)
  PROVE  /\ c \div n \in 0 .. (n - 1)
         /\ c % n \in 0 .. (n - 1)
<1>1. c % n \in 0 .. (n - 1)
  BY SMT
<1>2. c \div n >= 0
  BY SMT
<1>3. c \div n < n
  <2>1. n * (c \div n) <= c
    BY SMT
  <2>2. c < n * n
    BY SMT
  <2>3. QED
    BY <2>1, <2>2, SMT
<1>4. QED
  BY <1>1, <1>2, <1>3, SMT

(* A row of a table in Tables is a finite sequence of integers.            *)
LEMMA RowType ==
  ASSUME TypeOK, NEW r \in 0 .. (N - 1)
  PROVE  /\ Row(r) \in Seq(Int)
         /\ Len(Row(r)) \in Nat
<1>1. nearest \in Seq(Seq(Int))
  BY TablesAssumption DEF TypeOK
<1>2. r + 1 \in 1 .. Len(nearest)
  BY DEF N
<1>3. QED
  BY <1>1, <1>2 DEF Row

-----------------------------------------------------------------------------
LEMMA InitIInv == Init => IInv
BY MaxTriesAssumption, ScaleAssumption DEF Init, IInv, TypeOK, Control, N

(* Each action keeps IInv.                                                 *)
LEMMA StartIInv == IInv /\ Start => IInv'
<1> SUFFICES ASSUME IInv, Start PROVE IInv'
  OBVIOUS
<1>1. CASE N = 0
  BY <1>1 DEF Start, IInv, TypeOK, Control, N
<1>2. CASE N # 0
  <2>1. N > 0 /\ N \in Nat
    BY <1>2 DEF IInv, TypeOK, N
  <2>2. Len(Row(0)) \in Nat
    BY <2>1, RowType DEF IInv
  <2>3. pRowLen' \in Nat /\ P' \in [Cells' -> Nat] /\ beta' \in Nat
    BY <1>2, <2>2, ScaleAssumption DEF Start, ResetRow, Cells, N
  <2>4. QED
    BY <1>2, <2>1, <2>3, MaxTriesAssumption DEF Start, ResetRow, IInv, TypeOK, Control, N
<1>3. QED
  BY <1>1, <1>2

LEMMA TrialIInv == IInv /\ Trial => IInv'
<1> SUFFICES ASSUME IInv, Trial PROVE IInv'
  OBVIOUS
<1>1. /\ beta' \in Nat
      /\ betaMin' \in Nat \cup {NegInf}
      /\ betaMax' \in Nat \cup {PosInf}
  <2>1. CASE RaiseBeta
    BY <2>1, InfinityAssumption DEF RaiseBeta, IInv, TypeOK
  <2>2. CASE LowerBeta
    BY <2>2, InfinityAssumption DEF LowerBeta, IInv, TypeOK
  <2>3. QED
    BY <2>1, <2>2 DEF Trial
<1>2. pRowLen' \in Nat
  <2>1. Len(Row(i)) \in Nat
    BY RowType DEF IInv, Control, Trial
  <2>2. QED
    BY <2>1 DEF Trial, MaxOf, IInv, TypeOK
<1>3. numTries' \in 0 .. MaxTries /\ (pc' = "search" => numTries' < MaxTries)
  BY MaxTriesAssumption DEF Trial, IInv, TypeOK, Control
<1>4. QED
  BY <1>1, <1>2, <1>3 DEF Trial, IInv, TypeOK, Control, N, Cells

LEMMA CopyIInv == IInv /\ Copy => IInv'
<1> SUFFICES ASSUME IInv, Copy PROVE IInv'
  OBVIOUS
<1>1. CASE Len(Row(i)) < pRowLen
  BY <1>1 DEF Copy, IInv, TypeOK, Control, N, Cells
<1>2. CASE ~(Len(Row(i)) < pRowLen)
  <2>1. N \in Nat /\ N > 0 /\ i \in 0 .. (N - 1)
    BY DEF IInv, TypeOK, Control, Copy, N
  <2>2. Len(Row(i)) \in Nat
    BY <2>1, RowType DEF IInv
  <2>3. SlotValue(Len(Row(i))) \in Nat
    BY <2>1, <2>2 DEF SlotValue, Unit
  <2>4. P' \in [Cells' -> Nat]
    BY <1>2, <2>3 DEF Copy, IInv, TypeOK, Control, N, Cells
  <2>5. CASE i + 1 < N
    BY <1>2, <2>1, <2>4, <2>5, ScaleAssumption, MaxTriesAssumption
       DEF Copy, ResetRow, IInv, TypeOK, Control, N
  <2>6. CASE ~(i + 1 < N)
    BY <1>2, <2>1, <2>4, <2>6 DEF Copy, IInv, TypeOK, Control, N
  <2>7. QED
    BY <2>5, <2>6
<1>3. QED
  BY <1>1, <1>2

LEMMA SymmetrizeIInv == IInv /\ Symmetrize => IInv'
<1> SUFFICES ASSUME IInv, Symmetrize PROVE IInv'
  OBVIOUS
<1>1. N \in Nat \ {0}
  BY DEF IInv, TypeOK, Control, Symmetrize, N
<1>2. P \in [Cells -> Nat]
  BY DEF IInv, TypeOK, Symmetrize
<1>3. ASSUME NEW c \in Cells
      PROVE  /\ (c \div N) * N + (c % N) \in Cells
             /\ (c % N) * N + (c \div N) \in Cells
  <2>1. c \in 0 .. (N * N - 1)
    BY DEF Cells
  <2>2. c \div N \in 0 .. (N - 1) /\ c % N \in 0 .. (N - 1)
    BY <1>1, <2>1, RowCol
  <2>3. QED
    BY <1>1, <2>2, CellIndex DEF Cells
<1>4. P' \in [Cells -> Nat]
  <2>1. \A x, y \in Nat : (x + y) \div (2 * N) \in Nat
    BY <1>1
  <2>2. QED
    BY <1>2, <1>3, <2>1 DEF Symmetrize
<1>5. QED
  BY <1>1, <1>4 DEF Symmetrize, IInv, TypeOK, Control, N, Cells

LEMMA NextIInv == IInv /\ [Next]_vars => IInv'
<1> SUFFICES ASSUME IInv, [Next]_vars PROVE IInv'
  OBVIOUS
<1>1. CASE Start
  BY <1>1, StartIInv
<1>2. CASE Trial
  BY <1>2, TrialIInv
<1>3. CASE Copy
  BY <1>3, CopyIInv
<1>4. CASE Symmetrize
  BY <1>4, SymmetrizeIInv
<1>5. CASE Finished \/ UNCHANGED vars
  BY <1>5 DEF Finished, vars, IInv, TypeOK, Control, N, Cells
<1>6. QED
  BY <1>1, <1>2, <1>3, <1>4, <1>5 DEF Next

(* The calibrator's state is well typed in every reachable state: beta and *)
(* its bounds are exact integers (or the infinite bounds), numTries never  *)
(* exceeds maxTries, and P is a natural-valued N*N array once it exists.   *)
THEOREM TypeCorrect == Spec => []TypeOK
<1>1. Init => IInv
  BY InitIInv
<1>2. IInv /\ [Next]_vars => IInv'
  BY NextIInv
<1>3. IInv => TypeOK
  BY DEF IInv
<1>4. QED
  BY <1>1, <1>2, <1>3, PTL DEF Spec
-----------------------------------------------------------------------------
(* The window of a searched row is a pair of integers.                     *)
LEMMA WindowType ==
  ASSUME IInv, pc = "search"
  PROVE  win[i].lo \in Int /\ win[i].hi \in Int
<1>1. i \in 0 .. (N - 1) /\ win \in [0 .. (N - 1) -> Windows]
  BY DEF IInv, TypeOK, Control
<1>2. win[i] \in [lo : Nat, hi : Int]
  BY <1>1, WindowsAssumption
<1>3. QED
  BY <1>2

LEMMA TrialBrackets ==
  ASSUME IInv, SearchBracketsTarget, Trial, pc' = "search"
  PROVE  SearchBracketsTarget'
<1>1. ~Close(i, beta)
  BY DEF Trial
<1>2. win[i].lo \in Int /\ win[i].hi \in Int /\ beta \in Int
  BY WindowType DEF Trial, IInv, TypeOK
<1>3. win' = win /\ i' = i
  BY DEF Trial
<1>4. CASE TooDiffuse(i, beta) /\ RaiseBeta
  <2>1. betaMin' = beta /\ beta < win[i].lo
    BY <1>4 DEF TooDiffuse, RaiseBeta
  <2>2. betaMax' = betaMax
    BY <1>4 DEF RaiseBeta
  <2>3. QED
    BY <1>3, <2>1, <2>2 DEF SearchBracketsTarget, Trial
<1>5. CASE TooPeaked(i, beta) /\ LowerBeta
  <2>1. betaMax' = beta /\ beta > win[i].hi
    BY <1>5 DEF TooPeaked, LowerBeta
  <2>2. betaMin' = betaMin
    BY <1>5 DEF LowerBeta
  <2>3. QED
    BY <1>3, <2>1, <2>2 DEF SearchBracketsTarget, Trial
<1>6. QED
  BY <1>1, <1>4, <1>5 DEF Trial

LEMMA NextBrackets ==
  IInv /\ SearchBracketsTarget /\ [Next]_vars => SearchBracketsTarget'
<1> SUFFICES ASSUME IInv, SearchBracketsTarget, [Next]_vars
             PROVE  SearchBracketsTarget'
  OBVIOUS
<1>1. CASE Start
  BY <1>1, InfinityAssumption DEF Start, ResetRow, SearchBracketsTarget
<1>2. CASE Trial
  <2>1. CASE pc' = "search"
    BY <1>2, <2>1, TrialBrackets
  <2>2. CASE pc' # "search"
    BY <2>2 DEF SearchBracketsTarget
  <2>3. QED
    BY <2>1, <2>2
<1>3. CASE Copy
  BY <1>3 DEF Copy, ResetRow, SearchBracketsTarget
<1>4. CASE Symmetrize
  BY <1>4 DEF Symmetrize, SearchBracketsTarget
<1>5. CASE Finished \/ UNCHANGED vars
  BY <1>5 DEF Finished, vars, SearchBracketsTarget
<1>6. QED
  BY <1>1, <1>2, <1>3, <1>4, <1>5 DEF Next

(* The binary search of nearest2P never loses its target: while a row is   *)
(* searched, betaMin stays below and betaMax above every beta whose row    *)
(* entropy is within tol of log(perplexity), for every table, every        *)
(* window and every maxTries.                                              *)
THEOREM BracketCorrect == Spec => []SearchBracketsTarget
<1>1. Init => IInv /\ SearchBracketsTarget
  BY InitIInv DEF Init, SearchBracketsTarget
<1>2. IInv /\ SearchBracketsTarget /\ [Next]_vars => (IInv /\ SearchBracketsTarget)'
  BY NextIInv, NextBrackets
<1>3. QED
  BY <1>1, <1>2, PTL DEF Spec
-----------------------------------------------------------------------------
(* Strict bracketing.  After t trials of a row, beta and the finite ends   *)
(* of the bracket are multiples of Halvings[t] = Scale / 2^t.  While a     *)
(* further trial remains, that unit is even, so two distinct multiples     *)
(* differ by at least 2 and their average of lines 188 and 197 falls       *)
(* strictly between them, on a multiple of the next unit.                 *)
MultipleOf(x, g) == \E m \in 0 .. x : x = m * g

Grain ==
  pc = "search" =>
    LET g == Halvings[numTries] IN
    /\ beta > 0
    /\ MultipleOf(beta, g)
    /\ betaMin # NegInf => MultipleOf(betaMin, g)
    /\ betaMax # PosInf => MultipleOf(betaMax, g)

StrictInv == IInv /\ Grain /\ BetaInBracket

(* m*h is a multiple of h.                                                 *)
LEMMA MultipleIntro ==
  \A h \in Nat \ {0} : \A m \in Nat : MultipleOf(m * h, h)
<1> SUFFICES ASSUME NEW h \in Nat \ {0}, NEW m \in Nat PROVE MultipleOf(m * h, h)
  OBVIOUS
<1>1. m \in 0 .. (m * h)
  BY SMT
<1>2. QED
  BY <1>1 DEF MultipleOf

(* The average of two distinct even multiples of h is a multiple of h     *)
(* strictly between them.                                                  *)
LEMMA Midpoint ==
  ASSUME NEW h \in Nat \ {0}, NEW a \in Nat, NEW b \in Nat, a < b
  PROVE  /\ ((2 * a) * h + (2 * b) * h) \div 2 = (a + b) * h
         /\ (2 * a) * h < (a + b) * h
         /\ (a + b) * h < (2 * b) * h
<1>1. ((2 * a) * h + (2 * b) * h) \div 2 = (a + b) * h
  BY SMT
<1>2. (b - a) * h > 0
  BY SMT
<1>3. QED
  BY <1>1, <1>2, SMT

(* Distinct multiples of a positive unit are ordered as their factors.     *)
LEMMA FactorOrder ==
  ASSUME NEW g \in Nat \ {0}, NEW a \in Nat, NEW b \in Nat, a * g < b * g
  PROVE  a < b
BY SMT

LEMMA TrialGrain ==
  ASSUME StrictInv, Trial, pc' = "search"
  PROVE  (Grain /\ BetaInBracket)'
<1> DEFINE t == numTries
           g == Halvings[t]
           h == Halvings[t + 1]
<1>1. /\ pc = "search" /\ t \in Nat /\ t + 1 < MaxTries /\ numTries' = t + 1
      /\ i' = i /\ win' = win
  BY MaxTriesAssumption DEF Trial, StrictInv, IInv, TypeOK
<1>2. h \in Nat \ {0} /\ g = 2 * h
  BY <1>1, HalvingsAssumption, MaxTriesAssumption
<1>3. /\ beta \in Nat /\ beta > 0 /\ MultipleOf(beta, g)
      /\ betaMin # NegInf => betaMin \in Nat /\ MultipleOf(betaMin, g) /\ betaMin < beta
      /\ betaMax # PosInf => betaMax \in Nat /\ MultipleOf(betaMax, g) /\ beta < betaMax
  BY <1>1 DEF StrictInv, IInv, TypeOK, Grain, BetaInBracket
<1>4. PICK a \in Nat : beta = a * g /\ a > 0
  <2>1. PICK m \in 0 .. beta : beta = m * g
    BY <1>3 DEF MultipleOf
  <2>2. m \in Nat /\ m > 0
    BY <1>2, <1>3, <2>1, SMT
  <2>3. QED
    BY <2>1, <2>2
<1>5. \A m \in Nat : MultipleOf(m * h, h)
  BY <1>2, MultipleIntro
<1> HIDE DEF g, h
<1>6. SUFFICES /\ beta' > 0
               /\ MultipleOf(beta', h)
               /\ betaMin' # NegInf => MultipleOf(betaMin', h) /\ betaMin' < beta'
               /\ betaMax' # PosInf => MultipleOf(betaMax', h) /\ beta' < betaMax'
  BY <1>1 DEF Grain, BetaInBracket, h
<1>7. beta = (2 * a) * h
  BY <1>2, <1>4, SMT
<1>8. CASE RaiseBeta /\ betaMax = PosInf
  <2>1. /\ beta' = (4 * a) * h /\ betaMin' = (2 * a) * h /\ betaMax' = PosInf
        /\ 0 < (2 * a) * h /\ (2 * a) * h < (4 * a) * h
    BY <1>2, <1>4, <1>7, <1>8, SMT DEF RaiseBeta
  <2>2. MultipleOf((4 * a) * h, h) /\ MultipleOf((2 * a) * h, h)
    BY <1>5, 4 * a \in Nat, 2 * a \in Nat
  <2>3. QED
    BY <2>1, <2>2, InfinityAssumption
<1>9. CASE RaiseBeta /\ betaMax # PosInf
  <2>1. PICK b \in Nat : betaMax = b * g
    <3>1. PICK m \in 0 .. betaMax : betaMax = m * g
      BY <1>3, <1>9 DEF MultipleOf
    <3>2. QED
      BY <1>3, <1>9, <3>1
  <2>2. a < b
    BY <1>2, <1>3, <1>4, <1>9, <2>1, FactorOrder
  <2>3. betaMax = (2 * b) * h
    BY <1>2, <2>1, SMT
  <2>4. /\ beta' = ((2 * a) * h + (2 * b) * h) \div 2 /\ betaMin' = beta
        /\ betaMax' = betaMax
    BY <1>7, <1>9, <2>3 DEF RaiseBeta
  <2>5. /\ ((2 * a) * h + (2 * b) * h) \div 2 = (a + b) * h
        /\ (2 * a) * h < (a + b) * h /\ (a + b) * h < (2 * b) * h
    BY <1>2, <2>2, Midpoint
  <2>6. /\ MultipleOf((a + b) * h, h) /\ MultipleOf((2 * a) * h, h)
        /\ MultipleOf((2 * b) * h, h)
    BY <1>5, a + b \in Nat, 2 * a \in Nat, 2 * b \in Nat
  <2>7. 0 < (2 * a) * h
    BY <1>2, <1>4, SMT
  <2>8. QED
    BY <1>7, <2>3, <2>4, <2>5, <2>6, <2>7, SMT
<1>10. CASE LowerBeta /\ betaMin = NegInf
  <2>1. /\ beta' = a * h /\ betaMax' = (2 * a) * h /\ betaMin' = NegInf
        /\ a * h < (2 * a) * h /\ a * h > 0
    BY <1>2, <1>4, <1>7, <1>10, SMT DEF LowerBeta
  <2>2. MultipleOf(a * h, h) /\ MultipleOf((2 * a) * h, h)
    BY <1>5, 2 * a \in Nat
  <2>3. QED
    BY <2>1, <2>2
<1>11. CASE LowerBeta /\ betaMin # NegInf
  <2>1. PICK c \in Nat : betaMin = c * g
    <3>1. PICK m \in 0 .. betaMin : betaMin = m * g
      BY <1>3, <1>11 DEF MultipleOf
    <3>2. QED
      BY <1>3, <1>11, <3>1
  <2>2. c < a
    BY <1>2, <1>3, <1>4, <1>11, <2>1, FactorOrder
  <2>3. betaMin = (2 * c) * h
    BY <1>2, <2>1, SMT
  <2>4. /\ beta' = ((2 * c) * h + (2 * a) * h) \div 2 /\ betaMin' = betaMin
        /\ betaMax' = beta
    <3>1. beta' = (beta + betaMin) \div 2 /\ betaMin' = betaMin /\ betaMax' = beta
      BY <1>11 DEF LowerBeta
    <3>2. QED
      BY <1>7, <2>3, <3>1
  <2>5. /\ ((2 * c) * h + (2 * a) * h) \div 2 = (c + a) * h
        /\ (2 * c) * h < (c + a) * h /\ (c + a) * h < (2 * a) * h
    BY <1>2, <2>2, Midpoint
  <2>6. /\ MultipleOf((c + a) * h, h) /\ MultipleOf((2 * c) * h, h)
        /\ MultipleOf((2 * a) * h, h)
    BY <1>5, c + a \in Nat, 2 * c \in Nat, 2 * a \in Nat
  <2>7. 0 <= (2 * c) * h
    BY <1>2, SMT
  <2>8. QED
    BY <1>7, <2>3, <2>4, <2>5, <2>6, <2>7, SMT
<1>12. QED
  BY <1>8, <1>9, <1>10, <1>11 DEF Trial

(* A row starts with beta = Scale = Halvings[0] and an open bracket.       *)
LEMMA ResetGrain ==
  ASSUME ResetRow, pc' = "search"
  PROVE  (Grain /\ BetaInBracket)'
<1>1. MultipleOf(1 * Scale, Scale)
  BY ScaleAssumption, MultipleIntro
<1>2. QED
  BY <1>1, ScaleAssumption, HalvingsAssumption, InfinityAssumption, SMT
     DEF ResetRow, Grain, BetaInBracket

LEMMA NextStrict == StrictInv /\ [Next]_vars => StrictInv'
<1> SUFFICES ASSUME StrictInv, [Next]_vars PROVE StrictInv'
  OBVIOUS
<1>1. IInv'
  BY NextIInv DEF StrictInv
<1>2. CASE Trial
  <2>1. CASE pc' = "search"
    BY <1>1, <1>2, <2>1, TrialGrain DEF StrictInv
  <2>2. CASE pc' # "search"
    BY <1>1, <2>2 DEF StrictInv, Grain, BetaInBracket
  <2>3. QED
    BY <2>1, <2>2
<1>3. CASE Start \/ Copy
  <2>1. CASE pc' = "search"
    <3>1. ResetRow
      BY <1>3, <2>1 DEF Start, Copy
    <3>2. QED
      BY <1>1, <2>1, <3>1, ResetGrain DEF StrictInv
  <2>2. CASE pc' # "search"
    BY <1>1, <2>2 DEF StrictInv, Grain, BetaInBracket
  <2>3. QED
    BY <2>1, <2>2
<1>4. CASE Symmetrize \/ Finished
  BY <1>1, <1>4 DEF Symmetrize, Finished, vars, StrictInv, Grain, BetaInBracket
<1>5. CASE UNCHANGED vars
  BY <1>1, <1>5 DEF vars, StrictInv, Grain, BetaInBracket
<1>6. QED
  BY <1>2, <1>3, <1>4, <1>5 DEF Next

(* The trial beta of nearest2P lies strictly inside the bracket in every  *)
(* reachable state, for every maxTries and every window: each bisection    *)
(* of lines 188 and 197 lands strictly between the bounds, so a trial      *)
(* never repeats a bound and the search really narrows.                    *)
THEOREM StrictBracket == Spec => []BetaInBracket
<1>1. Init => StrictInv
  <2> SUFFICES ASSUME Init PROVE StrictInv
    OBVIOUS
  <2>1. pc = "start"
    BY DEF Init
  <2>2. QED
    BY <2>1, InitIInv DEF StrictInv, Grain, BetaInBracket
<1>2. StrictInv /\ [Next]_vars => StrictInv'
  BY NextStrict
<1>3. QED
  BY <1>1, <1>2, PTL DEF Spec, StrictInv

-----------------------------------------------------------------------------
(* Support.  While the rows are copied, P is nonzero exactly on the pairs  *)
(* (a, b) of rows a < i that name b, and every nonzero value is at least   *)
(* 2N, so the division by 2N of the symmetrisation keeps it nonzero.       *)
Support(m) ==
  \A a, b \in 0 .. (N - 1) : P[a * N + b] # 0 <=> (a < m /\ Listed(a, b))

CopyValues == \A c \in Cells : P[c] = 0 \/ P[c] >= 2 * N

SuppInv ==
  /\ pc = "sym" => i = N
  /\ (IndicesInRange /\ pc \in {"search", "copy", "sym"}) => Support(i) /\ CopyValues
  /\ PSupport

(* The flat address a*n + b gives back its row and its column.             *)
LEMMA FlatIndex ==
  ASSUME NEW n \in Nat \ {0}, NEW a \in 0 .. (n - 1), NEW b \in 0 .. (n - 1)
  PROVE  (a * n + b) \div n = a /\ (a * n + b) % n = b
BY SMT

(* Two flat addresses are equal exactly when row and column are.           *)
LEMMA FlatUnique ==
  ASSUME NEW n \in Nat \ {0}, NEW a \in 0 .. (n - 1), NEW b \in 0 .. (n - 1),
         NEW a2 \in 0 .. (n - 1), NEW b2 \in 0 .. (n - 1)
  PROVE  (a * n + b = a2 * n + b2) <=> (a = a2 /\ b = b2)
<1>1. (a * n + b) \div n = a /\ (a * n + b) % n = b
  BY FlatIndex
<1>2. (a2 * n + b2) \div n = a2 /\ (a2 * n + b2) % n = b2
  BY FlatIndex
<1>3. QED
  BY <1>1, <1>2

LEMMA FlatUniqueAll ==
  \A n \in Nat \ {0} : \A a, b, a2, b2 \in 0 .. (n - 1) :
    (a * n + b = a2 * n + b2) <=> (a = a2 /\ b = b2)
BY FlatUnique

(* A slot of a row of at most 4 slots holds at least 2N units.             *)
LEMMA SlotLarge ==
  ASSUME NEW n \in Nat \ {0}, NEW l \in 1 .. 4
  PROVE  (24 * n) \div l >= 2 * n
<1>1. CASE l = 1  BY <1>1, SMT
<1>2. CASE l = 2  BY <1>2, SMT
<1>3. CASE l = 3  BY <1>3, SMT
<1>4. CASE l = 4  BY <1>4, SMT
<1>5. QED  BY <1>1, <1>2, <1>3, <1>4

LEMMA SlotLargeAll == \A n \in Nat \ {0} : \A l \in 1 .. 4 : (24 * n) \div l >= 2 * n
BY SlotLarge

(* Halving the sum of two such values over N keeps it nonzero exactly when *)
(* one of them is.                                                          *)
LEMMA HalfSum ==
  ASSUME NEW n \in Nat \ {0}, NEW x \in Nat, NEW y \in Nat,
         x = 0 \/ x >= 2 * n, y = 0 \/ y >= 2 * n
  PROVE  ((x + y) \div (2 * n) # 0) <=> (x # 0 \/ y # 0)
<1>1. CASE x = 0 /\ y = 0
  BY <1>1, SMT
<1>2. CASE x + y >= 2 * n
  BY <1>2, SMT
<1>3. QED
  BY <1>1, <1>2

LEMMA HalfSumAll ==
  \A n \in Nat \ {0} : \A x, y \in Nat :
    (x = 0 \/ x >= 2 * n) /\ (y = 0 \/ y >= 2 * n) =>
      (((x + y) \div (2 * n) # 0) <=> (x # 0 \/ y # 0))
BY HalfSum

(* A row of the table has at most 4 slots.                                 *)
LEMMA RowShort ==
  ASSUME TypeOK, NEW r \in 0 .. (N - 1)
  PROVE  Len(Row(r)) \in 0 .. 4
<1>1. r + 1 \in 1 .. Len(nearest) /\ nearest \in Tables
  BY DEF N, TypeOK
<1>2. Len(Row(r)) <= 4
  BY <1>1, TablesAssumption DEF Row
<1>3. Len(Row(r)) \in Nat
  BY RowType
<1>4. \A m \in Nat : m <= 4 => m \in 0 .. 4
  BY SMT
<1>5. QED
  BY <1>2, <1>3, <1>4, Zenon

(* Copying row i (lines 208-212) extends the support by the pairs of row i *)
(* and writes values of at least 2N.                                       *)
LEMMA CopySupport ==
  ASSUME IInv, Copy, ~(Len(Row(i)) < pRowLen), IndicesInRange,
         Support(i), CopyValues
  PROVE  /\ \A a, b \in 0 .. (N - 1) :
              P'[a * N + b] # 0 <=> (a < i + 1 /\ Listed(a, b))
         /\ \A c \in Cells : P'[c] = 0 \/ P'[c] >= 2 * N
<1> DEFINE L == Len(Row(i))
           Hit(c) == \E k \in 1 .. L : i * N + Row(i)[k] = c
<1>1. N \in Nat \ {0} /\ i \in 0 .. (N - 1) /\ pc = "copy"
  BY DEF IInv, TypeOK, Control, Copy, N
<1>2. L \in 0 .. 4 /\ Row(i) \in Seq(Int)
  BY <1>1, RowShort, RowType DEF IInv
<1>3. P' = [c \in Cells |-> IF Hit(c) THEN SlotValue(L) ELSE P[c]]
  BY DEF Copy
<1>4. \A k \in 1 .. L : Row(i)[k] \in 0 .. (N - 1)
  BY <1>1 DEF IndicesInRange
<1>5. ASSUME NEW c \in Cells, Hit(c) PROVE P'[c] = SlotValue(L) /\ SlotValue(L) >= 2 * N
  <2>1. L \in 1 .. 4
    BY <1>2, <1>5
  <2>2. (24 * N) \div L >= 2 * N
    BY <1>1, <2>1, SlotLargeAll, Zenon
  <2>3. QED
    BY <1>3, <1>5, <2>1, <2>2 DEF SlotValue, Unit
<1>6. ASSUME NEW c \in Cells, ~Hit(c) PROVE P'[c] = P[c]
  BY <1>3, <1>6
<1>7. ASSUME NEW a \in 0 .. (N - 1), NEW b \in 0 .. (N - 1)
      PROVE  P'[a * N + b] # 0 <=> (a < i + 1 /\ Listed(a, b))
  <2>1. a * N + b \in Cells
    BY <1>1, CellIndex DEF Cells
  <2>2. Hit(a * N + b) <=> (a = i /\ Listed(i, b))
    <3>1. ASSUME NEW k \in 1 .. L
          PROVE  (i * N + Row(i)[k] = a * N + b) <=> (i = a /\ Row(i)[k] = b)
      <4>1. Row(i)[k] \in 0 .. (N - 1)
        BY <1>4
      <4>2. QED
        BY <1>1, <4>1, FlatUniqueAll
    <3>2. QED
      BY <3>1 DEF Listed
  <2>3. P[a * N + b] # 0 <=> (a < i /\ Listed(a, b))
    BY DEF Support
  <2>4. CASE Hit(a * N + b)
    <3>1. P'[a * N + b] # 0
      BY <1>1, <1>5, <2>1, <2>4, SMT
    <3>2. a < i + 1 /\ Listed(a, b)
      BY <1>1, <2>2, <2>4
    <3>3. QED
      BY <3>1, <3>2
  <2>5. CASE ~Hit(a * N + b)
    <3>1. P'[a * N + b] = P[a * N + b]
      BY <1>6, <2>1, <2>5
    <3>2. (a < i + 1 /\ Listed(a, b)) <=> (a < i /\ Listed(a, b))
      BY <1>1, <2>2, <2>5
    <3>3. QED
      BY <2>3, <3>1, <3>2
  <2>6. QED
    BY <2>4, <2>5
<1>8. \A c \in Cells : P'[c] = 0 \/ P'[c] >= 2 * N
  BY <1>5, <1>6 DEF CopyValues
<1>9. QED
  BY <1>7, <1>8

(* Symmetrisation (lines 215-227) turns the support of the copied rows     *)
(* into the support of the pairs in either direction.                      *)
LEMMA SymSupport ==
  ASSUME IInv, Symmetrize, IndicesInRange, Support(N), CopyValues
  PROVE  PSupport'
<1>1. N \in Nat \ {0} /\ P \in [Cells -> Nat] /\ nearest' = nearest /\ pc' = "done"
  BY DEF IInv, TypeOK, Control, Symmetrize, N
<1>0. /\ N' = N
      /\ \A a, b \in 0 .. (N - 1) : Listed(a, b)' <=> Listed(a, b)
  BY <1>1 DEF Listed, Row, N
<1> SUFFICES ASSUME NEW a \in 0 .. (N - 1), NEW b \in 0 .. (N - 1)
             PROVE  P'[a * N + b] # 0 <=> (Listed(a, b) \/ Listed(b, a))
  BY <1>0, <1>1 DEF PSupport
<1>2. a * N + b \in Cells /\ b * N + a \in Cells
  BY <1>1, CellIndex DEF Cells
<1>3. (a * N + b) \div N = a /\ (a * N + b) % N = b
  BY <1>1, FlatIndex
<1>4. P'[a * N + b] = IF a = b THEN P[a * N + b]
                      ELSE (P[a * N + b] + P[b * N + a]) \div (2 * N)
  BY <1>2, <1>3 DEF Symmetrize
<1>5. /\ P[a * N + b] # 0 <=> Listed(a, b)
      /\ P[b * N + a] # 0 <=> Listed(b, a)
  <2>1. a < N /\ b < N
    BY <1>1
  <2>2. QED
    BY <2>1 DEF Support
<1>6. /\ P[a * N + b] \in Nat /\ P[b * N + a] \in Nat
      /\ P[a * N + b] = 0 \/ P[a * N + b] >= 2 * N
      /\ P[b * N + a] = 0 \/ P[b * N + a] >= 2 * N
  BY <1>1, <1>2 DEF CopyValues
<1>7. CASE a = b
  BY <1>4, <1>5, <1>7
<1>8. CASE a # b
  <2>1. ((P[a * N + b] + P[b * N + a]) \div (2 * N) # 0)
          <=> (P[a * N + b] # 0 \/ P[b * N + a] # 0)
    BY <1>1, <1>6, HalfSumAll, Zenon
  <2>2. QED
    BY <1>4, <1>5, <1>8, <2>1
<1>9. QED
  BY <1>7, <1>8

(* No action changes the table.                                            *)
LEMMA TableFixed ==
  ASSUME [Next]_vars
  PROVE  /\ nearest' = nearest /\ N' = N /\ Cells' = Cells
         /\ IndicesInRange' = IndicesInRange
         /\ \A a, b \in 0 .. (N - 1) : Listed(a, b)' = Listed(a, b)
<1>1. nearest' = nearest
  BY DEF Next, Start, Trial, Copy, Symmetrize, Finished, vars
<1>2. QED
  BY <1>1 DEF N, Cells, IndicesInRange, Listed, Row

LEMMA InitSupport == Init => SuppInv
BY DEF Init, SuppInv, PSupport

LEMMA NextSupport == IInv /\ SuppInv /\ [Next]_vars => SuppInv'
<1> SUFFICES ASSUME IInv, SuppInv, [Next]_vars PROVE SuppInv'
  OBVIOUS
<1>0. /\ nearest' = nearest /\ N' = N /\ Cells' = Cells
      /\ IndicesInRange' = IndicesInRange
      /\ \A a, b \in 0 .. (N - 1) : Listed(a, b)' = Listed(a, b)
  BY TableFixed
<1>1. CASE Start
  <2>1. CASE N = 0
    BY <1>1, <2>1 DEF Start, SuppInv, PSupport
  <2>2. CASE N # 0
    <3>1. pc' = "search" /\ i' = 0 /\ P' = [c \in Cells |-> 0]
      BY <1>1, <2>2 DEF Start
    <3>0. N \in Nat \ {0}
      BY <2>2, TablesAssumption DEF IInv, TypeOK, N
    <3>2. \A a, b \in 0 .. (N - 1) : a * N + b \in Cells
      BY <3>0, CellIndex DEF Cells
    <3>3. Support(i)' /\ CopyValues'
      BY <1>0, <3>1, <3>2 DEF Support, CopyValues
    <3>4. QED
      BY <3>1, <3>3 DEF SuppInv, PSupport
  <2>3. QED
    BY <2>1, <2>2
<1>2. CASE Trial
  <2>1. UNCHANGED <<P, i>> /\ pc' \in {"search", "copy"} /\ pc = "search"
    BY <1>2 DEF Trial
  <2>2. Support(i)' = Support(i) /\ CopyValues' = CopyValues
    BY <1>0, <2>1 DEF Support, CopyValues
  <2>3. QED
    BY <1>0, <2>1, <2>2 DEF SuppInv, PSupport
<1>3. CASE Copy
  <2>1. CASE Len(Row(i)) < pRowLen
    BY <1>3, <2>1 DEF Copy, SuppInv, PSupport
  <2>2. CASE ~(Len(Row(i)) < pRowLen)
    <3>1. pc = "copy" /\ i \in 0 .. (N - 1) /\ N \in Nat /\ i' = i + 1
          /\ pc' \in {"search", "sym"} /\ (pc' = "sym" <=> ~(i + 1 < N))
      BY <1>3, <2>2, TablesAssumption DEF Copy, IInv, TypeOK, Control, N
    <3>2. pc' = "sym" => i' = N
      BY <3>1
    <3>3. IndicesInRange => Support(i)' /\ CopyValues'
      <4> SUFFICES ASSUME IndicesInRange PROVE Support(i)' /\ CopyValues'
        OBVIOUS
      <4>1. Support(i) /\ CopyValues
        BY <3>1 DEF SuppInv
      <4>2. /\ \A a, b \in 0 .. (N - 1) :
                 P'[a * N + b] # 0 <=> (a < i + 1 /\ Listed(a, b))
            /\ \A c \in Cells : P'[c] = 0 \/ P'[c] >= 2 * N
        BY <1>3, <2>2, <4>1, CopySupport
      <4>3. QED
        BY <1>0, <3>1, <4>2 DEF Support, CopyValues
    <3>4. QED
      BY <1>0, <3>1, <3>2, <3>3 DEF SuppInv, PSupport
  <2>3. QED
    BY <2>1, <2>2
<1>4. CASE Symmetrize
  <2>1. pc = "sym" /\ pc' = "done" /\ i = N
    BY <1>4 DEF Symmetrize, SuppInv
  <2>2. IndicesInRange => PSupport'
    <3> SUFFICES ASSUME IndicesInRange PROVE PSupport'
      OBVIOUS
    <3>1. Support(N) /\ CopyValues
      BY <2>1 DEF SuppInv
    <3>2. QED
      BY <1>4, <3>1, SymSupport
  <2>3. QED
    BY <1>0, <2>1, <2>2 DEF SuppInv, PSupport
<1>5. CASE Finished \/ UNCHANGED vars
  <2>1. UNCHANGED <<pc, i, P>>
    BY <1>5 DEF Finished, vars
  <2>2. QED
    BY <1>0, <2>1 DEF SuppInv, PSupport, Support, CopyValues
<1>6. QED
  BY <1>1, <1>2, <1>3, <1>4, <1>5 DEF Next

(* nearest2P returns a matrix that is nonzero exactly on the kNN pairs and *)
(* their transposes (spec, "Probability matrix P"), for every table whose *)
(* indices are points and every maxTries: the copy of line 211 addresses  *)
(* row i at i*N + j, and lines 222-223 give both cells of a pair the mass  *)
(* of either direction.                                                    *)
THEOREM SupportCorrect == Spec => []PSupport
<1>1. Init => IInv /\ SuppInv
  BY InitIInv, InitSupport
<1>2. IInv /\ SuppInv /\ [Next]_vars => (IInv /\ SuppInv)'
  BY NextIInv, NextSupport
<1>3. SuppInv => PSupport
  BY DEF SuppInv
<1>4. QED
  BY <1>1, <1>2, <1>3, PTL DEF Spec

-----------------------------------------------------------------------------
(* Throwing.  The copy loop of row i runs over pRow.length, the longest    *)
(* row met so far; a row shorter than an earlier one throws there.         *)
RowLen(r) == Len(Row(r))

(* No row among rows 0 .. m is shorter than an earlier one.                *)
RowsSorted(m) == \A q, r \in 0 .. m : q < r => RowLen(q) <= RowLen(r)

(* pRow.length when row i starts: the length of the row copied last (the   *)
(* longest so far, the rows before i being sorted), or K for row 0.        *)
PrevLen == IF i = 0 THEN RowLen(0) ELSE RowLen(i - 1)

ThrowCtl ==
  /\ pc \in {"search", "copy"} => RowsSorted(i - 1)
  /\ pc = "search" => pRowLen \in {PrevLen, MaxOf(PrevLen, RowLen(i))}
  /\ pc = "copy" => pRowLen = MaxOf(PrevLen, RowLen(i))
  /\ pc \in {"sym", "done"} => RowsSorted(N - 1)
  /\ pc = "error" => Nearest2PThrows(nearest)

(* The number of points is a natural number.                               *)
LEMMA NNat == TypeOK => N \in Nat
BY TablesAssumption DEF TypeOK, N

(* Row lengths are natural numbers.                                        *)
LEMMA RowLenNat ==
  ASSUME TypeOK, NEW r \in 0 .. (N - 1)
  PROVE  RowLen(r) \in Nat
BY RowType DEF RowLen

(* The copied rows stay sorted when row i is no shorter than the last one. *)
LEMMA SortedExtend ==
  ASSUME TypeOK, NEW m \in 0 .. (N - 1), RowsSorted(m - 1),
         m > 0 => RowLen(m - 1) <= RowLen(m)
  PROVE  RowsSorted(m)
<1> SUFFICES ASSUME NEW q \in 0 .. m, NEW r \in 0 .. m, q < r
             PROVE  RowLen(q) <= RowLen(r)
  BY DEF RowsSorted
<1>0. N \in Nat /\ q \in 0 .. (N - 1) /\ r \in 0 .. (N - 1)
  BY NNat
<1>1. RowLen(q) \in Nat /\ RowLen(r) \in Nat /\ RowLen(m) \in Nat
  BY <1>0, RowLenNat
<1>2. CASE r < m
  BY <1>2 DEF RowsSorted
<1>3. CASE r = m /\ q = m - 1
  BY <1>3
<1>4. CASE r = m /\ q < m - 1
  <2>0. m - 1 \in 0 .. (N - 1) /\ q \in 0 .. (m - 1)
    BY <1>0, <1>4
  <2>1. RowLen(q) <= RowLen(m - 1) /\ RowLen(m - 1) \in Nat
    BY <2>0, RowLenNat DEF RowsSorted
  <2>2. QED
    BY <1>1, <1>4, <2>1
<1>5. QED
  BY <1>2, <1>3, <1>4

LEMMA StartThrow == IInv /\ ThrowCtl /\ Start => ThrowCtl'
<1> SUFFICES ASSUME IInv, ThrowCtl, Start PROVE ThrowCtl'
  OBVIOUS
<1>1. CASE N = 0
  BY <1>1 DEF Start, ThrowCtl, Nearest2PThrows, N
<1>2. CASE N # 0
  <2>1. pc' = "search" /\ i' = 0 /\ pRowLen' = RowLen(0) /\ nearest' = nearest
    BY <1>2 DEF Start, RowLen
  <2>2. RowsSorted(i - 1)'
    BY <2>1 DEF RowsSorted
  <2>3. PrevLen' = RowLen(0)
    BY <2>1 DEF PrevLen, RowLen, Row
  <2>4. QED
    BY <2>1, <2>2, <2>3 DEF ThrowCtl
<1>3. QED
  BY <1>1, <1>2

LEMMA TrialThrow == IInv /\ ThrowCtl /\ Trial => ThrowCtl'
<1> SUFFICES ASSUME IInv, ThrowCtl, Trial PROVE ThrowCtl'
  OBVIOUS
<1>1. i \in 0 .. (N - 1) /\ i' = i /\ nearest' = nearest /\ pc = "search"
  BY DEF Trial, IInv, Control
<1>2. PrevLen \in Nat /\ RowLen(i) \in Nat /\ pRowLen \in Nat
  <2>1. i - 1 \in 0 .. (N - 1) \/ i = 0
    BY <1>1, NNat DEF IInv
  <2>2. QED
    BY <1>1, <2>1, RowLenNat DEF IInv, TypeOK, PrevLen
<1>2a. pRowLen \in {PrevLen, MaxOf(PrevLen, RowLen(i))}
  BY <1>1 DEF ThrowCtl
<1>3. pRowLen' = MaxOf(PrevLen, RowLen(i))
  <2>1. pRowLen' = MaxOf(pRowLen, RowLen(i))
    BY DEF Trial, RowLen
  <2>2. QED
    BY <1>2, <1>2a, <2>1 DEF MaxOf
<1>4. PrevLen' = PrevLen /\ RowLen(i)' = RowLen(i) /\ RowsSorted(i - 1)' = RowsSorted(i - 1)
  BY <1>1 DEF PrevLen, RowLen, Row, RowsSorted, N
<1>5. pc' \in {"search", "copy"} /\ RowsSorted(i - 1)
  BY <1>1 DEF Trial, ThrowCtl
<1>6. QED
  BY <1>3, <1>4, <1>5 DEF ThrowCtl

LEMMA CopyThrow == IInv /\ ThrowCtl /\ Copy => ThrowCtl'
<1> SUFFICES ASSUME IInv, ThrowCtl, Copy PROVE ThrowCtl'
  OBVIOUS
<1>0. /\ TypeOK /\ i \in 0 .. (N - 1) /\ N \in Nat /\ pc = "copy"
      /\ nearest' = nearest /\ pRowLen' = pRowLen
      /\ RowsSorted(i - 1) /\ pRowLen = MaxOf(PrevLen, RowLen(i))
  BY DEF Copy, IInv, Control, TypeOK, ThrowCtl, N
<1>1. RowLen(i) \in Nat /\ PrevLen \in Nat
  <2>1. i - 1 \in 0 .. (N - 1) \/ i = 0
    BY <1>0, NNat
  <2>2. QED
    BY <1>0, <2>1, RowLenNat DEF PrevLen
<1>2. CASE RowLen(i) < pRowLen
  <2>1. i > 0 /\ RowLen(i - 1) > RowLen(i)
    BY <1>0, <1>1, <1>2 DEF PrevLen, MaxOf
  <2>2. Nearest2PThrows(nearest)
    <3>1. i \in 1 .. Len(nearest) /\ i + 1 \in 1 .. Len(nearest)
      BY <1>0, <2>1 DEF N
    <3>2. Len(nearest[i]) > Len(nearest[i + 1])
      BY <1>0, <2>1 DEF RowLen, Row
    <3>3. QED
      BY <3>1, <3>2 DEF Nearest2PThrows
  <2>3. QED
    BY <1>0, <1>2, <2>2 DEF Copy, ThrowCtl, RowLen
<1>3. CASE ~(RowLen(i) < pRowLen)
  <2>1. RowsSorted(i) /\ pRowLen = RowLen(i)
    <3>1. i > 0 => RowLen(i - 1) <= RowLen(i)
      BY <1>0, <1>1, <1>3 DEF PrevLen, MaxOf
    <3>2. RowsSorted(i)
      BY <1>0, <3>1, SortedExtend
    <3>3. QED
      BY <1>0, <1>1, <1>3, <3>2 DEF MaxOf
  <2>2. i' = i + 1 => (RowsSorted(i - 1)' = RowsSorted(i) /\ PrevLen' = RowLen(i))
    BY <1>0 DEF RowsSorted, RowLen, Row, PrevLen
  <2>2a. RowsSorted(N - 1)' = RowsSorted(N - 1)
    BY <1>0 DEF RowsSorted, RowLen, Row, N
  <2>3. ~(Len(Row(i)) < pRowLen)
    BY <1>3 DEF RowLen
  <2>4. CASE i + 1 < N
    <3>1. pc' = "search" /\ i' = i + 1
      BY <2>3, <2>4 DEF Copy
    <3>2. QED
      BY <1>0, <2>1, <2>2, <3>1 DEF ThrowCtl
  <2>5. CASE ~(i + 1 < N)
    <3>1. pc' = "sym" /\ i = N - 1
      BY <1>0, <2>3, <2>5 DEF Copy
    <3>2. N' = N
      BY <1>0 DEF N
    <3>3. QED
      BY <2>1, <2>2a, <3>1, <3>2 DEF ThrowCtl
  <2>6. QED
    BY <2>4, <2>5
<1>4. QED
  BY <1>2, <1>3

LEMMA NextThrow == IInv /\ ThrowCtl /\ [Next]_vars => ThrowCtl'
<1> SUFFICES ASSUME IInv, ThrowCtl, [Next]_vars PROVE ThrowCtl'
  OBVIOUS
<1>1. CASE Start
  BY <1>1, StartThrow
<1>2. CASE Trial
  BY <1>2, TrialThrow
<1>3. CASE Copy
  BY <1>3, CopyThrow
<1>4. CASE Symmetrize
  BY <1>4 DEF Symmetrize, ThrowCtl, RowsSorted, RowLen, Row, N
<1>5. CASE Finished \/ UNCHANGED vars
  BY <1>5 DEF Finished, vars, ThrowCtl, RowsSorted, RowLen, Row, N, PrevLen
<1>6. QED
  BY <1>1, <1>2, <1>3, <1>4, <1>5 DEF Next

(* A returned call saw sorted rows, so no table nearest2P returns for      *)
(* makes Nearest2PThrows hold.                                             *)
(* Once every row is copied without throwing, the rows are sorted by    *)
(* length, so the table is not one Nearest2PThrows names.                 *)
LEMMA SortedNoThrow ==
  ASSUME IInv, ThrowCtl, pc \in {"sym", "done"}
  PROVE  ~Nearest2PThrows(nearest)
<1>1. N \in Nat /\ N > 0 /\ RowsSorted(N - 1)
  BY DEF IInv, TypeOK, Control, ThrowCtl, N
<1>2. ASSUME NEW q \in 1 .. Len(nearest), NEW r \in 1 .. Len(nearest), q < r
      PROVE  Len(nearest[q]) <= Len(nearest[r])
  <2>1. q - 1 \in 0 .. (N - 1) /\ r - 1 \in 0 .. (N - 1) /\ q - 1 < r - 1
    BY <1>2 DEF N
  <2>2. RowLen(q - 1) <= RowLen(r - 1)
    BY <1>1, <2>1 DEF RowsSorted
  <2>3. QED
    BY <2>2 DEF RowLen, Row
<1>3. Len(nearest) # 0
  BY <1>1 DEF N
<1>4. \A q, r \in 1 .. Len(nearest) : q < r => Len(nearest[q]) <= Len(nearest[r])
  BY <1>2
<1>5. \A q, r \in 1 .. Len(nearest) : ~(q < r /\ Len(nearest[q]) > Len(nearest[r]))
  <2>1. \A q \in 1 .. Len(nearest) : Len(nearest[q]) \in Nat
    BY DEF IInv, TypeOK
  <2>2. QED
    BY <1>4, <2>1
<1>6. QED
  BY <1>3, <1>5 DEF Nearest2PThrows

LEMMA CtlPredicts == IInv /\ ThrowCtl => ThrowsAsPredicted
<1> SUFFICES ASSUME IInv, ThrowCtl PROVE ThrowsAsPredicted
  OBVIOUS
<1>1. pc = "error" => Nearest2PThrows(nearest)
  BY DEF ThrowCtl
<1>2. pc = "done" => ~Nearest2PThrows(nearest)
  BY SortedNoThrow
<1>3. QED
  BY <1>1, <1>2 DEF ThrowsAsPredicted

(* nearest2P throws exactly for the tables Nearest2PThrows names, the      *)
(* condition Engine.tla uses for initDataDist: an empty table, or a row    *)
(* shorter than an earlier one; every other table gets a matrix, for every *)
(* table and every maxTries.                                               *)
THEOREM ThrowsCorrect == Spec => []ThrowsAsPredicted
<1>1. Init => IInv /\ ThrowCtl
  BY InitIInv DEF Init, ThrowCtl
<1>2. IInv /\ ThrowCtl /\ [Next]_vars => (IInv /\ ThrowCtl)'
  BY NextIInv, NextThrow
<1>3. QED
  BY <1>1, <1>2, CtlPredicts, PTL DEF Spec
=============================================================================
