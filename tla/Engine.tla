------------------------------- MODULE Engine -------------------------------
(***************************************************************************)
(* The TSNE class (src/unnamed/part_000 lines 258-358): construction,      *)
(* initDataDist, initSolution and step, as the caller drives them one     *)
(* call at a time (JavaScript runs each call to completion).               *)
(*                                                                         *)
(* Abstraction.  The numbers are left out: P is known by the table it was  *)
(* computed from (Pof), the solution Y by the number of points it was      *)
(* drawn for (Yrows).  nearest2P and costGrad appear through the           *)
(* conditions under which they throw; Calibrator.tla checks the first      *)
(* against the loop of nearest2P.  done and exag are history variables:    *)
(* the steps completed since the last initSolution, and how many of them   *)
(* ran with early exaggeration (alpha = 4, line 366).                      *)
(***************************************************************************)
EXTENDS Integers, Sequences, KnnTables

CONSTANTS
  Dims,        \* the values opt.dim may have
  Tables,      \* the kNN tables the caller may pass to initDataDist
  ExagIters,   \* 100: alpha = 4 while iter < 100 (line 366)
  MaxIter,     \* bound on iter, to keep the model finite
  Undef        \* undefined: a field not yet assigned

ASSUME DimsAssumption == Dims \subseteq Int
ASSUME TablesAssumption == Tables \subseteq Seq(Seq(Int))
ASSUME BoundsAssumption == ExagIters \in Nat \ {0} /\ MaxIter \in Nat
ASSUME UndefAssumption == Undef \notin Int /\ Undef \notin Seq(Seq(Int))

VARIABLES
  phase,     \* "new", "ready" (constructed) or "failed" (constructor threw)
  dim,       \* this.dim
  nearest,   \* this.nearest
  N,         \* this.N
  Pof,       \* the table this.P was computed from
  Yrows,     \* the number of points this.Y was drawn for
  iter,      \* this.iter
  done,      \* history: steps completed since the last initSolution
  exag       \* history: of those, the steps run with alpha = 4

vars == <<phase, dim, nearest, N, Pof, Yrows, iter, done, exag>>

(* costGrad throws before it changes anything when the engine was never   *)
(* given data (Uninitialized: this.nearest or this.N undefined), when     *)
(* nearest has fewer than N rows (neighbors.length of undefined, line     *)
(* 427), or when a neighbour index is not one of the N points (points[j]  *)
(* is undefined and dist2 reads its coordinates, line 431).                *)
CostGradThrows ==
  N = Undef \/ nearest = Undef \/ ~IndicesBelow(nearest, N)
-----------------------------------------------------------------------------
Init ==
  /\ phase = "new"
  /\ dim = Undef /\ nearest = Undef /\ N = Undef /\ Pof = Undef /\ Yrows = Undef
  /\ iter = 0 /\ done = 0 /\ exag = 0

(* Mutant of Construct: the else branch of line 288 (the throw) missing.  *)
ConstructAnyDim(d) ==
  /\ phase = "new"
  /\ phase' = "ready" /\ dim' = d
  /\ UNCHANGED <<nearest, N, Pof, Yrows, iter, done, exag>>

(* constructor (lines 276-291): only 2 and 3 dimensions are supported.     *)
Construct(d) ==
  /\ phase = "new"
  /\ IF d \in {2, 3}
       THEN phase' = "ready" /\ dim' = d
       ELSE phase' = "failed" /\ dim' = Undef
  /\ UNCHANGED <<nearest, N, Pof, Yrows, iter, done, exag>>

(* The assignments of initSolution (lines 305-312) for n points: a fresh  *)
(* random Y (empty when n is undefined), unit gains, zero steps, iter 0.  *)
SolutionReset(n) ==
  /\ Yrows' = IF n = Undef THEN 0 ELSE n
  /\ iter' = 0
  /\ done' = 0
  /\ exag' = 0

(* Mutant of InitDataDist: this.N = N (line 300) done before nearest2P.    *)
InitDataDistEarlyN(T) ==
  /\ phase = "ready"
  /\ nearest' = T
  /\ N' = Len(T)
  /\ IF Nearest2PThrows(T)
       THEN UNCHANGED <<Pof, Yrows, iter, done, exag>>
       ELSE /\ Pof' = T
            /\ SolutionReset(Len(T))
  /\ UNCHANGED <<phase, dim>>

(* initDataDist (lines 296-302): nearest is stored first; if nearest2P     *)
(* throws, P, N and Y keep their old values.                               *)
InitDataDist(T) ==
  /\ phase = "ready"
  /\ nearest' = T
  /\ IF Nearest2PThrows(T)
       THEN UNCHANGED <<Pof, N, Yrows, iter, done, exag>>
       ELSE /\ Pof' = T
            /\ N' = Len(T)
            /\ SolutionReset(Len(T))
  /\ UNCHANGED <<phase, dim>>

(* initSolution (lines 305-312), public: it may be called at any time.     *)
InitSolution ==
  /\ phase = "ready"
  /\ SolutionReset(N)
  /\ UNCHANGED <<phase, dim, nearest, N, Pof>>

(* step (lines 318-358): iter is incremented first, then costGrad runs;    *)
(* if it throws, the update of Y, gains and ystep never happens.           *)
Step ==
  /\ phase = "ready"
  /\ iter < MaxIter
  /\ iter' = iter + 1
  /\ IF CostGradThrows
       THEN UNCHANGED <<done, exag>>
       ELSE /\ done' = done + 1
            /\ exag' = IF iter + 1 < ExagIters THEN exag + 1 ELSE exag
  /\ UNCHANGED <<phase, dim, nearest, N, Pof, Yrows>>

(* The constructor threw: the caller holds no engine.                      *)
NoEngine ==
  /\ phase = "failed"
  /\ UNCHANGED vars

Next ==
  \/ \E d \in Dims : Construct(d)
  \/ \E T \in Tables : InitDataDist(T)
  \/ InitSolution
  \/ Step
  \/ NoEngine

Spec == Init /\ [][Next]_vars
-----------------------------------------------------------------------------
TypeOK ==
  /\ phase \in {"new", "ready", "failed"}
  /\ dim \in {2, 3, Undef}
  /\ nearest \in Tables \cup {Undef}
  /\ N \in Nat \cup {Undef}
  /\ Pof \in Tables \cup {Undef}
  /\ Yrows \in Nat \cup {Undef}
  /\ iter \in 0 .. MaxIter
  /\ done \in 0 .. MaxIter
  /\ exag \in 0 .. MaxIter

(* A step that completes (its update of Y runs).                           *)
CompletedStep == done' = done + 1

(* Whenever step() completes, the P it reads, the solution Y it moves and  *)
(* the N it loops over all come from the same successful initDataDist,     *)
(* however the caller interleaves initDataDist (failing or not),           *)
(* initSolution and step.                                                  *)
StepSeesConsistentData ==
  [][CompletedStep => Pof # Undef /\ Len(Pof) = N /\ Yrows = N]_vars

(* Spec section 3: P is built from the kNN table, and the gradient         *)
(* evaluator reads both; a step that completes reads P for the neighbour   *)
(* lists it walks.                                                         *)
StepUsesCurrentP ==
  [][CompletedStep => Pof = nearest]_vars

(* Spec section 5: "either t and Y are both updated or neither": iter      *)
(* counts exactly the steps that updated Y since initSolution.             *)
StepAtomic == iter = done

(* Spec sections 3 and 4.5: t starts at 0, the steps with t < 100 run with *)
(* alpha = 4, so the first ExagIters completed steps are exaggerated.      *)
ExaggerationSchedule ==
  exag = IF done < ExagIters THEN done ELSE ExagIters
=============================================================================
