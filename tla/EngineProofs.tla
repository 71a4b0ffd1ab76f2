---------------------------- MODULE EngineProofs ----------------------------
(***************************************************************************)
(* Proofs about the TSNE facade (Engine.tla) for every set of dimensions, *)
(* of kNN tables and every bound.                                          *)
(***************************************************************************)
EXTENDS Engine, TLAPS

(* The step counters only grow inside step(): the steps completed since   *)
(* initSolution are at most the increments of iter, the exaggerated ones  *)
(* at most the completed ones.                                             *)
Counters == exag <= done /\ done <= iter

(* Once initDataDist has succeeded, P, N and Y come from one table: P     *)
(* from it, N its length, Y drawn for N points.                            *)
DataConsistent ==
  N # Undef => /\ Pof # Undef
               /\ Pof \in Seq(Seq(Int))
               /\ Len(Pof) = N
               /\ Yrows = N

IInv == TypeOK /\ Counters /\ DataConsistent

LEMMA InitIInv == Init => IInv
  BY BoundsAssumption DEF Init, IInv, TypeOK, Counters, DataConsistent

LEMMA NextIInv == IInv /\ [Next]_vars => IInv'
  <1> SUFFICES ASSUME IInv, [Next]_vars PROVE IInv'
    OBVIOUS
  <1> USE DEF IInv, TypeOK, Counters, DataConsistent
  <1>1. ASSUME NEW d \in Dims, Construct(d) PROVE IInv'
    BY <1>1 DEF Construct
  <1>2. ASSUME NEW T \in Tables, InitDataDist(T) PROVE IInv'
    <2>1. CASE Nearest2PThrows(T)
      BY <1>2, <2>1 DEF InitDataDist
    <2>2. CASE ~Nearest2PThrows(T)
      BY <1>2, <2>2, TablesAssumption, UndefAssumption, BoundsAssumption
      DEF InitDataDist, SolutionReset
    <2>3. QED
      BY <2>1, <2>2
  <1>3. CASE InitSolution
    BY <1>3, UndefAssumption, BoundsAssumption DEF InitSolution, SolutionReset
  <1>4. CASE Step
    BY <1>4, BoundsAssumption DEF Step
  <1>5. CASE NoEngine
    BY <1>5 DEF NoEngine, vars
  <1>6. CASE UNCHANGED vars
    BY <1>6 DEF vars
  <1>7. QED
    BY <1>1, <1>2, <1>3, <1>4, <1>5, <1>6 DEF Next

(* The engine's fields keep their types under every sequence of calls,    *)
(* including the throws of the constructor, initDataDist and costGrad.    *)
THEOREM TypeCorrect == Spec => []TypeOK
  <1>1. IInv => TypeOK
    BY DEF IInv
  <1> QED
    BY InitIInv, NextIInv, <1>1, PTL DEF Spec

(* A completed step reads consistent data: whenever step() gets past      *)
(* costGrad, P was computed from a table of N rows and Y was drawn for N  *)
(* points, whatever initDataDist calls failed in between.                 *)
LEMMA StepConsistent ==
  IInv /\ [Next]_vars => [CompletedStep => Pof # Undef /\ Len(Pof) = N /\ Yrows = N]_vars
  <1> SUFFICES ASSUME IInv, [Next]_vars, CompletedStep
               PROVE Pof # Undef /\ Len(Pof) = N /\ Yrows = N
    OBVIOUS
  <1> USE DEF IInv, TypeOK, DataConsistent, CompletedStep
  <1>1. CASE Step
    BY <1>1 DEF Step, CostGradThrows
  <1>2. CASE ~Step
    <2>1. done' # done + 1
      BY <1>2 DEF Next, Construct, InitDataDist, SolutionReset, InitSolution,
                  NoEngine, vars
    <2>2. QED
      BY <2>1
  <1>3. QED
    BY <1>1, <1>2

(* StepSeesConsistentData holds for every instance.                        *)
THEOREM ConsistentSteps == Spec => StepSeesConsistentData
  BY InitIInv, NextIInv, StepConsistent, PTL DEF Spec, StepSeesConsistentData
=============================================================================
