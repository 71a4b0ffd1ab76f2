--------------------------- MODULE CheckOpsProofs ---------------------------
(***************************************************************************)
(* Proofs that the walk of checkOpsForCompatibility (CheckOps.tla) keeps  *)
(* its types, leaves every node of the checked graph and every embedding  *)
(* of one with opValid's verdict, and implements the atomic marking of     *)
(* CheckOpsAtomic, for every set of nodes, graphs and bound on the calls. *)
(***************************************************************************)
EXTENDS CheckOps, TLAPS

GraphType == [nodes : Seq(Ids), inEmb : [Ids -> Seq(Ids)],
              outEmb : [Ids -> Seq(Ids)]]

(* The flag of node n is opValid's verdict on it.                          *)
Ok(n) == compatible[n] = OpValid(Attr[n])

(* The callback for the x-th node of graph.nodes has run to its end.       *)
NodeDone(x) ==
  LET n == graph.nodes[x]
  IN  /\ Ok(n)
      /\ \A y \in 1 .. Len(graph.inEmb[n]) : Ok(graph.inEmb[n][y])
      /\ \A y \in 1 .. Len(graph.outEmb[n]) : Ok(graph.outEmb[n][y])

(* Where the walk is: inside a callback only while a node is left.         *)
Control ==
  /\ pc = "idle" => part = "node"
  /\ part \in {"in", "out"} => k <= Len(graph.nodes)
  /\ part = "in" => j <= Len(graph.inEmb[Current]) + 1
  /\ part = "out" => j <= Len(graph.outEmb[Current]) + 1

(* What the walk has done so far is correct.                               *)
LoopInv ==
  pc = "loop" =>
    /\ \A x \in 1 .. k - 1 : NodeDone(x)
    /\ part \in {"in", "out"} => Ok(Current)
    /\ part = "in" => \A y \in 1 .. j - 1 : Ok(graph.inEmb[Current][y])
    /\ part = "out" =>
         /\ \A y \in 1 .. Len(graph.inEmb[Current]) : Ok(graph.inEmb[Current][y])
         /\ \A y \in 1 .. j - 1 : Ok(graph.outEmb[Current][y])

IInv == TypeOK /\ Control /\ LoopInv /\ MarksCurrent
-----------------------------------------------------------------------------
LEMMA GraphTyped == \A g \in Graphs \cup {EmptyGraph} : g \in GraphType
  <1>1. EmptyGraph \in GraphType
    <2>1. <<>> \in Seq(Ids)
      OBVIOUS
    <2>2. [n \in Ids |-> <<>>] \in [Ids -> Seq(Ids)]
      BY <2>1
    <2> QED
      BY <2>1, <2>2 DEF EmptyGraph, GraphType
  <1> QED
    BY <1>1, GraphsAssumption DEF GraphType

(* opValid returns a Boolean.                                              *)
LEMMA OpValidBoolean == \A n \in Ids : OpValid(Attr[n]) \in BOOLEAN
  BY DEF OpValid

(* Marking node n keeps every correct flag correct and makes n's correct. *)
LEMMA MarkOk ==
  ASSUME compatible \in [Ids -> BOOLEAN \cup {Unset}],
         NEW n \in Ids, Mark(n),
         NEW m \in Ids, Ok(m) \/ m = n
  PROVE  Ok(m)'
  <1>1. CASE m = n
    BY <1>1 DEF Mark, Ok
  <1>2. CASE m # n
    BY <1>2 DEF Mark, Ok
  <1> QED
    BY <1>1, <1>2

(* When every callback has run, every covered node is correct.            *)
LEMMA Completion ==
  ASSUME graph \in GraphType,
         \A x \in 1 .. Len(graph.nodes) : NodeDone(x)
  PROVE  \A n \in A!Covered(graph) : Ok(n)
  <1> SUFFICES ASSUME NEW n \in A!Covered(graph) PROVE Ok(n)
    OBVIOUS
  <1>0. /\ graph.nodes \in Seq(Ids)
        /\ \A m \in Ids : graph.inEmb[m] \in Seq(Ids) /\ graph.outEmb[m] \in Seq(Ids)
    BY DEF GraphType
  <1>1. CASE n \in Range(graph.nodes)
    <2>1. PICK x \in 1 .. Len(graph.nodes) : n = graph.nodes[x]
      BY <1>0, <1>1 DEF Range
    <2> QED
      BY <2>1 DEF NodeDone
  <1>2. CASE \E m \in Range(graph.nodes) :
               n \in Range(graph.inEmb[m]) \cup Range(graph.outEmb[m])
    <2>1. PICK m \in Range(graph.nodes) :
                 n \in Range(graph.inEmb[m]) \cup Range(graph.outEmb[m])
      BY <1>2
    <2>2. PICK x \in 1 .. Len(graph.nodes) : m = graph.nodes[x]
      BY <1>0, <2>1 DEF Range
    <2>3. m \in Ids
      BY <1>0, <2>2
    <2>4. NodeDone(x)
      BY <2>2
    <2>5. CASE n \in Range(graph.inEmb[m])
      <3>1. PICK y \in 1 .. Len(graph.inEmb[m]) : n = graph.inEmb[m][y]
        BY <1>0, <2>3, <2>5 DEF Range
      <3> QED
        BY <3>1, <2>2, <2>4 DEF NodeDone
    <2>6. CASE n \in Range(graph.outEmb[m])
      <3>1. PICK y \in 1 .. Len(graph.outEmb[m]) : n = graph.outEmb[m][y]
        BY <1>0, <2>3, <2>6 DEF Range
      <3> QED
        BY <3>1, <2>2, <2>4 DEF NodeDone
    <2> QED
      BY <2>1, <2>5, <2>6
  <1>3. \/ n \in Range(graph.nodes)
        \/ \E m \in Range(graph.nodes) :
             n \in Range(graph.inEmb[m]) \cup Range(graph.outEmb[m])
    BY Zenon DEF A!Covered, A!Range, Range
  <1> QED
    BY <1>1, <1>2, <1>3

-----------------------------------------------------------------------------
LEMMA InitIInv == Init => IInv
  <1> SUFFICES ASSUME Init PROVE IInv
    OBVIOUS
  <1>1. A!Covered(EmptyGraph) = {}
    BY DEF EmptyGraph, A!Covered, A!Range
  <1>2. TypeOK
    BY MaxCallsAssumption DEF Init, TypeOK, EmptyGraph
  <1>3. Control /\ LoopInv
    BY DEF Init, Control, LoopInv
  <1>4. MarksCurrent
    BY <1>1 DEF Init, MarksCurrent
  <1> QED
    BY <1>2, <1>3, <1>4 DEF IInv

(* Marking a node of Ids keeps every finished callback finished.          *)
LEMMA MarkKeepsDone ==
  ASSUME TypeOK, graph \in GraphType,
         NEW n \in Ids, Mark(n), graph' = graph,
         NEW x \in 1 .. Len(graph.nodes), NodeDone(x)
  PROVE  NodeDone(x)'
  <1> DEFINE m == graph.nodes[x]
  <1>1. m \in Ids /\ graph.inEmb[m] \in Seq(Ids) /\ graph.outEmb[m] \in Seq(Ids)
    BY DEF GraphType
  <1>2. compatible \in [Ids -> BOOLEAN \cup {Unset}]
    BY DEF TypeOK
  <1>3. Ok(m)'
    BY <1>1, <1>2, MarkOk DEF NodeDone
  <1>4. \A y \in 1 .. Len(graph.inEmb[m]) : Ok(graph.inEmb[m][y])'
    BY <1>1, <1>2, MarkOk DEF NodeDone
  <1>5. \A y \in 1 .. Len(graph.outEmb[m]) : Ok(graph.outEmb[m][y])'
    BY <1>1, <1>2, MarkOk DEF NodeDone
  <1> QED
    BY <1>3, <1>4, <1>5 DEF NodeDone

(* Steps that change neither the flags nor the graph keep every verdict.  *)
LEMMA FlagsUnchanged ==
  ASSUME compatible' = compatible, graph' = graph
  PROVE  /\ \A n : Ok(n)' = Ok(n)
         /\ \A x : NodeDone(x)' = NodeDone(x)
  BY DEF Ok, NodeDone

LEMMA NextIInv == IInv /\ [Next]_vars => IInv'
  <1> SUFFICES ASSUME IInv, [Next]_vars PROVE IInv'
    OBVIOUS
  <1>0. /\ graph \in GraphType
        /\ compatible \in [Ids -> BOOLEAN \cup {Unset}]
        /\ k \in 1 .. Len(graph.nodes) + 1
        /\ j \in Nat \ {0}
    BY GraphTyped DEF IInv, TypeOK
  <1>1. ASSUME NEW g \in Graphs, NEW p \in {Tpu, Null}, Call(g, p) PROVE IInv'
    <2>1. CASE p = Null
      <3>1. UNCHANGED <<compatible, pc, graph, k, part, j>> /\ calls' = calls + 1
            /\ calls < MaxCalls
        BY <1>1, <2>1 DEF Call
      <3>2. TypeOK'
        BY <3>1, MaxCallsAssumption DEF IInv, TypeOK
      <3>3. Control' /\ LoopInv'
        BY <3>1 DEF IInv, Control, LoopInv, NodeDone, Ok, Current
      <3>4. MarksCurrent'
        BY <3>1 DEF IInv, MarksCurrent
      <3> QED
        BY <3>2, <3>3, <3>4 DEF IInv
    <2>2. CASE p = Tpu
      <3>1. g \in GraphType
        BY GraphTyped
      <3>2. /\ pc' = "loop" /\ graph' = g /\ k' = 1 /\ part' = "node" /\ j' = 1
            /\ compatible' = compatible /\ calls' = calls + 1 /\ calls < MaxCalls
        BY <1>1, <2>2, ProviderAssumption DEF Call
      <3>3. Len(g.nodes) \in Nat
        BY <3>1 DEF GraphType
      <3>4. TypeOK'
        BY <3>2, <3>3, <1>0, MaxCallsAssumption DEF IInv, TypeOK
      <3>5. (Control /\ LoopInv /\ MarksCurrent)'
        BY <3>2 DEF Control, LoopInv, MarksCurrent
      <3> QED
        BY <3>4, <3>5 DEF IInv
    <2> QED
      BY <2>1, <2>2
  <1>2. CASE MarkNode
    <2>0. /\ pc = "loop" /\ part = "node" /\ k <= Len(graph.nodes)
          /\ Mark(Current) /\ part' = "in" /\ j' = 1
          /\ UNCHANGED <<calls, pc, graph, k>>
      BY <1>2 DEF MarkNode
    <2>1. Current \in Ids /\ graph.inEmb[Current] \in Seq(Ids)
      BY <2>0, <1>0 DEF Current, GraphType
    <2>2. TypeOK'
      BY <2>0, <1>0, <2>1, OpValidBoolean DEF Mark, IInv, TypeOK
    <2>3. Control'
      BY <2>0, <2>1, <1>0 DEF Control, Current
    <2>4. \A x \in 1 .. k - 1 : NodeDone(x)'
      BY <2>0, <1>0, <2>1, MarkKeepsDone DEF IInv, LoopInv
    <2>5. Ok(Current)'
      BY <2>0, <1>0, <2>1, MarkOk DEF Current
    <2>6. LoopInv'
      BY <2>0, <2>4, <2>5 DEF LoopInv, Current, NodeDone
    <2>7. MarksCurrent'
      BY <2>0 DEF MarksCurrent
    <2> QED
      BY <2>2, <2>3, <2>6, <2>7 DEF IInv
  <1>3. CASE MarkIn
    <2> DEFINE e == graph.inEmb[Current][j]
    <2>0. /\ pc = "loop" /\ part = "in" /\ j <= Len(graph.inEmb[Current])
          /\ Mark(e) /\ j' = j + 1
          /\ UNCHANGED <<calls, pc, graph, k, part>>
      BY <1>3 DEF MarkIn
    <2>1. /\ k <= Len(graph.nodes)
          /\ Current \in Ids /\ graph.inEmb[Current] \in Seq(Ids)
          /\ e \in Ids
      BY <2>0, <1>0 DEF IInv, TypeOK, Control, Current, GraphType
    <2>2. TypeOK'
      BY <2>0, <1>0, <2>1, OpValidBoolean DEF Mark, IInv, TypeOK
    <2>3. Control'
      BY <2>0, <2>1, <1>0 DEF Control, Current
    <2>4. \A x \in 1 .. k - 1 : NodeDone(x)'
      BY <2>0, <1>0, <2>1, MarkKeepsDone DEF IInv, LoopInv
    <2>5. Ok(Current)'
      BY <2>0, <1>0, <2>1, MarkOk DEF IInv, LoopInv, Current
    <2>6. \A y \in 1 .. j : Ok(graph.inEmb[Current][y])'
      <3> SUFFICES ASSUME NEW y \in 1 .. j PROVE Ok(graph.inEmb[Current][y])'
        OBVIOUS
      <3>1. graph.inEmb[Current][y] \in Ids
        BY <2>0, <2>1, <1>0
      <3>2. Ok(graph.inEmb[Current][y]) \/ graph.inEmb[Current][y] = e
        <4>1. CASE y = j
          BY <4>1
        <4>2. CASE y # j
          BY <4>2, <2>0, <1>0 DEF IInv, LoopInv
        <4> QED
          BY <4>1, <4>2
      <3> QED
        BY <3>1, <3>2, <2>0, <2>1, <1>0, MarkOk DEF Current
    <2>7. LoopInv'
      BY <2>0, <2>4, <2>5, <2>6, <1>0 DEF LoopInv, Current
    <2>8. MarksCurrent'
      BY <2>0 DEF MarksCurrent
    <2> QED
      BY <2>2, <2>3, <2>7, <2>8 DEF IInv
  <1>4. CASE InDone
    <2>0. /\ pc = "loop" /\ part = "in" /\ j > Len(graph.inEmb[Current])
          /\ part' = "out" /\ j' = 1
          /\ UNCHANGED <<compatible, calls, pc, graph, k>>
      BY <1>4 DEF InDone
    <2>1. /\ k <= Len(graph.nodes)
          /\ Current \in Ids /\ graph.inEmb[Current] \in Seq(Ids)
          /\ graph.outEmb[Current] \in Seq(Ids)
          /\ j = Len(graph.inEmb[Current]) + 1
      BY <2>0, <1>0 DEF IInv, TypeOK, Control, Current, GraphType
    <2>2. TypeOK'
      BY <2>0 DEF IInv, TypeOK
    <2>3. Control'
      BY <2>0, <2>1 DEF Control, Current
    <2>4. LoopInv'
      <3>1. /\ \A x \in 1 .. k - 1 : NodeDone(x)
            /\ Ok(Current)
            /\ \A y \in 1 .. Len(graph.inEmb[Current]) : Ok(graph.inEmb[Current][y])
        BY <2>0, <2>1, <1>0 DEF IInv, LoopInv
      <3>2. /\ \A x \in 1 .. k - 1 : NodeDone(x)'
            /\ Ok(Current)'
            /\ \A y \in 1 .. Len(graph.inEmb[Current]) : Ok(graph.inEmb[Current][y])'
        BY <3>1, <2>0 DEF Ok, Current, NodeDone
      <3> QED
        BY <3>2, <2>0 DEF LoopInv, Current
    <2>5. MarksCurrent'
      BY <2>0 DEF MarksCurrent
    <2> QED
      BY <2>2, <2>3, <2>4, <2>5 DEF IInv
  <1>5. CASE MarkOut
    <2> DEFINE e == graph.outEmb[Current][j]
    <2>0. /\ pc = "loop" /\ part = "out" /\ j <= Len(graph.outEmb[Current])
          /\ Mark(e) /\ j' = j + 1
          /\ UNCHANGED <<calls, pc, graph, k, part>>
      BY <1>5 DEF MarkOut
    <2>1. /\ k <= Len(graph.nodes)
          /\ Current \in Ids /\ graph.inEmb[Current] \in Seq(Ids)
          /\ graph.outEmb[Current] \in Seq(Ids)
          /\ e \in Ids
      BY <2>0, <1>0 DEF IInv, TypeOK, Control, Current, GraphType
    <2>2. TypeOK'
      BY <2>0, <1>0, <2>1, OpValidBoolean DEF Mark, IInv, TypeOK
    <2>3. Control'
      BY <2>0, <2>1, <1>0 DEF Control, Current
    <2>4. \A x \in 1 .. k - 1 : NodeDone(x)'
      BY <2>0, <1>0, <2>1, MarkKeepsDone DEF IInv, LoopInv
    <2>5. Ok(Current)'
      BY <2>0, <1>0, <2>1, MarkOk DEF IInv, LoopInv, Current
    <2>6. \A y \in 1 .. Len(graph.inEmb[Current]) : Ok(graph.inEmb[Current][y])'
      <3> SUFFICES ASSUME NEW y \in 1 .. Len(graph.inEmb[Current])
                   PROVE Ok(graph.inEmb[Current][y])'
        OBVIOUS
      <3>1. graph.inEmb[Current][y] \in Ids
        BY <2>1
      <3>2. Ok(graph.inEmb[Current][y])
        BY <2>0 DEF IInv, LoopInv
      <3> QED
        BY <3>1, <3>2, <2>0, <2>1, <1>0, MarkOk DEF Current
    <2>7. \A y \in 1 .. j : Ok(graph.outEmb[Current][y])'
      <3> SUFFICES ASSUME NEW y \in 1 .. j PROVE Ok(graph.outEmb[Current][y])'
        OBVIOUS
      <3>1. graph.outEmb[Current][y] \in Ids
        BY <2>0, <2>1, <1>0
      <3>2. Ok(graph.outEmb[Current][y]) \/ graph.outEmb[Current][y] = e
        <4>1. CASE y = j
          BY <4>1
        <4>2. CASE y # j
          BY <4>2, <2>0, <1>0 DEF IInv, LoopInv
        <4> QED
          BY <4>1, <4>2
      <3> QED
        BY <3>1, <3>2, <2>0, <2>1, <1>0, MarkOk DEF Current
    <2>8. LoopInv'
      BY <2>0, <2>4, <2>5, <2>6, <2>7, <1>0 DEF LoopInv, Current
    <2>9. MarksCurrent'
      BY <2>0 DEF MarksCurrent
    <2> QED
      BY <2>2, <2>3, <2>8, <2>9 DEF IInv
  <1>6. CASE OutDone
    <2>0. /\ pc = "loop" /\ part = "out" /\ j > Len(graph.outEmb[Current])
          /\ part' = "node" /\ k' = k + 1 /\ j' = 1
          /\ UNCHANGED <<compatible, calls, pc, graph>>
      BY <1>6 DEF OutDone
    <2>1. /\ k <= Len(graph.nodes)
          /\ Current \in Ids /\ graph.outEmb[Current] \in Seq(Ids)
          /\ j = Len(graph.outEmb[Current]) + 1
      BY <2>0, <1>0 DEF IInv, TypeOK, Control, Current, GraphType
    <2>2. TypeOK'
      BY <2>0, <2>1, <1>0 DEF IInv, TypeOK
    <2>3. Control'
      BY <2>0 DEF Control
    <2>4. NodeDone(k)
      BY <2>0, <2>1, <1>0 DEF IInv, LoopInv, NodeDone, Current
    <2>5. \A x \in 1 .. k : NodeDone(x)
      BY <2>0, <2>4, <1>0 DEF IInv, LoopInv
    <2>6. LoopInv'
      BY <2>0, <2>5, <1>0, FlagsUnchanged DEF LoopInv
    <2>7. MarksCurrent'
      BY <2>0 DEF MarksCurrent
    <2> QED
      BY <2>2, <2>3, <2>6, <2>7 DEF IInv
  <1>7. CASE Return
    <2>0. /\ pc = "loop" /\ part = "node" /\ k > Len(graph.nodes)
          /\ pc' = "idle"
          /\ UNCHANGED <<compatible, calls, graph, k, part, j>>
      BY <1>7 DEF Return
    <2>1. \A x \in 1 .. Len(graph.nodes) : NodeDone(x)
      BY <2>0, <1>0 DEF IInv, LoopInv
    <2>2. \A n \in A!Covered(graph) : Ok(n)
      BY <2>1, <1>0, Completion
    <2>3. MarksCurrent'
      BY <2>0, <2>2 DEF MarksCurrent, Ok
    <2>4. TypeOK' /\ Control' /\ LoopInv'
      BY <2>0 DEF IInv, TypeOK, Control, LoopInv
    <2> QED
      BY <2>3, <2>4 DEF IInv
  <1>8. CASE Finished \/ UNCHANGED vars
    <2>1. UNCHANGED vars
      BY <1>8 DEF Finished
    <2>2. compatible' = compatible /\ graph' = graph
      BY <2>1 DEF vars
    <2>3. TypeOK' /\ Control' /\ MarksCurrent'
      BY <2>1 DEF vars, IInv, TypeOK, Control, MarksCurrent, Current, Ok
    <2>4. LoopInv'
      BY <2>1, <2>2, FlagsUnchanged DEF vars, IInv, LoopInv, Current
    <2> QED
      BY <2>3, <2>4 DEF IInv
  <1>9. QED
    BY <1>1, <1>2, <1>3, <1>4, <1>5, <1>6, <1>7, <1>8 DEF Next

-----------------------------------------------------------------------------
(* Between calls, every node of the last checked graph and every          *)
(* embedding of one carries opValid's verdict (MarksCurrent), for every   *)
(* graph, every sharing of nodes between graphs and every number of calls. *)
THEOREM MarksCurrentHolds == Spec => []MarksCurrent
  <1>1. IInv => MarksCurrent
    BY DEF IInv
  <1> QED
    BY InitIInv, NextIInv, <1>1, PTL DEF Spec
-----------------------------------------------------------------------------
(* The two instances of CheckOpsAtomic define the same covered set.        *)
LEMMA CoveredSame == \A g : AbsCheck!Covered(g) = A!Covered(g)
  BY DEF AbsCheck!Covered, A!Covered, AbsCheck!Range, A!Range

(* A node the walk marks belongs to the graph or to an embedding of one.   *)
LEMMA MarkedCovered ==
  ASSUME graph \in GraphType, pc = "loop", k \in 1 .. Len(graph.nodes),
         j \in Nat \ {0}
  PROVE  /\ Current \in A!Covered(graph)
         /\ j <= Len(graph.inEmb[Current]) => graph.inEmb[Current][j] \in A!Covered(graph)
         /\ j <= Len(graph.outEmb[Current]) => graph.outEmb[Current][j] \in A!Covered(graph)
  <1>1. Current \in A!Range(graph.nodes)
    BY DEF Current, A!Range, GraphType
  <1>2. Current \in Ids
    BY DEF Current, GraphType
  <1>3. j <= Len(graph.inEmb[Current]) => graph.inEmb[Current][j] \in A!Range(graph.inEmb[Current])
    BY <1>2 DEF A!Range, GraphType
  <1>4. j <= Len(graph.outEmb[Current]) => graph.outEmb[Current][j] \in A!Range(graph.outEmb[Current])
    BY <1>2 DEF A!Range, GraphType
  <1>5. \A S \in {A!Range(graph.inEmb[m]) \cup A!Range(graph.outEmb[m]) :
                  m \in A!Range(graph.nodes)} :
          S \subseteq A!Covered(graph)
    BY DEF A!Covered
  <1>6. A!Range(graph.inEmb[Current]) \cup A!Range(graph.outEmb[Current])
          \in {A!Range(graph.inEmb[m]) \cup A!Range(graph.outEmb[m]) :
                m \in A!Range(graph.nodes)}
    BY <1>1
  <1>7. A!Range(graph.nodes) \subseteq A!Covered(graph)
    BY DEF A!Covered
  <1> QED
    BY <1>1, <1>3, <1>4, <1>5, <1>6, <1>7

(* The two instances of TpuCompatibility define the same opValid.         *)
LEMMA OpValidSame == \A x : AbsCheck!OpValid(x) = OpValid(x)
  BY DEF AbsCheck!OpValid, OpValid, AbsCheck!IsNotTpuOp, IsNotTpuOp,
         AbsCheck!WHITELIST, WHITELIST

(* A marking step leaves the mapped flags as they are.                     *)
LEMMA MarkStutters ==
  ASSUME compatible \in [Ids -> BOOLEAN \cup {Unset}],
         pc = "loop", pc' = "loop", graph' = graph,
         NEW n \in A!Covered(graph) \cap Ids, Mark(n)
  PROVE  AbsCompatible' = AbsCompatible
  BY DEF AbsCompatible, Mark

LEMMA StepRefines ==
  IInv /\ [Next]_vars => [AbsCheck!Next]_<<AbsCompatible, calls>>
  <1> SUFFICES ASSUME IInv, [Next]_vars
               PROVE  [AbsCheck!Next]_<<AbsCompatible, calls>>
    OBVIOUS
  <1>0. /\ graph \in GraphType
        /\ compatible \in [Ids -> BOOLEAN \cup {Unset}]
        /\ k \in 1 .. Len(graph.nodes) + 1
        /\ j \in Nat \ {0}
    BY GraphTyped DEF IInv, TypeOK
  <1>1. ASSUME NEW g \in Graphs, NEW p \in {Tpu, Null}, Call(g, p)
        PROVE  AbsCheck!Call(g, p)
    <2>1. AbsCompatible = compatible
      BY <1>1 DEF Call, AbsCompatible
    <2>2. CASE p = Null
      BY <1>1, <2>1, <2>2 DEF Call, AbsCompatible, AbsCheck!Call
    <2>3. CASE p = Tpu
      <3>1. pc' = "loop" /\ graph' = g /\ compatible' = compatible
            /\ calls' = calls + 1 /\ calls < MaxCalls
        BY <1>1, <2>3, ProviderAssumption DEF Call
      <3>2. AbsCompatible' = [n \in Ids |-> IF n \in AbsCheck!Covered(g)
                                              THEN OpValid(Attr[n])
                                              ELSE AbsCompatible[n]]
        BY <3>1, <2>1, CoveredSame DEF AbsCompatible
      <3>3. AbsCompatible' = [n \in Ids |-> IF n \in AbsCheck!Covered(g)
                                              THEN AbsCheck!OpValid(Attr[n])
                                              ELSE AbsCompatible[n]]
        BY <3>2, OpValidSame
      <3> QED
        BY <3>1, <3>3, <2>3, ProviderAssumption DEF AbsCheck!Call
    <2> QED
      BY <2>2, <2>3
  <1>2. CASE MarkNode
    <2>1. Current \in A!Covered(graph) \cap Ids
      BY <1>2, <1>0, MarkedCovered DEF MarkNode, Current, GraphType
    <2> QED
      BY <1>2, <1>0, <2>1, MarkStutters DEF MarkNode
  <1>3. CASE MarkIn
    <2>1. graph.inEmb[Current][j] \in A!Covered(graph) \cap Ids
      <3>1. k <= Len(graph.nodes) /\ Current \in Ids
        BY <1>3, <1>0 DEF MarkIn, IInv, Control, Current, GraphType
      <3> QED
        BY <1>3, <1>0, <3>1, MarkedCovered DEF MarkIn, GraphType
    <2> QED
      BY <1>3, <1>0, <2>1, MarkStutters DEF MarkIn
  <1>4. CASE MarkOut
    <2>1. graph.outEmb[Current][j] \in A!Covered(graph) \cap Ids
      <3>1. k <= Len(graph.nodes) /\ Current \in Ids
        BY <1>4, <1>0 DEF MarkOut, IInv, Control, Current, GraphType
      <3>2. j <= Len(graph.outEmb[Current]) /\ pc = "loop"
        BY <1>4 DEF MarkOut
      <3>3. graph.outEmb[Current][j] \in A!Covered(graph)
        BY <1>0, <3>1, <3>2, MarkedCovered
      <3>4. graph.outEmb[Current][j] \in Ids
        BY <1>0, <3>1, <3>2 DEF GraphType
      <3> QED
        BY <3>3, <3>4
    <2> QED
      BY <1>4, <1>0, <2>1, MarkStutters DEF MarkOut
  <1>5. CASE InDone \/ OutDone \/ Finished \/ UNCHANGED vars
    <2>1. UNCHANGED <<compatible, calls, pc, graph>>
      BY <1>5 DEF InDone, OutDone, Finished, vars
    <2> QED
      BY <2>1 DEF AbsCompatible
  <1>6. CASE Return
    <2>1. /\ pc = "loop" /\ k > Len(graph.nodes) /\ pc' = "idle"
          /\ UNCHANGED <<compatible, calls, graph>>
      BY <1>6 DEF Return
    <2>2. \A n \in A!Covered(graph) : Ok(n)
      BY <2>1, <1>0, Completion DEF IInv, LoopInv
    <2>3. AbsCompatible = compatible
      BY <2>1, <2>2, <1>0 DEF AbsCompatible, Ok
    <2> QED
      BY <2>1, <2>3 DEF AbsCompatible
  <1> QED
    BY <1>1, <1>2, <1>3, <1>4, <1>5, <1>6 DEF Next, AbsCheck!Next

(* The callback-by-callback walk of checkOpsForCompatibility implements   *)
(* the atomic marking of CheckOpsAtomic (ImplementsAtomicCheck) for every *)
(* instance: its initial state maps to the abstract one, and each of its  *)
(* steps to an abstract call or a stutter.                                 *)
THEOREM Refinement == Spec => ImplementsAtomicCheck
  <1>1. Init => AbsCheck!Init
    BY DEF Init, AbsCheck!Init, AbsCompatible
  <1> QED
    BY <1>1, InitIInv, NextIInv, StepRefines, PTL
    DEF Spec, ImplementsAtomicCheck, AbsCheck!Spec
====
