------------------------------ MODULE CheckOps ------------------------------
(***************************************************************************)
(* checkOpsForCompatibility (op.ts lines 572-588) one callback at a time: *)
(* the null check, then _.each over graph.nodes, and for each node the     *)
(* assignment of node.compatible followed by _.each over its              *)
(* inEmbeddings and its outEmbeddings.  The node objects, and so their     *)
(* compatible flags, outlive a call: the caller checks one graph, then     *)
(* another, over the same nodes.                                           *)
(*                                                                         *)
(* A SlimGraph is a record [nodes, inEmb, outEmb]: the sequence of the     *)
(* values of graph.nodes in iteration order and, for every node, the       *)
(* sequences node.inEmbeddings and node.outEmbeddings.                     *)
(***************************************************************************)
EXTENDS Naturals, Sequences, Functions, TpuCompatibility

CONSTANTS Ids, Attr, Graphs, Tpu, Null, Unset, MaxCalls

ASSUME AttrAssumption == Attr \in [Ids -> OpNodes]
ASSUME GraphsAssumption ==
  Graphs \subseteq [nodes : Seq(Ids), inEmb : [Ids -> Seq(Ids)],
                    outEmb : [Ids -> Seq(Ids)]]
ASSUME ProviderAssumption == Tpu # Null
ASSUME UnsetAssumption == Unset \notin BOOLEAN
ASSUME MaxCallsAssumption == MaxCalls \in Nat

VARIABLES
  compatible,  \* node.compatible of every node
  calls,       \* calls made so far
  pc,          \* "idle" between calls, "loop" inside one
  graph,       \* the graph of the current (or last completed) call
  k,           \* position in graph.nodes of the outer callback
  part,        \* "node", "in" or "out": which statement of the callback
  j            \* position in the embedding list being walked

vars == <<compatible, calls, pc, graph, k, part, j>>

A == INSTANCE CheckOpsAtomic

EmptyGraph == [nodes |-> <<>>, inEmb |-> [n \in Ids |-> <<>>],
               outEmb |-> [n \in Ids |-> <<>>]]

Current == graph.nodes[k]

(* node.compatible = provider.opValid(node) for the node n.                *)
Mark(n) == compatible' = [compatible EXCEPT ![n] = OpValid(Attr[n])]
-----------------------------------------------------------------------------
Init ==
  /\ compatible = [n \in Ids |-> Unset]
  /\ calls = 0
  /\ pc = "idle"
  /\ graph = EmptyGraph
  /\ k = 1 /\ part = "node" /\ j = 1

(* The call: a null provider throws at line 577 before any assignment.     *)
Call(g, p) ==
  /\ pc = "idle"
  /\ calls < MaxCalls
  /\ calls' = calls + 1
  /\ IF p = Null
       THEN UNCHANGED <<compatible, pc, graph, k, part, j>>
       ELSE /\ pc' = "loop" /\ graph' = g
            /\ k' = 1 /\ part' = "node" /\ j' = 1
            /\ UNCHANGED compatible

(* Line 580, for the k-th node of graph.nodes.                             *)
MarkNode ==
  /\ pc = "loop" /\ part = "node" /\ k <= Len(graph.nodes)
  /\ Mark(Current)
  /\ part' = "in" /\ j' = 1
  /\ UNCHANGED <<calls, pc, graph, k>>

(* Mutant of MarkIn: the inner callback judges the outer node.             *)
MarkInOuter ==
  /\ pc = "loop" /\ part = "in" /\ j <= Len(graph.inEmb[Current])
  /\ compatible' = [compatible EXCEPT ![graph.inEmb[Current][j]] =
                      OpValid(Attr[Current])]
  /\ j' = j + 1
  /\ UNCHANGED <<calls, pc, graph, k, part>>

(* Line 582, for the j-th in-embedding of the current node.                *)
MarkIn ==
  /\ pc = "loop" /\ part = "in" /\ j <= Len(graph.inEmb[Current])
  /\ Mark(graph.inEmb[Current][j])
  /\ j' = j + 1
  /\ UNCHANGED <<calls, pc, graph, k, part>>

(* Mutant of InDone: the walk of outEmbeddings (lines 584-586) left out.   *)
InDoneSkipOut ==
  /\ pc = "loop" /\ part = "in" /\ j > Len(graph.inEmb[Current])
  /\ part' = "node" /\ k' = k + 1 /\ j' = 1
  /\ UNCHANGED <<compatible, calls, pc, graph>>

(* End of the _.each of line 581.                                          *)
InDone ==
  /\ pc = "loop" /\ part = "in" /\ j > Len(graph.inEmb[Current])
  /\ part' = "out" /\ j' = 1
  /\ UNCHANGED <<compatible, calls, pc, graph, k>>

(* Line 585, for the j-th out-embedding of the current node.               *)
MarkOut ==
  /\ pc = "loop" /\ part = "out" /\ j <= Len(graph.outEmb[Current])
  /\ Mark(graph.outEmb[Current][j])
  /\ j' = j + 1
  /\ UNCHANGED <<calls, pc, graph, k, part>>

(* End of the callback of line 579: on to the next node.                   *)
OutDone ==
  /\ pc = "loop" /\ part = "out" /\ j > Len(graph.outEmb[Current])
  /\ part' = "node" /\ k' = k + 1 /\ j' = 1
  /\ UNCHANGED <<compatible, calls, pc, graph>>

(* End of the _.each of line 579: the call returns.                        *)
Return ==
  /\ pc = "loop" /\ part = "node" /\ k > Len(graph.nodes)
  /\ pc' = "idle"
  /\ UNCHANGED <<compatible, calls, graph, k, part, j>>

(* The caller makes no more calls.                                         *)
Finished ==
  /\ pc = "idle" /\ calls = MaxCalls
  /\ UNCHANGED vars

Next ==
  \/ \E g \in Graphs, p \in {Tpu, Null} : Call(g, p)
  \/ MarkNode \/ MarkIn \/ InDone \/ MarkOut \/ OutDone \/ Return
  \/ Finished

Spec == Init /\ [][Next]_vars
-----------------------------------------------------------------------------
TypeOK ==
  /\ compatible \in [Ids -> BOOLEAN \cup {Unset}]
  /\ calls \in 0 .. MaxCalls
  /\ pc \in {"idle", "loop"}
  /\ graph \in Graphs \cup {EmptyGraph}
  /\ k \in 1 .. Len(graph.nodes) + 1
  /\ j \in Nat \ {0}
  /\ part \in {"node", "in", "out"}

(* Between calls, every node of the last checked graph and every in- and  *)
(* out-embedding of one carries the verdict of opValid on it, however the *)
(* graphs share nodes and embeddings and whatever earlier calls left.     *)
MarksCurrent ==
  pc = "idle" => \A n \in A!Covered(graph) : compatible[n] = OpValid(Attr[n])

(* Refinement mapping: inside a call, the flags are those the call will   *)
(* have set when it returns.                                               *)
AbsCompatible ==
  IF pc = "loop"
    THEN [n \in Ids |-> IF n \in A!Covered(graph) THEN OpValid(Attr[n])
                                                  ELSE compatible[n]]
    ELSE compatible

AbsCheck == INSTANCE CheckOpsAtomic WITH compatible <- AbsCompatible

(* The callback-by-callback walk of checkOpsForCompatibility implements   *)
(* the atomic marking of CheckOpsAtomic: no node outside the graph and its *)
(* embeddings is touched, and none inside it is left with another verdict. *)
ImplementsAtomicCheck == AbsCheck!Spec
=============================================================================
