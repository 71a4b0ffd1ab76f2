--------------------------- MODULE CheckOpsAtomic ---------------------------
(***************************************************************************)
(* What checkOpsForCompatibility (op.ts lines 572-588) promises, as one   *)
(* atomic step per call: every op node of graph.nodes, and every in- and  *)
(* out-embedding of one, gets compatible = provider.opValid(node); no      *)
(* other node is touched; a call without a provider throws and marks      *)
(* nothing.                                                                *)
(***************************************************************************)
EXTENDS Naturals, Sequences, Functions, TpuCompatibility

CONSTANTS
  Ids,        \* the op node objects
  Attr,       \* Attr[n]: what opValid reads of node n
  Graphs,     \* the SlimGraphs a caller may pass
  Tpu,        \* a TpuCompatibilityProvider
  Null,       \* provider === null
  Unset,      \* node.compatible not yet assigned
  MaxCalls    \* bound on the number of calls

VARIABLES compatible, calls

Covered(g) ==
  Range(g.nodes) \cup
  UNION {Range(g.inEmb[n]) \cup Range(g.outEmb[n]) : n \in Range(g.nodes)}

Init ==
  /\ compatible = [n \in Ids |-> Unset]
  /\ calls = 0

Call(g, p) ==
  /\ calls < MaxCalls
  /\ calls' = calls + 1
  /\ IF p = Null
       THEN UNCHANGED compatible
       ELSE compatible' = [n \in Ids |->
                             IF n \in Covered(g) THEN OpValid(Attr[n])
                                                 ELSE compatible[n]]

Next == \E g \in Graphs, p \in {Tpu, Null} : Call(g, p)

Spec == Init /\ [][Next]_<<compatible, calls>>
=============================================================================
