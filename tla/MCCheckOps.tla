----------------------------- MODULE MCCheckOps -----------------------------
EXTENDS CheckOps

TpuDevice == [cpu |-> FALSE, gpu |-> FALSE, tpu |-> TRUE, tpuSystem |-> FALSE]
XlaCpuDevice == [cpu |-> TRUE, gpu |-> FALSE, tpu |-> FALSE, tpuSystem |-> FALSE]

(* n1: an unlisted op on the TPU; n2: a listed op on the TPU; n3: an       *)
(* unlisted op on "/device:XLA_CPU:0"; n4: an unlisted op with no device.  *)
MCAttr ==
  [n \in Ids |->
     CASE n = "n1" -> [lib |-> FALSE, op |-> "PyFunc", device |-> TpuDevice]
       [] n = "n2" -> [lib |-> FALSE, op |-> "MatMul", device |-> TpuDevice]
       [] n = "n3" -> [lib |-> FALSE, op |-> "PyFunc", device |-> XlaCpuDevice]
       [] n = "n4" -> [lib |-> FALSE, op |-> "PyFunc", device |-> NoDevice]]

NoEmb == [n \in Ids |-> <<>>]

(* Two graphs over the same node objects, of different sizes, sharing n1  *)
(* and n4 between a node and an embedding role.                            *)
MCGraphs ==
  { [nodes |-> <<"n2", "n3">>,
     inEmb |-> [NoEmb EXCEPT !["n2"] = <<"n1">>],
     outEmb |-> [NoEmb EXCEPT !["n3"] = <<"n4">>]],
    [nodes |-> <<"n4">>,
     inEmb |-> NoEmb,
     outEmb |-> [NoEmb EXCEPT !["n4"] = <<"n1", "n3">>]] }
=============================================================================
