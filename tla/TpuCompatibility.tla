-------------------------- MODULE TpuCompatibility --------------------------
(***************************************************************************)
(* TpuCompatibilityProvider (src/tensorboard/plugins/graph/               *)
(* tf_graph_common/op.ts lines 18-571): the test that decides whether an  *)
(* op node of a TensorFlow graph may run on the TPU.                       *)
(*                                                                         *)
(* Abstraction.  An op node is a record of what opValid reads of it:       *)
(*   lib    - its name starts with FUNCTION_LIBRARY_NODE_PREFIX            *)
(*            (name.search(prefix) == 0, line 554);                        *)
(*   op     - its op type, or NoOp when op is undefined or "" (line 558);  *)
(*   device - NoDevice when device is undefined or "" (falsy), else the   *)
(*            four searches made on it: whether device.toLowerCase()      *)
(*            contains "cpu:", "gpu:", "tpu", and whether device itself   *)
(*            contains "TPU_SYSTEM".  Lower-casing is what makes the      *)
(*            first three case-insensitive and the last one not; since    *)
(*            "TPU_SYSTEM" lower-cases to "tpu_system", a device that      *)
(*            contains it also contains "tpu" (the constraint in Devices). *)
(***************************************************************************)
CONSTANTS
  OpTypes,    \* the op type names the model uses (strings)
  NoOp,       \* opNode.op undefined or empty
  NoDevice    \* opNode.device undefined or empty

ASSUME NoOpAssumption == NoOp \notin OpTypes

Devices ==
  {d \in [cpu : BOOLEAN, gpu : BOOLEAN, tpu : BOOLEAN, tpuSystem : BOOLEAN] :
     d.tpuSystem => d.tpu}

OpNodes ==
  [lib : BOOLEAN, op : OpTypes \cup {NoOp}, device : Devices \cup {NoDevice}]

(* The entries of the WHITELIST array (lines 26-537) among the op types    *)
(* the model uses; _.includes compares names exactly.                      *)
WHITELIST ==
  {"Abs", "Add", "Assert", "Const", "Conv2D", "Identity", "MatMul", "NoOp",
   "Placeholder", "SaveV2", "VarHandleOp"}

(* isNotTpuOp (lines 543-551).                                             *)
IsNotTpuOp(dev) == dev.cpu \/ dev.gpu \/ ~dev.tpu

(* opValid (lines 552-570): the early returns, in order, each return true; *)
(* the last line looks the op type up in the whitelist.                    *)
OpValid(nd) ==
  \/ nd.lib
  \/ nd.op = NoOp
  \/ nd.device # NoDevice /\ IsNotTpuOp(nd.device)
  \/ nd.device # NoDevice /\ nd.device.tpuSystem
  \/ nd.op \in WHITELIST
=============================================================================
