----------------------------- MODULE MCEvalBatch -----------------------------
(* Instances of EvalBatch for TLC: machines of which the runtime tells         *)
(* nothing, too little memory for one episode, and enough for two.             *)
EXTENDS EvalBatch
SmallMachines == {NoCapacity, <<4, 3>>, <<4, 12>>}
==============================================================================
