------------------------ MODULE MCProvisionerDispatch ------------------------
(* ProvisionerDispatch for TLC, with a cluster of three nodes.               *)
EXTENDS ProvisionerDispatch

ThreeNodes == {[size |-> 3, storage |-> 0, labels |-> {}]}

===============================================================================
