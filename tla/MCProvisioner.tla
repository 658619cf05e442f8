---------------------------- MODULE MCProvisioner ----------------------------
(***************************************************************************)
(* Instances of Provisioner for TLC; the other values are in the .cfg      *)
(* files.                                                                  *)
(***************************************************************************)
EXTENDS Provisioner

Asks(size, storage, labels) ==
  [size |-> size, storage |-> storage, labels |-> labels]

\* One node, and nothing else said.
OneNode == {Asks(1, 0, {})}

\* Storage left to the default, and below the minimum of Alicloud.
Storages == OneNode \cup {Asks(1, 10, {})}

\* A node that becomes a cluster and is given labels.
Growing == OneNode \cup {Asks(3, 0, Labels)}

===============================================================================
